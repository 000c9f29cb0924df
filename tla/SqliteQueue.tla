---------------------------- MODULE SqliteQueue ----------------------------
(***************************************************************************)
(* The default job queue of kiyomi: internal/queue/sqlite/driver.go,       *)
(* together with the two protocols that feed it, the HTTP handlers of      *)
(* internal/api/job_handler.go and enqueueChild of                         *)
(* internal/queue/pull_handler.go.                                         *)
(*                                                                         *)
(* One row of the table "jobs" per job identifier; the poller, the cleanup *)
(* goroutine, one goroutine per job in flight and the API requests share   *)
(* the table and the two in-memory counters runningCount and activeGroups. *)
(* The pool has a single connection (SetMaxOpenConns(1)) and both          *)
(* pollAndDispatch and finalizeJob hold activeMu throughout, so a poll, a  *)
(* finalization and each SQL transaction is one atomic step; everything    *)
(* between two such steps is interleaved.                                  *)
(***************************************************************************)
EXTENDS Naturals, FiniteSets, Functions

CONSTANTS
    Jobs,            \* job identifiers (UUIDs; never handed out twice)
    Workers,         \* identifiers of the goroutines started by dispatch
    Groups,          \* concurrency group keys
    NoGroup,         \* the empty concurrency group
    NoJob,           \* no job: the parent_id of a root, the job of an idle goroutine
    GroupOf,         \* the concurrency_group column of each job
    GroupLimit,      \* SetGroupLimit; 0 where no limit was set
    Unhandled,       \* jobs whose type has no registered handler
    MaxRetries,      \* the max_retries column of each job
    MaxConcurrency,  \* NewDriver's maxConcurrency, parsed with parsePositiveInt
    MaxFaults,       \* bound: storage errors in one behaviour
    MaxRestarts      \* bound: process restarts in one behaviour

ASSUME JobsAssumption ==
    /\ IsFiniteSet(Jobs)
    /\ NoJob \notin Jobs
ASSUME WorkersAssumption ==
    /\ IsFiniteSet(Workers)
    /\ MaxConcurrency \in Nat \ {0}
    /\ Cardinality(Workers) >= MaxConcurrency
    /\ {"none", "client", "undo"} \cap Workers = {}
ASSUME GroupsAssumption ==
    /\ NoGroup \notin Groups
    /\ GroupOf \in [Jobs -> Groups \cup {NoGroup}]
    /\ GroupLimit \in [Groups -> Nat]
ASSUME JobAttributesAssumption ==
    /\ Unhandled \subseteq Jobs
    /\ MaxRetries \in [Jobs -> Nat]
ASSUME BoundsAssumption ==
    /\ MaxFaults \in Nat
    /\ MaxRestarts \in Nat

VARIABLES
    status,        \* the status column; "absent" before CreateJob, "removed" after a delete
    retries,       \* the retries column
    parent,        \* the parent_id column
    cancelled,     \* rows whose error column reads 'job cancelled by user'
    creator,       \* who stands between CreateJob and Enqueue of a job
    exec,          \* what each goroutine of runJob is doing
    runningCount,  \* Driver.runningCount
    activeGroups,  \* Driver.activeGroups
    victims,       \* root ids CleanupJobs selected and has not deleted yet
    mode,          \* "running", or "stopping" once stopChan is closed
    faults,        \* storage errors so far
    restarts,      \* process restarts so far
    reopened,      \* history: jobs whose Enqueue found a row that was not pending
    stranded       \* history: jobs whose row was left 'running' by a lost goroutine or write

table   == <<status, retries, parent, cancelled>>
slots   == <<runningCount, activeGroups>>
history == <<reopened, stranded>>
vars    == <<status, retries, parent, cancelled, creator, exec, runningCount,
             activeGroups, victims, mode, faults, restarts, reopened, stranded>>

Statuses   == {"absent", "pending", "running", "completed", "failed", "removed"}
Terminal   == {"completed", "failed"}
Results    == {"ok", "transient", "permanent"}
Phases     == {"idle", "dispatched", "handling", "missing"}

(***************************************************************************)
(* Rows, job trees and goroutines                                          *)
(***************************************************************************)
\* Names ending in Mutant are slips a programmer could make in the definition
\* below them; no action uses them.
HasRow(j) == status[j] \notin {"absent", "removed"}
Rows      == {j \in Jobs : HasRow(j)}
PendingMutant == {j \in Jobs : status[j] \in {"pending", "running"}}
Pending   == {j \in Jobs : status[j] = "pending"}

\* The recursive query job_tree: the row of j and, transitively, every row
\* whose parent_id is in the tree.
ClosedUnderChildren(S) == \A k \in Rows : parent[k] \in S => k \in S
JobTree(j) ==
    IF ~HasRow(j) THEN {}
    ELSE {k \in Rows : \A S \in SUBSET Rows :
                          (j \in S /\ ClosedUnderChildren(S)) => k \in S}

Idle          == [phase |-> "idle", job |-> NoJob, retries |-> 0]
Active        == {w \in Workers : exec[w].phase # "idle"}
OnJob(j)      == {w \in Active : exec[w].job = j}
OnGroup(g)    == {w \in Active : GroupOf[exec[w].job] = g}
InGroup(C, g) == {j \in C : GroupOf[j] = g}

Init ==
    /\ status = [j \in Jobs |-> "absent"]
    /\ retries = [j \in Jobs |-> 0]
    /\ parent = [j \in Jobs |-> NoJob]
    /\ cancelled = {}
    /\ creator = [j \in Jobs |-> "none"]
    /\ exec = [w \in Workers |-> Idle]
    /\ runningCount = 0
    /\ activeGroups = [g \in Groups |-> 0]
    /\ victims = {}
    /\ mode = "running"
    /\ faults = 0
    /\ restarts = 0
    /\ reopened = {}
    /\ stranded = {}

----------------------------------------------------------------------------
(***************************************************************************)
(* CreateJob, then Enqueue: by an API request or by a running handler      *)
(***************************************************************************)
\* The INSERT of CreateJob: a pending row, visible to the poller at once.
CreateJob(j, p, who) ==
    /\ status[j] = "absent"
    /\ status' = [status EXCEPT ![j] = "pending"]
    /\ parent' = [parent EXCEPT ![j] = p]
    /\ creator' = [creator EXCEPT ![j] = who]
    /\ UNCHANGED <<retries, cancelled, exec, slots, victims, mode, faults,
                   restarts, history>>

\* POST /jobs and POST .../chapters/:id/pull: a request may name any job it
\* knows of as the parent. (pullManga leaves the status empty until Enqueue, so
\* the poller cannot come before it.)
ApiCreateJob(j, p) ==
    /\ mode = "running"
    /\ p \in {NoJob} \cup {k \in Jobs : status[k] # "absent"}
    /\ CreateJob(j, p, "client")

\* enqueueChild, first half: a handler persists a child of its own job.
HandlerCreateChild(w, j) ==
    /\ exec[w].phase = "handling"
    /\ \A k \in Jobs : creator[k] # w
    /\ CreateJob(j, exec[w].job, w)

\* Enqueue: an unconditional UPDATE to 'pending' of an existing row (retries
\* kept, error cleared), or, when the row is gone, an INSERT of the same job
\* with retries 0, which is where DeleteRows leaves the column.
Enqueue(j) ==
    /\ creator[j] \in Workers \cup {"client"}
    /\ status' = [status EXCEPT ![j] = "pending"]
    /\ cancelled' = cancelled \ {j}
    /\ creator' = [creator EXCEPT ![j] = "none"]
    /\ reopened' = IF status[j] = "pending" THEN reopened ELSE reopened \cup {j}
    /\ UNCHANGED <<retries, parent, exec, slots, victims, mode, faults,
                   restarts, stranded>>

\* Enqueue returns an error to a request (its context may be cancelled at any
\* time by the client): the handler goes on to DeleteJob.
ApiEnqueueFails(j) ==
    /\ creator[j] = "client"
    /\ creator' = [creator EXCEPT ![j] = "undo"]
    /\ UNCHANGED <<table, exec, slots, victims, mode, faults, restarts, history>>

\* Enqueue returns an error to enqueueChild (its context is Background, so
\* this is a storage error): the row of the child stays.
HandlerEnqueueFails(j) ==
    /\ creator[j] \in Workers
    /\ faults < MaxFaults
    /\ faults' = faults + 1
    /\ creator' = [creator EXCEPT ![j] = "none"]
    /\ UNCHANGED <<table, exec, slots, victims, mode, restarts, history>>

\* The rows of S disappear from the table.
DeleteRows(S) ==
    /\ status' = [k \in Jobs |-> IF k \in S THEN "removed" ELSE status[k]]
    /\ retries' = [k \in Jobs |-> IF k \in S THEN 0 ELSE retries[k]]
    /\ cancelled' = cancelled \ S
    /\ UNCHANGED parent

\* The compensating DeleteJob after a failed Enqueue; its error is ignored.
ApiUndo(j) ==
    /\ creator[j] = "undo"
    /\ creator' = [creator EXCEPT ![j] = "none"]
    /\ DeleteRows(JobTree(j)) \/ UNCHANGED table
    /\ UNCHANGED <<exec, slots, victims, mode, faults, restarts, history>>

----------------------------------------------------------------------------
(***************************************************************************)
(* Cancelling, deleting and pruning                                        *)
(***************************************************************************)
CancelJob(j) ==
    LET S == {k \in JobTree(j) : status[k] \in {"pending", "running"}}
    IN  /\ mode = "running"
        /\ HasRow(j)
        /\ status' = [k \in Jobs |-> IF k \in S THEN "failed" ELSE status[k]]
        /\ cancelled' = cancelled \cup S
        /\ UNCHANGED <<retries, parent, creator, exec, slots, victims, mode,
                       faults, restarts, history>>

\* DELETE /jobs/:id; the batch endpoint cleanupJobs is a series of these.
DeleteJob(j) ==
    /\ mode = "running"
    /\ HasRow(j)
    /\ DeleteRows(JobTree(j))
    /\ UNCHANGED <<creator, exec, slots, victims, mode, faults, restarts, history>>

\* CleanupJobs, the candidate query: roots whose whole tree is terminal.
\* Which of them are old enough is left open.
Prunable(j) ==
    /\ HasRow(j)
    /\ parent[j] = NoJob
    /\ \A k \in JobTree(j) : status[k] \in Terminal

CleanupSelect ==
    /\ mode = "running"
    /\ victims = {}
    /\ victims' \in SUBSET {j \in Jobs : Prunable(j)} \ {{}}
    /\ UNCHANGED <<table, creator, exec, slots, mode, faults, restarts, history>>

\* CleanupJobs, the second transaction: delete the trees of the roots
\* selected before, whatever these trees hold by now.
CleanupDelete ==
    /\ victims # {}
    /\ DeleteRows(UNION {JobTree(j) : j \in victims})
    /\ victims' = {}
    /\ UNCHANGED <<creator, exec, slots, mode, faults, restarts, history>>

----------------------------------------------------------------------------
(***************************************************************************)
(* pollAndDispatch                                                         *)
(***************************************************************************)
GroupFull(C, g) ==
    /\ g # NoGroup
    /\ GroupLimit[g] > 0
    /\ activeGroups[g] + Cardinality(InGroup(C, g)) >= GroupLimit[g]
Full(C) == runningCount + Cardinality(C) >= MaxConcurrency

ClaimableMutant(C) ==
    /\ C \subseteq Pending \ Unhandled
    /\ runningCount + Cardinality(C) <= MaxConcurrency

\* The sets of rows a scan of the pending rows may have claimed when it
\* stands at some row, in whatever order the rows came.
Claimable(C) ==
    /\ C \subseteq Pending \ Unhandled
    /\ runningCount + Cardinality(C) <= MaxConcurrency
    /\ \A g \in Groups :
          InGroup(C, g) # {} /\ GroupLimit[g] > 0 =>
             activeGroups[g] + Cardinality(InGroup(C, g)) <= GroupLimit[g]

\* At the end of the scan, every row left alone met a limit.
ScanEnds(C) ==
    \A j \in (Pending \ Unhandled) \ C : Full(C) \/ GroupFull(C, GroupOf[j])

\* Rows without a handler are failed as they are met; the scan breaks off
\* at a row that finds all slots taken.
ScanFails(C, U) ==
    /\ U \subseteq Pending \cap Unhandled
    /\ \/ U = Pending \cap Unhandled
       \/ Full(C) /\ (Pending \ Unhandled) \ C # {}

TakeSlotsMutant1(C) ==
    /\ runningCount' = runningCount
    /\ activeGroups' = [g \in Groups |-> activeGroups[g] + Cardinality(InGroup(C, g))]

TakeSlotsMutant2(C) ==
    /\ runningCount' = IF C = {} THEN runningCount ELSE runningCount + 1
    /\ activeGroups' = [g \in Groups |-> activeGroups[g] + Cardinality(InGroup(C, g))]

\* The counters move with every row claimed.
TakeSlots(C) ==
    /\ runningCount' = runningCount + Cardinality(C)
    /\ activeGroups' = [g \in Groups |-> activeGroups[g] + Cardinality(InGroup(C, g))]

\* Goroutine w is started with the row as the scan read it.
Dispatched(j) ==
    [phase |-> "dispatched", job |-> j, retries |-> retries[j]]

PollAndDispatch ==
    /\ mode = "running"
    /\ ~Full({})
    /\ \E C \in SUBSET Pending, U \in SUBSET Pending :
          /\ Claimable(C) /\ ScanEnds(C) /\ ScanFails(C, U)
          /\ status' = [j \in Jobs |-> IF j \in C THEN "running"
                                       ELSE IF j \in U THEN "failed"
                                       ELSE status[j]]
          /\ TakeSlots(C)
          /\ \E G \in SUBSET (Workers \ Active) : \E start \in Bijection(G, C) :
                exec' = [w \in Workers |->
                            IF w \in G THEN Dispatched(start[w]) ELSE exec[w]]
    /\ UNCHANGED <<retries, parent, cancelled, creator, victims, mode, faults,
                   restarts, history>>

\* Scanning or claiming a row fails: the transaction is rolled back, but the
\* slots of the rows claimed before it stay taken.
PollClaimFails ==
    /\ mode = "running"
    /\ ~Full({})
    /\ faults < MaxFaults
    /\ faults' = faults + 1
    /\ \E C \in SUBSET Pending :
          /\ Claimable(C)
          /\ C # Pending
          /\ TakeSlots(C)
    /\ UNCHANGED <<table, creator, exec, victims, mode, restarts, history>>

\* COMMIT fails: rolled back, and the slots are given back.
PollCommitFails ==
    /\ mode = "running"
    /\ ~Full({})
    /\ Pending # {}
    /\ faults < MaxFaults
    /\ faults' = faults + 1
    /\ UNCHANGED <<table, creator, exec, slots, victims, mode, restarts, history>>

----------------------------------------------------------------------------
(***************************************************************************)
(* runJob and finalizeJob                                                  *)
(***************************************************************************)
\* GetJob: the row as it is now; whether it was cancelled meanwhile is not
\* looked at. Without a row (or on a storage error) the handler is not called.
RunJob(w) ==
    /\ exec[w].phase = "dispatched"
    /\ exec' = [exec EXCEPT ![w].phase =
                  IF HasRow(exec[w].job) THEN "handling" ELSE "missing"]
    /\ UNCHANGED <<table, creator, slots, victims, mode, faults, restarts, history>>

RunJobFails(w) ==
    /\ exec[w].phase = "dispatched"
    /\ faults < MaxFaults
    /\ faults' = faults + 1
    /\ exec' = [exec EXCEPT ![w].phase = "missing"]
    /\ UNCHANGED <<table, creator, slots, victims, mode, restarts, history>>

\* What an attempt may end with: nil, an error (a recovered panic is one), or
\* an error wrapped by Permanent. An attempt whose GetJob failed ends with an
\* ordinary error. Returning is a step of the goroutine alone, so it is taken
\* together with finalizeJob.
Ends(w, r) ==
    \/ /\ exec[w].phase = "handling"
       /\ \A k \in Jobs : creator[k] # w
       /\ r \in Results
    \/ exec[w].phase = "missing" /\ r = "transient"

\* The end of finalizeJob, whatever became of the row.
ReleaseSlot(w) ==
    /\ exec' = [exec EXCEPT ![w] = Idle]
    /\ runningCount' = runningCount - 1
    /\ activeGroups' = IF GroupOf[exec[w].job] = NoGroup THEN activeGroups
                       ELSE [activeGroups EXCEPT ![GroupOf[exec[w].job]] = @ - 1]

NextStatusMutant1(w, r) ==
    IF r = "ok" THEN "completed"
    ELSE IF r = "permanent" \/ exec[w].retries + 1 > MaxRetries[exec[w].job]
         THEN "failed"
         ELSE "pending"

NextStatusMutant2(w, r) ==
    IF r = "ok" THEN "completed"
    ELSE IF r = "permanent" \/ exec[w].retries + 1 >= MaxRetries[exec[w].job]
         THEN "failed"
         ELSE "running"

\* The row's next status, from the goroutine's own copy of retries.
NextStatus(w, r) ==
    IF r = "ok" THEN "completed"
    ELSE IF r = "permanent" \/ exec[w].retries + 1 >= MaxRetries[exec[w].job]
         THEN "failed"
         ELSE "pending"

FinalizableMutant(j) == HasRow(j)

\* The WHERE clause of all three UPDATEs: AND status = 'running'.
Finalizable(j) == status[j] = "running"

FinalizeJob(w, r) ==
    LET j == exec[w].job
    IN  /\ Ends(w, r)
        /\ IF Finalizable(j)
           THEN /\ status' = [status EXCEPT ![j] = NextStatus(w, r)]
                /\ retries' = IF r = "ok" THEN retries
                              ELSE [retries EXCEPT ![j] = exec[w].retries + 1]
           ELSE UNCHANGED <<status, retries>>
        /\ ReleaseSlot(w)
        /\ UNCHANGED <<parent, cancelled, creator, victims, mode, faults,
                       restarts, history>>

\* The UPDATE fails; its error is dropped and the slot is released.
FinalizeJobFails(w) ==
    /\ \E r \in Results : Ends(w, r)
    /\ faults < MaxFaults
    /\ faults' = faults + 1
    /\ ReleaseSlot(w)
    /\ stranded' = IF Finalizable(exec[w].job)
                   THEN stranded \cup {exec[w].job} ELSE stranded
    /\ UNCHANGED <<table, creator, victims, mode, restarts, reopened>>

----------------------------------------------------------------------------
(***************************************************************************)
(* Stop, and the process that comes after it                               *)
(***************************************************************************)
\* Stop closes stopChan: the poller and the cleanup loop end, goroutines of
\* runJob go on until they finish or the 30 s timeout lets the process exit.
\* MaxRestarts bounds the stops too: a stop is followed by a new start.
Stop ==
    /\ mode = "running"
    /\ restarts < MaxRestarts
    /\ mode' = "stopping"
    /\ UNCHANGED <<table, creator, exec, slots, victims, faults, restarts, history>>

\* The process ends (after Stop or by a crash) and NewDriver opens the same
\* jobs.db: the table is as it was left, the memory is fresh.
Restart ==
    /\ restarts < MaxRestarts
    /\ restarts' = restarts + 1
    /\ mode' = "running"
    /\ exec' = [w \in Workers |-> Idle]
    /\ creator' = [j \in Jobs |-> "none"]
    /\ runningCount' = 0
    /\ activeGroups' = [g \in Groups |-> 0]
    /\ victims' = {}
    /\ stranded' = stranded \cup {j \in Jobs : status[j] = "running"}
    /\ UNCHANGED <<table, faults, reopened>>

----------------------------------------------------------------------------
Creation ==
    \E j \in Jobs :
       \/ \E p \in Jobs \cup {NoJob} : ApiCreateJob(j, p)
       \/ \E w \in Workers : HandlerCreateChild(w, j)
       \/ Enqueue(j)
       \/ ApiEnqueueFails(j)
       \/ HandlerEnqueueFails(j)
       \/ ApiUndo(j)

Removal ==
    \/ \E j \in Jobs : CancelJob(j) \/ DeleteJob(j)
    \/ CleanupSelect
    \/ CleanupDelete

Polling == PollAndDispatch \/ PollClaimFails \/ PollCommitFails

Execution ==
    \E w \in Workers :
       \/ RunJob(w)
       \/ RunJobFails(w)
       \/ \E r \in Results : FinalizeJob(w, r)
       \/ FinalizeJobFails(w)

Next == Creation \/ Removal \/ Polling \/ Execution \/ Stop \/ Restart

Spec == Init /\ [][Next]_vars

\* The poller is driven by a 100 ms ticker, goroutines of runJob are scheduled
\* by the Go runtime, handlers return (every request they make has a timeout)
\* and so do requests; storage errors and restarts are not owed to anyone.
Fairness ==
    /\ WF_vars(PollAndDispatch)
    /\ \A w \in Workers :
          /\ WF_vars(RunJob(w))
          /\ WF_vars(\E r \in Results : FinalizeJob(w, r))
    /\ \A j \in Jobs : WF_vars(Enqueue(j))

FairSpec == Spec /\ Fairness

----------------------------------------------------------------------------
(***************************************************************************)
(* Properties                                                              *)
(***************************************************************************)
\* Types of the columns and of the driver's memory.
TypeOK ==
    /\ status \in [Jobs -> Statuses]
    /\ retries \in [Jobs -> Nat]
    /\ parent \in [Jobs -> Jobs \cup {NoJob}]
    /\ cancelled \subseteq Jobs
    /\ creator \in [Jobs -> {"none", "client", "undo"} \cup Workers]
    /\ exec \in [Workers -> [phase : Phases, job : Jobs \cup {NoJob}, retries : Nat]]
    /\ \A w \in Active : exec[w].job \in Jobs
    /\ runningCount \in Nat
    /\ activeGroups \in [Groups -> Nat]
    /\ victims \subseteq Jobs
    /\ mode \in {"running", "stopping"}
    /\ faults \in Nat
    /\ restarts \in Nat
    /\ reopened \subseteq Jobs
    /\ stranded \subseteq Jobs

\* Concurrency limits hold across polls, storage errors and restarts: at most
\* maxConcurrency goroutines are alive, and at most groupLimits[g] of a
\* limited group, because the counters never fall behind the goroutines;
\* while no storage error has happened they agree with them exactly.
SlotAccounting ==
    /\ Cardinality(Active) <= runningCount
    /\ runningCount <= MaxConcurrency
    /\ faults = 0 => runningCount = Cardinality(Active)

GroupAccounting ==
    \A g \in Groups :
       /\ Cardinality(OnGroup(g)) <= activeGroups[g]
       /\ GroupLimit[g] > 0 => activeGroups[g] <= GroupLimit[g]
       /\ faults = 0 => activeGroups[g] = Cardinality(OnGroup(g))

\* A row reads 'running' only while a goroutine of this process is on it,
\* unless a restart or a failed finalization left it behind.
RunningIsOwned ==
    \A j \in Jobs : status[j] = "running" => j \in stranded \/ OnJob(j) # {}

\* A job is never in two goroutines at once, and a pending job is in none:
\* only an Enqueue that found the row no longer pending (claimed, finished,
\* cancelled or deleted since CreateJob) can break this.
ExclusiveExecution ==
    \A j \in Jobs \ reopened :
       /\ \A v, w \in OnJob(j) : v = w
       /\ status[j] \in {"absent", "pending"} => OnJob(j) = {}

\* A job is tried at most max(1, max_retries) times: a row that may run
\* (again) has attempts left, and a goroutine counts from the row's own value.
RetryBudget ==
    \A j \in Jobs \ reopened :
       /\ status[j] \in {"pending", "running"} =>
             retries[j] = 0 \/ retries[j] < MaxRetries[j]
       /\ status[j] = "running" => \A w \in OnJob(j) : exec[w].retries = retries[j]

\* A completed, failed or cancelled job whose creator is done with it keeps
\* its status until it is deleted, and a deleted one stays deleted, whatever
\* late goroutines report.
SettledIsFinal ==
    [][\A j \in Jobs :
          creator[j] = "none" /\ status[j] \in Terminal \cup {"removed"} =>
             status'[j] \in {status[j], "removed"}]_vars

\* The driver implements the lifecycle every driver owes its callers: a
\* submission is open between the CreateJob and the Enqueue of its creator.
Lifecycle ==
    INSTANCE JobLifecycle
       WITH state <- status,
            open <- {j \in Jobs : creator[j] \in Workers \cup {"client"}}

ImplementsLifecycle == Lifecycle!Spec

\* With the driver left running and no storage error, every pending job is
\* eventually completed, failed or deleted, or was lost to a restart.
PendingIsServed ==
    <>[](mode = "running") =>
       \A j \in Jobs :
          status[j] = "pending" ~>
             (status[j] \in Terminal \cup {"removed"} \/ j \in stranded)

(***************************************************************************)
(* What docs/design/background_jobs.md says and the driver does not keep   *)
(***************************************************************************)
\* "Crash Recovery: During startup, tasks stranded in `running` state ... are
\* automatically transitioned back to `pending`": NewDriver and Start touch no
\* row, so a row left 'running' by the previous process stays so.
StrandedIsRecovered ==
    <>[](mode = "running") =>
       \A j \in Jobs :
          (status[j] = "running" /\ OnJob(j) = {}) ~> (status[j] # "running")

\* "Completed --> [*]" in the state diagram: the UPDATE of Enqueue reopens a
\* job that the poller claimed and finished between CreateJob and Enqueue.
CompletedIsFinal ==
    [][\A j \in Jobs : status[j] = "completed" => status'[j] \in {"completed", "removed"}]_vars

\* "Cancel an active or queued job and cascade cancellation to all child
\* jobs": the handler of the cancelled job is not told and adds new children.
CancelledJobSpawnsNothing ==
    [][\A j \in Jobs : status[j] = "absent" /\ creator'[j] \in Workers =>
                            parent'[j] \notin cancelled]_vars

\* "A root job is only eligible for cleanup when all child and descendant jobs
\* have reached terminal states": a child added between the two transactions
\* of CleanupJobs is deleted while pending or running.
PruningSparesLiveJobs ==
    [][CleanupDelete =>
          \A k \in Jobs : status[k] \in {"pending", "running"} => status'[k] = status[k]]_vars
=============================================================================
