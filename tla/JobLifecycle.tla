--------------------------- MODULE JobLifecycle ---------------------------
(***************************************************************************)
(* What every queue driver owes its callers about one job: the contract of *)
(* queue.JobStore, queue.Enqueuer and queue.Worker (internal/queue/        *)
(* queue.go). A job is created pending, claimed, retried or settled, may   *)
(* be cancelled while it waits or runs, and may be removed at any time.    *)
(* A job that is settled or removed comes back only through a submission   *)
(* that somebody had already begun: CreateJob without its Enqueue yet, or  *)
(* an execution that may still end in a retry.                             *)
(***************************************************************************)
CONSTANT Jobs

VARIABLES
    state,   \* the status of each job
    open     \* the jobs with a submission still under way

States == {"absent", "pending", "running", "completed", "failed", "removed"}

Init ==
    /\ state = [j \in Jobs |-> "absent"]
    /\ open = {}

Create(j) == state[j] = "absent" /\ state'[j] = "pending"

\* An open submission reaches the queue, and is closed by that.
Submit(j) == j \in open /\ state'[j] = "pending" /\ j \notin open'

\* The job goes to a worker, whose execution may end in a retry; the worker
\* marks it running at once or later.
Claim(j) == state[j] = "pending" /\ state'[j] \in {"pending", "running"}

Settle(j) ==
    \/ /\ state[j] = "running"
       /\ state'[j] \in {"pending", "completed", "failed"}
       /\ j \in open' => j \in open
    \/ /\ state[j] = "pending"
       /\ state'[j] = "failed"
       /\ j \in open' => j \in open

Remove(j) ==
    /\ state[j] # "absent"
    /\ state'[j] = "removed"
    /\ j \in open' => j \in open

Keep(j) == state'[j] = state[j] /\ (j \in open' => j \in open)

Next ==
    \A j \in Jobs :
       Create(j) \/ Submit(j) \/ Claim(j) \/ Settle(j) \/ Remove(j) \/ Keep(j)

Typed ==
    /\ state \in [Jobs -> States]
    /\ open \subseteq Jobs

Spec == Init /\ [][Next /\ Typed']_<<state, open>>
=============================================================================
