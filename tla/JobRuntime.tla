----------------------------- MODULE JobRuntime -----------------------------
(***************************************************************************)
(* The durable job runtime of apps/api/app/jobs: PostgreSQL rows           *)
(* (async_jobs, job_outbox) are the truth, Redis carries job ids as        *)
(* wake-ups, schedulers move due rows to Redis and recover abandoned work, *)
(* workers claim a job under a fenced lease and settle it.                 *)
(*                                                                         *)
(* One action is one committed transaction, or one point at which a        *)
(* process can be overtaken.  Two abstractions carry the whole model:      *)
(*                                                                         *)
(*  - Clocks are replaced by the comparisons the code makes with them.     *)
(*    due is available_at <= now, fresh is locked_at > now - stale, old is *)
(*    dispatched_at < now - redispatch, backoff is an available_at of the  *)
(*    outbox row pushed past that of its job.  Time may flip each of them  *)
(*    at any moment.                                                       *)
(*  - A PostgreSQL row lock on async_jobs is rowLock[j].  The dispatcher's *)
(*    SELECT ... FOR UPDATE joins outbox and job, so it takes both rows or *)
(*    skips the pair; every other writer of an outbox row holds its job's  *)
(*    row lock, and one lock per job stands for both.                      *)
(***************************************************************************)
EXTENDS Integers, FiniteSets

CONSTANTS
  Job,            \* idempotency keys: one durable row each
  Worker,         \* worker ids, host:pid, reused by a restarted process
  Scheduler,      \* scheduler processes
  None,           \* NULL: no owner, no lock holder, no job in hand
  AttemptLimits,  \* the max_attempts values producers and operators pass
  BatchSize,      \* dispatch_batch_size
  MaxWakes,       \* bound: copies of one id waiting in Redis
  MaxDefers,      \* bound: deferrals of one job
  MaxReplays      \* bound: operator replays of one job

ASSUME ProcessAssumption ==
  /\ None \notin Job \cup Worker \cup Scheduler
  /\ Worker \cap Scheduler = {}

ASSUME BoundAssumption ==
  /\ AttemptLimits \subseteq Nat \ {0}
  /\ BatchSize \in Nat \ {0}
  /\ MaxWakes \in Nat
  /\ MaxDefers \in Nat
  /\ MaxReplays \in Nat

VARIABLES
  (* async_jobs, one row per job *)
  status, attempts, limit, epoch,
  due,       \* available_at <= now
  owner,     \* locked_by
  fresh,     \* locked_at > now - stale_lock_seconds
  (* job_outbox, one row per job *)
  outbox,    \* its status
  backoff,   \* its available_at was pushed back by a failed publish
  old,       \* dispatched_at < now - redispatch_seconds
  (* locks and Redis *)
  rowLock,   \* who holds the job's row lock across a visible step
  wakes,     \* copies of each id in the Redis list
  (* workers: a place in process_one, and the JobFence of the execution *)
  pc, task, claim, valid,
  renewals,  \* lease renewals sent to the database and not yet applied
  (* schedulers: a place in run_cycle, the pair in hand, pairs dispatched *)
  stage, picked, count,
  (* what happened to each job *)
  defers, replays,
  alarms     \* system_errors rows

leaseVars  == <<owner, fresh>>
jobVars    == <<status, attempts, limit, epoch, due, leaseVars>>
outboxVars == <<outbox, backoff, old>>
workerVars == <<pc, task, claim, valid>>
schedVars  == <<stage, picked, count>>
tallyVars  == <<defers, replays, alarms>>

vars == <<jobVars, outboxVars, rowLock, wakes, workerVars, renewals, schedVars, tallyVars>>

-----------------------------------------------------------------------------
(* Types *)

\* "absent" is a row before it is inserted.  Nothing in the code writes the
\* seventh status of the schema, "cancelled".
Claimable == {"pending", "queued", "retry"}
Terminal  == {"succeeded", "dead_letter"}
Status    == {"absent", "running"} \cup Claimable \cup Terminal

\* claimed: the claim is committed; handler: inside the lease keeper; deferred,
\* permanent, error: the handler raised and its transaction is rolled back.
Raised == {"deferred", "permanent", "error"}
Active == {"claimed", "handler"} \cup Raised

Stage == {"sleep", "jobs", "wakeups", "dispatch", "locked", "published"}

\* A renewal carries the claim it was sent for, and whether the lease was fresh
\* by the clock reading the statement was sent with.
Renewal == [worker : Worker, job : Job, claim : Nat, seen : BOOLEAN]

TypeOK ==
  /\ status \in [Job -> Status]
  /\ attempts \in [Job -> Nat]
  /\ limit \in [Job -> Nat \ {0}]
  /\ epoch \in [Job -> Nat]
  /\ due \in [Job -> BOOLEAN]
  /\ owner \in [Job -> Worker \cup {None}]
  /\ fresh \in [Job -> BOOLEAN]
  /\ outbox \in [Job -> {"none", "pending", "dispatched"}]
  /\ backoff \in [Job -> BOOLEAN]
  /\ old \in [Job -> BOOLEAN]
  /\ rowLock \in [Job -> Worker \cup Scheduler \cup {None}]
  /\ wakes \in [Job -> Nat]
  /\ pc \in [Worker -> {"idle", "popped"} \cup Active]
  /\ task \in [Worker -> Job \cup {None}]
  /\ \A w \in Worker : pc[w] # "idle" => task[w] \in Job
  /\ claim \in [Worker -> Nat]
  /\ valid \in [Worker -> BOOLEAN]
  /\ renewals \subseteq Renewal
  /\ stage \in [Scheduler -> Stage]
  /\ picked \in [Scheduler -> Job \cup {None}]
  /\ \A s \in Scheduler : stage[s] \in {"locked", "published"} => picked[s] \in Job
  /\ count \in [Scheduler -> Nat]
  /\ defers \in [Job -> Nat]
  /\ replays \in [Job -> Nat]
  /\ alarms \in [Job -> Nat]

Init ==
  /\ status = [j \in Job |-> "absent"]
  /\ attempts = [j \in Job |-> 0]
  /\ limit = [j \in Job |-> 1]
  /\ epoch = [j \in Job |-> 0]
  /\ due = [j \in Job |-> FALSE]
  /\ owner = [j \in Job |-> None]
  /\ fresh = [j \in Job |-> FALSE]
  /\ outbox = [j \in Job |-> "none"]
  /\ backoff = [j \in Job |-> FALSE]
  /\ old = [j \in Job |-> FALSE]
  /\ rowLock = [j \in Job |-> None]
  /\ wakes = [j \in Job |-> 0]
  /\ pc = [w \in Worker |-> "idle"]
  /\ task = [w \in Worker |-> None]
  /\ claim = [w \in Worker |-> 0]
  /\ valid = [w \in Worker |-> FALSE]
  /\ renewals = {}
  /\ stage = [s \in Scheduler |-> "sleep"]
  /\ picked = [s \in Scheduler |-> None]
  /\ count = [s \in Scheduler |-> 0]
  /\ defers = [j \in Job |-> 0]
  /\ replays = [j \in Job |-> 0]
  /\ alarms = [j \in Job |-> 0]

-----------------------------------------------------------------------------
(* Parts of transactions *)

SetOutbox(j, state) ==
  /\ outbox' = [outbox EXCEPT ![j] = state]
  /\ backoff' = [backoff EXCEPT ![j] = FALSE]
  /\ old' = [old EXCEPT ![j] = FALSE]

ClearLease(j) ==
  /\ owner' = [owner EXCEPT ![j] = None]
  /\ fresh' = [fresh EXCEPT ![j] = FALSE]

\* Mutant of Requeue: the outbox row keeps the status of the last dispatch.
RequeueWithoutOutbox(j, now) ==
  /\ status' = [status EXCEPT ![j] = "retry"]
  /\ due' = [due EXCEPT ![j] = now]
  /\ ClearLease(j)
  /\ UNCHANGED outboxVars

\* Back to the outbox, due at once or after a delay.
Requeue(j, now) ==
  /\ status' = [status EXCEPT ![j] = "retry"]
  /\ due' = [due EXCEPT ![j] = now]
  /\ ClearLease(j)
  /\ SetOutbox(j, "pending")

Close(j, outcome) ==
  /\ status' = [status EXCEPT ![j] = outcome]
  /\ ClearLease(j)
  /\ UNCHANGED <<attempts, limit, epoch, due, outboxVars>>

\* Mutant of Exhausted: one attempt more than the limit.
ExhaustedPastLimit(j) == attempts[j] > limit[j]

Exhausted(j) == attempts[j] >= limit[j]

\* LIMIT BatchSize on the rows of a query.
Batches(S) ==
  {B \in SUBSET S : \/ B = S /\ Cardinality(S) <= BatchSize
                    \/ Cardinality(B) = BatchSize}

\* The end of a transaction of process p, committed or rolled back.
Unlock(p) == rowLock' = [j \in Job |-> IF rowLock[j] = p THEN None ELSE rowLock[j]]

\* process_one returns.
Leave(w) ==
  /\ pc' = [pc EXCEPT ![w] = "idle"]
  /\ task' = [task EXCEPT ![w] = None]
  /\ claim' = [claim EXCEPT ![w] = 0]
  /\ valid' = [valid EXCEPT ![w] = FALSE]

\* The scheduler leaves the pair it had in hand.
GoTo(s, next, n) ==
  /\ stage' = [stage EXCEPT ![s] = next]
  /\ picked' = [picked EXCEPT ![s] = None]
  /\ count' = [count EXCEPT ![s] = n]

-----------------------------------------------------------------------------
(* Producers and operators *)

\* The first enqueue under an idempotency key inserts both rows in the caller's
\* transaction; a later one finds the row and changes nothing.
Enqueue(j) ==
  /\ status[j] = "absent"
  /\ status' = [status EXCEPT ![j] = "pending"]
  /\ \E n \in AttemptLimits : limit' = [limit EXCEPT ![j] = n]
  /\ \E now \in BOOLEAN : due' = [due EXCEPT ![j] = now]
  /\ SetOutbox(j, "pending")
  /\ UNCHANGED <<attempts, epoch, leaseVars, rowLock, wakes, workerVars, renewals,
                 schedVars, tallyVars>>

ReplayDeadLetter(j) ==
  /\ status[j] = "dead_letter"
  /\ rowLock[j] = None
  /\ replays[j] < MaxReplays
  /\ Requeue(j, TRUE)
  /\ attempts' = [attempts EXCEPT ![j] = 0]
  /\ \E n \in AttemptLimits : limit' = [limit EXCEPT ![j] = n]
  /\ replays' = [replays EXCEPT ![j] = @ + 1]
  /\ UNCHANGED <<epoch, rowLock, wakes, workerVars, renewals, schedVars, defers, alarms>>

-----------------------------------------------------------------------------
(* The scheduler: run_cycle *)

BeginCycle(s) ==
  /\ stage[s] = "sleep"
  /\ GoTo(s, "jobs", 0)
  /\ UNCHANGED <<jobVars, outboxVars, rowLock, wakes, workerVars, renewals, tallyVars>>

\* Mutant of StaleJobs: rows are read without FOR UPDATE SKIP LOCKED.
StaleJobsUnlocked == {j \in Job : status[j] = "running" /\ ~fresh[j]}

StaleJobs == {j \in Job : status[j] = "running" /\ ~fresh[j] /\ rowLock[j] = None}

\* recover_stale_jobs: running rows whose lease expired, skipping locked rows.
RecoverStaleJobs(s) ==
  /\ stage[s] = "jobs"
  /\ \E B \in Batches(StaleJobs) :
       LET dead == {j \in B : Exhausted(j)}
           again == B \ dead
       IN
       /\ status' = [j \in Job |-> IF j \in dead THEN "dead_letter"
                                   ELSE IF j \in again THEN "retry" ELSE status[j]]
       /\ due' = [j \in Job |-> j \in again \/ due[j]]
       /\ owner' = [j \in Job |-> IF j \in B THEN None ELSE owner[j]]
       /\ outbox' = [j \in Job |-> IF j \in again THEN "pending" ELSE outbox[j]]
       /\ backoff' = [j \in Job |-> j \notin again /\ backoff[j]]
       /\ old' = [j \in Job |-> j \notin again /\ old[j]]
       /\ alarms' = [j \in Job |-> IF j \in dead THEN alarms[j] + 1 ELSE alarms[j]]
  /\ GoTo(s, "wakeups", 0)
  /\ UNCHANGED <<attempts, limit, epoch, fresh, rowLock, wakes, workerVars, renewals,
                 defers, replays>>

\* Mutant of StaleWakeups: a dispatched wake-up is trusted to arrive.
NoStaleWakeups == {}

StaleWakeups == {j \in Job : /\ status[j] = "queued"
                             /\ outbox[j] = "dispatched"
                             /\ old[j]
                             /\ rowLock[j] = None}

\* recover_stale_wakeups: queued rows whose notification may have been lost.
RecoverStaleWakeups(s) ==
  /\ stage[s] = "wakeups"
  /\ \E B \in Batches(StaleWakeups) :
       /\ outbox' = [j \in Job |-> IF j \in B THEN "pending" ELSE outbox[j]]
       /\ backoff' = [j \in Job |-> j \notin B /\ backoff[j]]
       /\ old' = [j \in Job |-> j \notin B /\ old[j]]
  /\ GoTo(s, "dispatch", 0)
  /\ UNCHANGED <<jobVars, rowLock, wakes, workerVars, renewals, tallyVars>>

\* Mutant of DueOutbox: a pair another dispatcher has in hand is taken too.
DueOutboxUnlocked == {j \in Job : outbox[j] = "pending" /\ ~backoff[j] /\ due[j]}

DueOutbox == {j \in Job : outbox[j] = "pending" /\ ~backoff[j] /\ due[j] /\ rowLock[j] = None}

\* A turn of dispatch_due_jobs locks a due pair before it publishes.
LockDue(s) ==
  /\ stage[s] = "dispatch"
  /\ count[s] < BatchSize
  /\ \E j \in DueOutbox :
       /\ status[j] \notin Terminal
       /\ wakes[j] < MaxWakes
       /\ rowLock' = [rowLock EXCEPT ![j] = s]
       /\ picked' = [picked EXCEPT ![s] = j]
  /\ stage' = [stage EXCEPT ![s] = "locked"]
  /\ UNCHANGED <<jobVars, outboxVars, wakes, workerVars, renewals, count, tallyVars>>

\* A settled job only has its outbox row closed, and does not count.
CloseOutbox(s) ==
  /\ stage[s] = "dispatch"
  /\ count[s] < BatchSize
  /\ \E j \in DueOutbox : status[j] \in Terminal /\ SetOutbox(j, "dispatched")
  /\ UNCHANGED <<jobVars, rowLock, wakes, workerVars, renewals, schedVars, tallyVars>>

\* The id reaches Redis while the dispatcher's transaction is still open.
Publish(s) ==
  /\ stage[s] = "locked"
  /\ wakes' = [wakes EXCEPT ![picked[s]] = @ + 1]
  /\ stage' = [stage EXCEPT ![s] = "published"]
  /\ UNCHANGED <<jobVars, outboxVars, rowLock, workerVars, renewals, picked, count, tallyVars>>

\* Redis answered with an error, whether or not it had stored the id.
PublishFails(s) ==
  /\ stage[s] = "locked"
  /\ \E stored \in {0, 1} : wakes' = [wakes EXCEPT ![picked[s]] = @ + stored]
  /\ backoff' = [backoff EXCEPT ![picked[s]] = TRUE]
  /\ Unlock(s)
  /\ GoTo(s, "sleep", 0)
  /\ UNCHANGED <<jobVars, outbox, old, workerVars, renewals, tallyVars>>

\* Mutant of Dispatched: the status of the outbox row is written to the job row.
DispatchedAsOutbox(j) == "dispatched"

\* The status a dispatched row gets: a running one keeps its own.
Dispatched(j) == IF status[j] \in {"pending", "retry"} THEN "queued" ELSE status[j]

CommitDispatch(s) ==
  /\ stage[s] = "published"
  /\ SetOutbox(picked[s], "dispatched")
  /\ status' = [status EXCEPT ![picked[s]] = Dispatched(picked[s])]
  /\ Unlock(s)
  /\ GoTo(s, "dispatch", count[s] + 1)
  /\ UNCHANGED <<attempts, limit, epoch, due, leaseVars, wakes, workerVars, renewals, tallyVars>>

EndCycle(s) ==
  /\ stage[s] = "dispatch"
  /\ count[s] = BatchSize \/ DueOutbox = {}
  /\ GoTo(s, "sleep", 0)
  /\ UNCHANGED <<jobVars, outboxVars, rowLock, wakes, workerVars, renewals, tallyVars>>

\* An exception or a crash: the open transaction rolls back, what was already
\* committed or pushed to Redis stays.
AbortCycle(s) ==
  /\ stage[s] # "sleep"
  /\ Unlock(s)
  /\ GoTo(s, "sleep", 0)
  /\ UNCHANGED <<jobVars, outboxVars, wakes, workerVars, renewals, tallyVars>>

-----------------------------------------------------------------------------
(* The worker: main and process_one *)

\* Mutants of OwnsJob: any execution of a running job, and the epoch alone.
OwnsAnyRunning(w, j) == status[j] = "running"
OwnsByEpoch(w, j) == epoch[j] = claim[w]

\* _owns_job: the claim of w is the one recorded in the row.
OwnsJob(w, j) == status[j] = "running" /\ owner[j] = w /\ epoch[j] = claim[w]

\* Mutant of HoldsLease: the fence of the process is trusted without its row.
HoldsFence(w) == valid[w] /\ epoch[task[w]] = claim[w]

\* assert_current_job_lease, evaluated under the row lock.
HoldsLease(w) == valid[w] /\ OwnsJob(w, task[w]) /\ fresh[task[w]]

\* BLPOP takes the id out of Redis before anything is done with it.
Pop(w, j) ==
  /\ pc[w] = "idle"
  /\ wakes[j] > 0
  /\ wakes' = [wakes EXCEPT ![j] = @ - 1]
  /\ pc' = [pc EXCEPT ![w] = "popped"]
  /\ task' = [task EXCEPT ![w] = j]
  /\ UNCHANGED <<jobVars, outboxVars, rowLock, claim, valid, renewals, schedVars, tallyVars>>

ClaimableNow(j) == status[j] \in Claimable /\ due[j] /\ rowLock[j] = None

\* Mutant of NextEpoch: the attempt number, which a replay resets, is the fence.
AttemptAsEpoch(j) == attempts[j] + 1

\* The number of a new claim: every admission advances the row's epoch.
NextEpoch(j) == epoch[j] + 1

\* claim_job: one conditional update admits the worker under a new epoch, also
\* when a restarted process reuses its worker id.
Claim(w) ==
  LET j == task[w] IN
  /\ pc[w] = "popped"
  /\ ClaimableNow(j)
  /\ status' = [status EXCEPT ![j] = "running"]
  /\ attempts' = [attempts EXCEPT ![j] = @ + 1]
  /\ epoch' = [epoch EXCEPT ![j] = NextEpoch(j)]
  /\ owner' = [owner EXCEPT ![j] = w]
  /\ fresh' = [fresh EXCEPT ![j] = TRUE]
  /\ pc' = [pc EXCEPT ![w] = "claimed"]
  /\ claim' = [claim EXCEPT ![w] = NextEpoch(j)]
  /\ valid' = [valid EXCEPT ![w] = TRUE]
  /\ UNCHANGED <<limit, due, outboxVars, rowLock, wakes, task, renewals, schedVars, tallyVars>>

\* SKIP LOCKED: the wake-up is spent on a row that is settled, not due or locked.
IgnoreWakeup(w) ==
  /\ pc[w] = "popped"
  /\ ~ClaimableNow(task[w])
  /\ Leave(w)
  /\ UNCHANGED <<jobVars, outboxVars, rowLock, wakes, renewals, schedVars, tallyVars>>

\* The assertion that opens process_one, and any later one of the handler.  The
\* row stays locked until the transaction ends.
AssertLease(w) ==
  /\ pc[w] \in {"claimed", "handler"}
  /\ rowLock[task[w]] = None
  /\ HoldsLease(w)
  /\ rowLock' = [rowLock EXCEPT ![task[w]] = w]
  /\ pc' = [pc EXCEPT ![w] = "handler"]
  /\ UNCHANGED <<jobVars, outboxVars, wakes, task, claim, valid, renewals, schedVars, tallyVars>>

\* The handler commits application effects and goes on without the row lock.
HandlerCommits(w) ==
  /\ pc[w] = "handler"
  /\ rowLock[task[w]] = w
  /\ Unlock(w)
  /\ UNCHANGED <<jobVars, outboxVars, wakes, workerVars, renewals, schedVars, tallyVars>>

\* JobLeaseLostError, from any assertion: roll back and leave the row alone.
LeaseLost(w) ==
  /\ pc[w] \in {"claimed", "handler"}
  /\ rowLock[task[w]] \in {None, w}
  /\ ~HoldsLease(w)
  /\ Unlock(w)
  /\ Leave(w)
  /\ UNCHANGED <<jobVars, outboxVars, wakes, renewals, schedVars, tallyVars>>

\* The handler raised: its transaction is rolled back and the keeper stopped
\* before the row is locked again to settle it.
Raise(w, kind) ==
  /\ pc[w] = "handler"
  /\ kind = "deferred" => defers[task[w]] < MaxDefers
  /\ Unlock(w)
  /\ pc' = [pc EXCEPT ![w] = kind]
  /\ UNCHANGED <<jobVars, outboxVars, wakes, task, claim, valid, renewals, schedVars, tallyVars>>

\* The last assertion and complete_job share one transaction.
Complete(w) ==
  /\ pc[w] = "handler"
  /\ rowLock[task[w]] \in {None, w}
  /\ HoldsLease(w)
  /\ Close(task[w], "succeeded")
  /\ Unlock(w)
  /\ Leave(w)
  /\ UNCHANGED <<wakes, renewals, schedVars, tallyVars>>

\* fail_job on the last attempt or a permanent error: one system_errors row is
\* added in the same transaction.
Bury(w) ==
  /\ pc[w] = "permanent" \/ (pc[w] = "error" /\ Exhausted(task[w]))
  /\ rowLock[task[w]] = None
  /\ OwnsJob(w, task[w])
  /\ Close(task[w], "dead_letter")
  /\ alarms' = [alarms EXCEPT ![task[w]] = @ + 1]
  /\ Leave(w)
  /\ UNCHANGED <<rowLock, wakes, renewals, schedVars, defers, replays>>

\* fail_job with budget left.
Retry(w) ==
  /\ pc[w] = "error"
  /\ ~Exhausted(task[w])
  /\ rowLock[task[w]] = None
  /\ OwnsJob(w, task[w])
  /\ Requeue(task[w], FALSE)
  /\ Leave(w)
  /\ UNCHANGED <<attempts, limit, epoch, rowLock, wakes, renewals, schedVars, tallyVars>>

\* defer_job: the attempt is handed back.
Defer(w) ==
  /\ pc[w] = "deferred"
  /\ rowLock[task[w]] = None
  /\ OwnsJob(w, task[w])
  /\ Requeue(task[w], FALSE)
  /\ attempts' = [attempts EXCEPT ![task[w]] = IF @ > 0 THEN @ - 1 ELSE 0]
  /\ defers' = [defers EXCEPT ![task[w]] = @ + 1]
  /\ Leave(w)
  /\ UNCHANGED <<limit, epoch, rowLock, wakes, renewals, schedVars, replays, alarms>>

\* "lease_lost" from fail_job or defer_job.
SettleRefused(w) ==
  /\ pc[w] \in Raised
  /\ rowLock[task[w]] = None
  /\ ~OwnsJob(w, task[w])
  /\ Leave(w)
  /\ UNCHANGED <<jobVars, outboxVars, rowLock, wakes, renewals, schedVars, tallyVars>>

\* The process dies, or an error escapes process_one: the claim is abandoned.
CrashWorker(w) ==
  /\ pc[w] # "idle"
  /\ Unlock(w)
  /\ Leave(w)
  /\ UNCHANGED <<jobVars, outboxVars, wakes, renewals, schedVars, tallyVars>>

-----------------------------------------------------------------------------
(* The lease keeper: a thread beside the handler, with its own session *)

\* renew_job_lease takes its clock reading, then the UPDATE may wait for the row.
SendRenewal(w) ==
  /\ pc[w] = "handler"
  /\ valid[w]
  /\ \A r \in renewals : ~(r.worker = w /\ r.job = task[w] /\ r.claim = claim[w])
  /\ renewals' = renewals \cup {[worker |-> w, job |-> task[w], claim |-> claim[w],
                                 seen |-> fresh[task[w]]]}
  /\ UNCHANGED <<jobVars, outboxVars, rowLock, wakes, workerVars, schedVars, tallyVars>>

Renews(r) ==
  /\ status[r.job] = "running"
  /\ owner[r.job] = r.worker
  /\ epoch[r.job] = r.claim
  /\ r.seen

\* The UPDATE finds its claim in the row, possibly after its worker is gone.  It
\* writes the clock reading it was sent with, which may be stale by now.
ApplyRenewal(r) ==
  /\ Renews(r)
  /\ rowLock[r.job] = None
  /\ renewals' = renewals \ {r}
  /\ \E now \in {TRUE, fresh[r.job]} : fresh' = [fresh EXCEPT ![r.job] = now]
  /\ UNCHANGED <<status, attempts, limit, epoch, due, owner, outboxVars, rowLock, wakes,
                 workerVars, schedVars, tallyVars>>

\* It finds another claim, or an expired one: the fence of its own is invalid.
RefuseRenewal(r) ==
  /\ ~Renews(r)
  /\ rowLock[r.job] = None
  /\ renewals' = renewals \ {r}
  /\ valid' = [w \in Worker |-> /\ valid[w]
                                /\ ~(w = r.worker /\ task[w] = r.job /\ claim[w] = r.claim)]
  /\ UNCHANGED <<jobVars, outboxVars, rowLock, wakes, pc, task, claim, schedVars, tallyVars>>

\* An exception in the keeper invalidates the fence and ends the thread.
KeeperFails(w) ==
  /\ pc[w] = "handler"
  /\ valid[w]
  /\ valid' = [valid EXCEPT ![w] = FALSE]
  /\ UNCHANGED <<jobVars, outboxVars, rowLock, wakes, pc, task, claim, renewals, schedVars,
                 tallyVars>>

-----------------------------------------------------------------------------
(* Redis and time *)

\* Redis loses a stored id, or a popped reply never reaches its worker.
LoseWakeup(j) ==
  /\ wakes[j] > 0
  /\ wakes' = [wakes EXCEPT ![j] = @ - 1]
  /\ UNCHANGED <<jobVars, outboxVars, rowLock, workerVars, renewals, schedVars, tallyVars>>

BecomesDue(j) ==
  /\ status[j] \in Claimable
  /\ ~due[j]
  /\ due' = [due EXCEPT ![j] = TRUE]
  /\ UNCHANGED <<status, attempts, limit, epoch, leaseVars, outboxVars, rowLock, wakes,
                 workerVars, renewals, schedVars, tallyVars>>

BackoffEnds(j) ==
  /\ backoff[j]
  /\ backoff' = [backoff EXCEPT ![j] = FALSE]
  /\ UNCHANGED <<jobVars, outbox, old, rowLock, wakes, workerVars, renewals, schedVars, tallyVars>>

LeaseExpires(j) ==
  /\ fresh[j]
  /\ fresh' = [fresh EXCEPT ![j] = FALSE]
  /\ UNCHANGED <<status, attempts, limit, epoch, due, owner, outboxVars, rowLock, wakes,
                 workerVars, renewals, schedVars, tallyVars>>

WakeupExpires(j) ==
  /\ outbox[j] = "dispatched"
  /\ ~old[j]
  /\ old' = [old EXCEPT ![j] = TRUE]
  /\ UNCHANGED <<jobVars, outbox, backoff, rowLock, wakes, workerVars, renewals, schedVars,
                 tallyVars>>

-----------------------------------------------------------------------------

ProducerStep == \E j \in Job : Enqueue(j) \/ ReplayDeadLetter(j)

SchedulerStep(s) ==
  \/ BeginCycle(s) \/ RecoverStaleJobs(s) \/ RecoverStaleWakeups(s)
  \/ LockDue(s) \/ CloseOutbox(s) \/ Publish(s) \/ PublishFails(s) \/ CommitDispatch(s)
  \/ EndCycle(s) \/ AbortCycle(s)

\* A return of the handler to process_one.
HandlerReturns(w) ==
  \/ Complete(w) \/ LeaseLost(w) \/ \E kind \in Raised : Raise(w, kind)

Settle(w) == Bury(w) \/ Retry(w) \/ Defer(w) \/ SettleRefused(w)

WorkerStep(w) ==
  \/ \E j \in Job : Pop(w, j)
  \/ Claim(w) \/ IgnoreWakeup(w) \/ AssertLease(w) \/ HandlerCommits(w)
  \/ HandlerReturns(w) \/ Settle(w) \/ CrashWorker(w)
  \/ SendRenewal(w) \/ KeeperFails(w)

RenewalStep == \E r \in renewals : ApplyRenewal(r) \/ RefuseRenewal(r)

Environment == \E j \in Job :
  LoseWakeup(j) \/ BecomesDue(j) \/ BackoffEnds(j) \/ LeaseExpires(j) \/ WakeupExpires(j)

Next ==
  \/ ProducerStep
  \/ \E s \in Scheduler : SchedulerStep(s)
  \/ \E w \in Worker : WorkerStep(w)
  \/ RenewalStep
  \/ Environment

Spec == Init /\ [][Next]_vars

-----------------------------------------------------------------------------
(* Safety *)

\* An execution of w still in process_one for job j, alive or overtaken.
Executes(w, j) == pc[w] \in Active /\ task[w] = j

\* A transaction that committed an effect under assert_job_lease did so as the
\* current owner: whoever holds the row lock from inside a handler holds the
\* claim recorded in the row, whatever the clocks, the scheduler and an earlier
\* incarnation of the same worker id have done since the assertion.
LockedRowIsOwned ==
  \A j \in Job, w \in Worker :
    rowLock[j] = w => pc[w] = "handler" /\ task[w] = j /\ OwnsJob(w, j)

\* A dispatcher overwrites the status it read only under the row lock it took
\* with it, so the row it publishes is still open, due and undispatched.
DispatchedRowIsOpen ==
  \A s \in Scheduler :
    stage[s] \in {"locked", "published"} =>
      /\ rowLock[picked[s]] = s
      /\ status[picked[s]] \in Claimable \cup {"running"}
      /\ due[picked[s]]
      /\ outbox[picked[s]] = "pending"

\* Executions of one job never share a claim: two of them differ in their epoch,
\* none is ahead of the row, and while the job runs only the execution with the
\* row's epoch is its recorded owner.
ClaimsAreUnique ==
  \A j \in Job, w \in Worker :
    Executes(w, j) =>
      /\ claim[w] \in 1..epoch[j]
      /\ status[j] = "running" /\ claim[w] = epoch[j] => owner[j] = w
      /\ \A v \in Worker \ {w} : Executes(v, j) => claim[v] # claim[w]

\* No accepted job is stranded by a lost wake-up, a crash or a race: every open
\* row satisfies the WHERE clause of a scheduler query, or will once time passes.
\* A waiting row has a pending outbox row, a queued row is due and has an outbox
\* row that dispatches it or expires, and a running row has a lease to expire.
NoJobStranded ==
  \A j \in Job :
    /\ status[j] \in {"pending", "retry"} => outbox[j] = "pending"
    /\ status[j] = "queued" => due[j] /\ outbox[j] # "none"
    /\ status[j] = "running" <=> owner[j] # None

\* claim_job never looks at the budget: it relies on every transaction that
\* makes a row claimable again to leave one attempt to spend.
BudgetIsKept ==
  \A j \in Job :
    /\ attempts[j] <= limit[j]
    /\ status[j] \in Claimable => attempts[j] < limit[j]

\* Whichever of a worker and a scheduler buries a job, its terminal failure is
\* recorded in system_errors exactly once per burial.
EveryBurialIsReported ==
  \A j \in Job : alarms[j] = replays[j] + (IF status[j] = "dead_letter" THEN 1 ELSE 0)

\* An accepted result is final, and a dead letter is left only by an operator's
\* replay, with a fresh budget: no late dispatcher, worker or recovery reopens it.
FinalOutcomes ==
  \A j \in Job :
    /\ status[j] = "succeeded" => status'[j] = "succeeded" /\ epoch'[j] = epoch[j]
    /\ status[j] = "dead_letter" /\ status'[j] # "dead_letter" =>
         /\ status'[j] = "retry"
         /\ attempts'[j] = 0
         /\ replays'[j] = replays[j] + 1

OutcomesAreFinal == [][FinalOutcomes]_vars

\* A running job changes hands only by the execution that carries its latest
\* claim, or by a scheduler once the lease expired; a result is accepted only
\* from an execution with an unexpired lease that its keeper never found lost.
EndByOwner ==
  \A j \in Job :
    status[j] = "running" /\ status'[j] # "running" =>
      \/ \E w \in Worker :
           /\ Executes(w, j) /\ claim[w] = epoch[j] /\ pc'[w] = "idle"
           /\ status'[j] = "succeeded" => valid[w] /\ fresh[j]
      \/ ~fresh[j] /\ status'[j] # "succeeded"

RunsEndByTheirOwner == [][EndByOwner]_vars

-----------------------------------------------------------------------------
(* Liveness.  Every process keeps being scheduled and time passes.  A crash,   *)
(* a lost wake-up or an aborted cycle may recur for ever, so the steps they    *)
(* compete with are strongly fair, except the return of the handler: a crash   *)
(* in it spends an attempt.  Strongly fair are also the steps that wait for a  *)
(* row lock, which PostgreSQL grants in the order of the requests.  A worker   *)
(* may answer a published id before the dispatcher commits, and then skips the *)
(* locked row: it does not win this race every time, says the last conjunct of *)
(* FairScheduler.                                                              *)

FairWorker(w) ==
  /\ SF_vars(AssertLease(w) \/ LeaseLost(w))
  /\ WF_vars(HandlerReturns(w))
  /\ SF_vars(Settle(w))
  /\ WF_vars(IgnoreWakeup(w))

FairScheduler(s) ==
  /\ WF_vars(BeginCycle(s))
  /\ SF_vars(RecoverStaleJobs(s))
  /\ SF_vars(RecoverStaleWakeups(s))
  /\ SF_vars(LockDue(s) \/ CloseOutbox(s) \/ EndCycle(s))
  /\ SF_vars(Publish(s))
  /\ WF_vars(CommitDispatch(s))
  /\ SF_vars(CommitDispatch(s) /\ wakes[picked[s]] > 0)

FairTime(j) ==
  /\ WF_vars(BecomesDue(j))
  /\ WF_vars(BackoffEnds(j))
  /\ WF_vars(LeaseExpires(j))
  /\ WF_vars(WakeupExpires(j))

FairSpec ==
  /\ Spec
  /\ \A w \in Worker : FairWorker(w)
  /\ \A s \in Scheduler : FairScheduler(s)
  /\ \A j \in Job : FairTime(j)
  /\ \A j \in Job : WF_vars(\E w \in Worker : Pop(w, j))
  /\ \A j \in Job : SF_vars(ClaimableNow(j) /\ \E w \in Worker : Pop(w, j))
  /\ SF_vars(\E w \in Worker : Claim(w))

\* Every accepted job reaches an outcome, through any number of crashes, lost
\* wake-ups and aborted scheduler cycles.
EveryJobSettles ==
  \A j \in Job : status[j] # "absent" ~> status[j] \in Terminal

=============================================================================
