-------------------------- MODULE JobRuntimeProofs --------------------------
(***************************************************************************)
(* What holds of JobRuntime for any set of jobs, workers and schedulers,   *)
(* any attempt limits, batch size and bounds: the invariant IInv is        *)
(* inductive relative to TypeOK, its conjuncts are the safety invariants   *)
(* of JobRuntime and what they rest on.  The proof of each conjunct goes   *)
(* through the actions in the order of JobRuntime.  With IInv, JobRuntime  *)
(* implements JobLedger, step by step.                                     *)
(***************************************************************************)
EXTENDS JobRuntimeRefinement, TLAPS

USE ProcessAssumption, BoundAssumption
USE DEF jobVars, leaseVars, outboxVars, workerVars, schedVars, tallyVars

\* A row that is not inserted yet has no outbox row, no owner and no attempts.
AbsentIsNew ==
  \A j \in Job : status[j] = "absent" => outbox[j] = "none" /\ owner[j] = None /\ attempts[j] = 0

IInv ==
  /\ LockedRowIsOwned
  /\ AbsentIsNew
  /\ DispatchedRowIsOpen
  /\ ClaimsAreUnique
  /\ NoJobStranded
  /\ BudgetIsKept
  /\ EveryBurialIsReported

-----------------------------------------------------------------------------

\* Every step keeps every variable in its type.
LEMMA TypeStep == ASSUME TypeOK, [Next]_vars PROVE TypeOK'
<1>1. CASE ProducerStep
  <2>1. ASSUME NEW j \in Job, Enqueue(j) PROVE TypeOK'
    BY <2>1 DEF Enqueue, SetOutbox, TypeOK, Claimable, Terminal, Status
  <2>2. ASSUME NEW j \in Job, ReplayDeadLetter(j) PROVE TypeOK'
    BY <2>2
      DEF ReplayDeadLetter, Requeue, ClearLease, SetOutbox, TypeOK, Claimable, Terminal,
       Status
  <2>. QED
    BY <1>1, <2>1, <2>2 DEF ProducerStep
<1>2. ASSUME NEW s \in Scheduler, SchedulerStep(s) PROVE TypeOK'
  <2>1. CASE BeginCycle(s)
    BY <2>1 DEF BeginCycle, GoTo, TypeOK, Claimable, Terminal, Status, Active, Raised, Stage
  <2>2. CASE RecoverStaleJobs(s)
    BY <2>2
      DEF RecoverStaleJobs, Batches, StaleJobs, GoTo, TypeOK, Claimable, Terminal, Status,
       Active, Raised, Stage
  <2>3. CASE RecoverStaleWakeups(s)
    BY <2>3
      DEF RecoverStaleWakeups, Batches, StaleWakeups, GoTo, TypeOK, Claimable, Terminal,
       Status, Active, Raised, Stage
  <2>4. CASE LockDue(s)
    BY <2>4 DEF LockDue, DueOutbox, TypeOK, Claimable, Terminal, Status, Active, Raised, Stage
  <2>5. CASE CloseOutbox(s)
    BY <2>5 DEF CloseOutbox, DueOutbox, SetOutbox, TypeOK
  <2>6. CASE Publish(s)
    BY <2>6 DEF Publish, TypeOK, Claimable, Terminal, Status, Active, Raised, Stage
  <2>7. CASE PublishFails(s)
    BY <2>7
      DEF PublishFails, Unlock, GoTo, TypeOK, Claimable, Terminal, Status, Active, Raised,
       Stage
  <2>8. CASE CommitDispatch(s)
    BY <2>8
      DEF CommitDispatch, SetOutbox, Dispatched, Unlock, GoTo, TypeOK, Claimable, Terminal,
       Status, Active, Raised, Stage
  <2>9. CASE EndCycle(s)
    BY <2>9 DEF EndCycle, GoTo, TypeOK, Claimable, Terminal, Status, Active, Raised, Stage
  <2>10. CASE AbortCycle(s)
    BY <2>10
      DEF AbortCycle, Unlock, GoTo, TypeOK, Claimable, Terminal, Status, Active, Raised,
       Stage
  <2>. QED
    BY <1>2, <2>1, <2>2, <2>3, <2>4, <2>5, <2>6, <2>7, <2>8, <2>9, <2>10 DEF SchedulerStep
<1>3. ASSUME NEW w \in Worker, WorkerStep(w) PROVE TypeOK'
  <2>1. ASSUME NEW j \in Job, Pop(w, j) PROVE TypeOK'
    BY <2>1 DEF Pop, TypeOK
  <2>2. ASSUME NEW kind \in Raised, Raise(w, kind) PROVE TypeOK'
    BY <2>2 DEF Raise, Unlock, TypeOK, Claimable, Active, Raised
  <2>3. CASE Claim(w)
    BY <2>3
      DEF Claim, ClaimableNow, NextEpoch, TypeOK, Claimable, Terminal, Status, Active,
       Raised
  <2>4. CASE IgnoreWakeup(w)
    BY <2>4 DEF IgnoreWakeup, Leave, TypeOK
  <2>5. CASE AssertLease(w)
    BY <2>5 DEF AssertLease, HoldsLease, TypeOK, Claimable, Active, Raised
  <2>6. CASE HandlerCommits(w)
    BY <2>6 DEF HandlerCommits, Unlock, TypeOK
  <2>7. CASE LeaseLost(w)
    BY <2>7 DEF LeaseLost, Unlock, Leave, TypeOK
  <2>8. CASE Complete(w)
    BY <2>8
      DEF Complete, HoldsLease, Close, ClearLease, Unlock, Leave, TypeOK, Claimable,
       Terminal, Status
  <2>9. CASE Bury(w)
    BY <2>9 DEF Bury, Close, ClearLease, Leave, TypeOK, Claimable, Terminal, Status
  <2>10. CASE Retry(w)
    BY <2>10
      DEF Retry, Requeue, ClearLease, SetOutbox, Leave, TypeOK, Claimable, Terminal, Status
  <2>11. CASE Defer(w)
    BY <2>11
      DEF Defer, Requeue, ClearLease, SetOutbox, Leave, TypeOK, Claimable, Terminal, Status
  <2>12. CASE SettleRefused(w)
    BY <2>12 DEF SettleRefused, Leave, TypeOK
  <2>13. CASE CrashWorker(w)
    BY <2>13 DEF CrashWorker, Unlock, Leave, TypeOK
  <2>14. CASE SendRenewal(w)
    BY <2>14 DEF SendRenewal, Renewal, TypeOK
  <2>15. CASE KeeperFails(w)
    BY <2>15 DEF KeeperFails, TypeOK
  <2>. QED
    BY <1>3, <2>1, <2>2, <2>3, <2>4, <2>5, <2>6, <2>7, <2>8, <2>9, <2>10, <2>11, <2>12,
       <2>13, <2>14, <2>15 DEF WorkerStep, HandlerReturns, Settle
<1>4. CASE RenewalStep
  <2>1. ASSUME NEW r \in renewals, ApplyRenewal(r) PROVE TypeOK'
    <3>1. r.job \in Job
      BY DEF TypeOK, Renewal
    <3>2. PICK now \in {TRUE, fresh[r.job]} : fresh' = [fresh EXCEPT ![r.job] = now]
      BY <2>1 DEF ApplyRenewal
    <3>3. fresh' \in [Job -> BOOLEAN]
      BY <3>1, <3>2 DEF TypeOK
    <3>. QED
      BY <2>1, <3>3 DEF ApplyRenewal, TypeOK, Status, Claimable, Terminal, Active, Raised
  <2>2. ASSUME NEW r \in renewals, RefuseRenewal(r) PROVE TypeOK'
    BY <2>2 DEF RefuseRenewal, Renews, Renewal, TypeOK
  <2>. QED
    BY <1>4, <2>1, <2>2 DEF RenewalStep
<1>5. CASE Environment
  <2>1. ASSUME NEW j \in Job, LoseWakeup(j) PROVE TypeOK'
    BY <2>1 DEF LoseWakeup, TypeOK
  <2>2. ASSUME NEW j \in Job, BecomesDue(j) PROVE TypeOK'
    BY <2>2 DEF BecomesDue, TypeOK
  <2>3. ASSUME NEW j \in Job, BackoffEnds(j) PROVE TypeOK'
    BY <2>3 DEF BackoffEnds, TypeOK
  <2>4. ASSUME NEW j \in Job, LeaseExpires(j) PROVE TypeOK'
    BY <2>4 DEF LeaseExpires, TypeOK
  <2>5. ASSUME NEW j \in Job, WakeupExpires(j) PROVE TypeOK'
    BY <2>5 DEF WakeupExpires, TypeOK
  <2>. QED
    BY <1>5, <2>1, <2>2, <2>3, <2>4, <2>5 DEF Environment
<1>6. CASE UNCHANGED vars
  BY <1>6 DEF vars, TypeOK
<1>. QED
  BY <1>1, <1>2, <1>3, <1>4, <1>5, <1>6 DEF Next

-----------------------------------------------------------------------------

\* Only AssertLease gives a worker a row lock, under HoldsLease; every writer of a
\* row respects the lock.
LEMMA LockedStep == ASSUME TypeOK, LockedRowIsOwned, [Next]_vars PROVE LockedRowIsOwned'
<1>1. CASE ProducerStep
  <2>1. ASSUME NEW j \in Job, Enqueue(j) PROVE LockedRowIsOwned'
    BY <2>1 DEF Enqueue, SetOutbox, TypeOK, LockedRowIsOwned, OwnsJob
  <2>2. ASSUME NEW j \in Job, ReplayDeadLetter(j) PROVE LockedRowIsOwned'
    BY <2>2
      DEF ReplayDeadLetter, Requeue, ClearLease, SetOutbox, TypeOK, LockedRowIsOwned,
       OwnsJob
  <2>. QED
    BY <1>1, <2>1, <2>2 DEF ProducerStep
<1>2. ASSUME NEW s \in Scheduler, SchedulerStep(s) PROVE LockedRowIsOwned'
  <2>1. CASE RecoverStaleJobs(s)
    BY <2>1 DEF RecoverStaleJobs, Batches, StaleJobs, GoTo, TypeOK, LockedRowIsOwned, OwnsJob
  <2>2. CASE LockDue(s)
    BY <2>2 DEF LockDue, DueOutbox, TypeOK, LockedRowIsOwned, OwnsJob
  <2>3. CASE PublishFails(s)
    BY <2>3 DEF PublishFails, Unlock, GoTo, TypeOK, LockedRowIsOwned, OwnsJob
  <2>4. CASE CommitDispatch(s)
    BY <2>4
      DEF CommitDispatch, SetOutbox, Dispatched, Unlock, GoTo, TypeOK, LockedRowIsOwned,
       OwnsJob
  <2>5. CASE AbortCycle(s)
    BY <2>5 DEF AbortCycle, Unlock, GoTo, TypeOK, LockedRowIsOwned, OwnsJob
  <2>6. CASE BeginCycle(s) \/ RecoverStaleWakeups(s) \/ CloseOutbox(s) \/ Publish(s)
             \/ EndCycle(s)
    BY <2>6
      DEF BeginCycle, RecoverStaleWakeups, CloseOutbox, Publish, EndCycle, TypeOK,
       LockedRowIsOwned, OwnsJob
  <2>. QED
    BY <1>2, <2>1, <2>2, <2>3, <2>4, <2>5, <2>6 DEF SchedulerStep
<1>3. ASSUME NEW w \in Worker, WorkerStep(w) PROVE LockedRowIsOwned'
  <2>1. ASSUME NEW j \in Job, Pop(w, j) PROVE LockedRowIsOwned'
    BY <2>1 DEF Pop, TypeOK, LockedRowIsOwned, OwnsJob
  <2>2. ASSUME NEW kind \in Raised, Raise(w, kind) PROVE LockedRowIsOwned'
    BY <2>2 DEF Raise, Unlock, TypeOK, LockedRowIsOwned, OwnsJob
  <2>3. CASE Claim(w)
    BY <2>3 DEF Claim, ClaimableNow, NextEpoch, TypeOK, LockedRowIsOwned, OwnsJob
  <2>4. CASE IgnoreWakeup(w)
    BY <2>4 DEF IgnoreWakeup, Leave, TypeOK, LockedRowIsOwned, OwnsJob
  <2>5. CASE AssertLease(w)
    BY <2>5 DEF AssertLease, HoldsLease, TypeOK, LockedRowIsOwned, OwnsJob
  <2>6. CASE HandlerCommits(w)
    BY <2>6 DEF HandlerCommits, Unlock, TypeOK, LockedRowIsOwned, OwnsJob
  <2>7. CASE LeaseLost(w)
    BY <2>7 DEF LeaseLost, Unlock, Leave, TypeOK, LockedRowIsOwned, OwnsJob
  <2>8. CASE Complete(w)
    BY <2>8
      DEF Complete, HoldsLease, Close, ClearLease, Unlock, Leave, TypeOK, LockedRowIsOwned,
       OwnsJob
  <2>9. CASE Bury(w)
    BY <2>9 DEF Bury, Close, ClearLease, Leave, TypeOK, LockedRowIsOwned, OwnsJob
  <2>10. CASE Retry(w)
    BY <2>10 DEF Retry, Requeue, ClearLease, SetOutbox, Leave, TypeOK, LockedRowIsOwned, OwnsJob
  <2>11. CASE Defer(w)
    BY <2>11 DEF Defer, Requeue, ClearLease, SetOutbox, Leave, TypeOK, LockedRowIsOwned, OwnsJob
  <2>12. CASE SettleRefused(w)
    BY <2>12 DEF SettleRefused, Leave, TypeOK, LockedRowIsOwned, OwnsJob
  <2>13. CASE CrashWorker(w)
    BY <2>13 DEF CrashWorker, Unlock, Leave, TypeOK, LockedRowIsOwned, OwnsJob
  <2>14. CASE SendRenewal(w) \/ KeeperFails(w)
    BY <2>14 DEF SendRenewal, KeeperFails, TypeOK, LockedRowIsOwned, OwnsJob
  <2>. QED
    BY <1>3, <2>1, <2>2, <2>3, <2>4, <2>5, <2>6, <2>7, <2>8, <2>9, <2>10, <2>11, <2>12,
       <2>13, <2>14 DEF WorkerStep, HandlerReturns, Settle
<1>4. CASE RenewalStep
  <2>1. ASSUME NEW r \in renewals, ApplyRenewal(r) \/ RefuseRenewal(r) PROVE LockedRowIsOwned'
    BY <2>1 DEF ApplyRenewal, RefuseRenewal, TypeOK, LockedRowIsOwned, OwnsJob
  <2>. QED
    BY <1>4, <2>1 DEF RenewalStep
<1>5. CASE Environment
  <2>1. ASSUME NEW j \in Job,
              LoseWakeup(j) \/ BecomesDue(j) \/ BackoffEnds(j) \/ LeaseExpires(j)
              \/ WakeupExpires(j)
       PROVE  LockedRowIsOwned'
    BY <2>1
      DEF LoseWakeup, BecomesDue, BackoffEnds, LeaseExpires, WakeupExpires, TypeOK,
       LockedRowIsOwned, OwnsJob
  <2>. QED
    BY <1>5, <2>1 DEF Environment
<1>6. CASE UNCHANGED vars
  BY <1>6 DEF vars, TypeOK, LockedRowIsOwned, OwnsJob
<1>. QED
  BY <1>1, <1>2, <1>3, <1>4, <1>5, <1>6 DEF Next

-----------------------------------------------------------------------------

\* A row that is not inserted yet has never been touched.
LEMMA AbsentStep ==
  ASSUME TypeOK, DispatchedRowIsOpen, AbsentIsNew, [Next]_vars
  PROVE AbsentIsNew'
<1>1. CASE ProducerStep
  <2>1. ASSUME NEW j \in Job, Enqueue(j) PROVE AbsentIsNew'
    BY <2>1 DEF Enqueue, SetOutbox, TypeOK, AbsentIsNew, DispatchedRowIsOpen, OwnsJob
  <2>2. ASSUME NEW j \in Job, ReplayDeadLetter(j) PROVE AbsentIsNew'
    BY <2>2
      DEF ReplayDeadLetter, Requeue, ClearLease, SetOutbox, TypeOK, AbsentIsNew,
       DispatchedRowIsOpen, OwnsJob
  <2>. QED
    BY <1>1, <2>1, <2>2 DEF ProducerStep
<1>2. ASSUME NEW s \in Scheduler, SchedulerStep(s) PROVE AbsentIsNew'
  <2>1. CASE RecoverStaleJobs(s)
    BY <2>1
      DEF RecoverStaleJobs, Batches, StaleJobs, GoTo, TypeOK, AbsentIsNew,
       DispatchedRowIsOpen, OwnsJob
  <2>2. CASE RecoverStaleWakeups(s)
    BY <2>2
      DEF RecoverStaleWakeups, Batches, StaleWakeups, GoTo, TypeOK, AbsentIsNew,
       DispatchedRowIsOpen, OwnsJob
  <2>3. CASE CloseOutbox(s)
    BY <2>3
      DEF CloseOutbox, DueOutbox, SetOutbox, TypeOK, AbsentIsNew, DispatchedRowIsOpen,
       OwnsJob
  <2>4. CASE CommitDispatch(s)
    BY <2>4
      DEF CommitDispatch, SetOutbox, Dispatched, Unlock, GoTo, TypeOK, AbsentIsNew,
       DispatchedRowIsOpen, OwnsJob
  <2>5. CASE BeginCycle(s) \/ LockDue(s) \/ Publish(s) \/ PublishFails(s) \/ EndCycle(s)
             \/ AbortCycle(s)
    BY <2>5
      DEF BeginCycle, LockDue, Publish, PublishFails, EndCycle, AbortCycle, TypeOK,
       AbsentIsNew, DispatchedRowIsOpen, OwnsJob
  <2>. QED
    BY <1>2, <2>1, <2>2, <2>3, <2>4, <2>5 DEF SchedulerStep
<1>3. ASSUME NEW w \in Worker, WorkerStep(w) PROVE AbsentIsNew'
  <2>1. ASSUME NEW j \in Job, Pop(w, j) PROVE AbsentIsNew'
    BY <2>1 DEF Pop, TypeOK, AbsentIsNew, DispatchedRowIsOpen, OwnsJob
  <2>2. ASSUME NEW kind \in Raised, Raise(w, kind) PROVE AbsentIsNew'
    BY <2>2 DEF Raise, Unlock, TypeOK, AbsentIsNew, DispatchedRowIsOpen, OwnsJob
  <2>3. CASE Claim(w)
    BY <2>3
      DEF Claim, ClaimableNow, NextEpoch, TypeOK, AbsentIsNew, DispatchedRowIsOpen, OwnsJob
  <2>4. CASE Complete(w)
    BY <2>4
      DEF Complete, HoldsLease, Close, ClearLease, Unlock, Leave, TypeOK, AbsentIsNew,
       DispatchedRowIsOpen, OwnsJob
  <2>5. CASE Bury(w)
    BY <2>5
      DEF Bury, Close, ClearLease, Leave, TypeOK, AbsentIsNew, DispatchedRowIsOpen, OwnsJob
  <2>6. CASE Retry(w)
    BY <2>6
      DEF Retry, Requeue, ClearLease, SetOutbox, Leave, TypeOK, AbsentIsNew,
       DispatchedRowIsOpen, OwnsJob
  <2>7. CASE Defer(w)
    BY <2>7
      DEF Defer, Requeue, ClearLease, SetOutbox, Leave, TypeOK, AbsentIsNew,
       DispatchedRowIsOpen, OwnsJob
  <2>8. CASE IgnoreWakeup(w) \/ AssertLease(w) \/ HandlerCommits(w) \/ LeaseLost(w)
             \/ SettleRefused(w) \/ CrashWorker(w) \/ SendRenewal(w) \/ KeeperFails(w)
    BY <2>8
      DEF IgnoreWakeup, AssertLease, HandlerCommits, LeaseLost, SettleRefused, CrashWorker,
       SendRenewal, KeeperFails, TypeOK, AbsentIsNew, DispatchedRowIsOpen, OwnsJob
  <2>. QED
    BY <1>3, <2>1, <2>2, <2>3, <2>4, <2>5, <2>6, <2>7, <2>8
      DEF WorkerStep, HandlerReturns, Settle
<1>4. CASE RenewalStep
  <2>1. ASSUME NEW r \in renewals, ApplyRenewal(r) \/ RefuseRenewal(r) PROVE AbsentIsNew'
    BY <2>1 DEF ApplyRenewal, RefuseRenewal, TypeOK, AbsentIsNew, DispatchedRowIsOpen, OwnsJob
  <2>. QED
    BY <1>4, <2>1 DEF RenewalStep
<1>5. CASE Environment
  <2>1. ASSUME NEW j \in Job,
              LoseWakeup(j) \/ BecomesDue(j) \/ BackoffEnds(j) \/ LeaseExpires(j)
              \/ WakeupExpires(j)
       PROVE  AbsentIsNew'
    BY <2>1
      DEF LoseWakeup, BecomesDue, BackoffEnds, LeaseExpires, WakeupExpires, TypeOK,
       AbsentIsNew, DispatchedRowIsOpen, OwnsJob
  <2>. QED
    BY <1>5, <2>1 DEF Environment
<1>6. CASE UNCHANGED vars
  BY <1>6 DEF vars, TypeOK, AbsentIsNew, DispatchedRowIsOpen, OwnsJob
<1>. QED
  BY <1>1, <1>2, <1>3, <1>4, <1>5, <1>6 DEF Next

-----------------------------------------------------------------------------

\* Whoever could close a row or its outbox skips the rows a dispatcher holds.
LEMMA DispatchedStep ==
  ASSUME TypeOK, AbsentIsNew, DispatchedRowIsOpen, [Next]_vars
  PROVE DispatchedRowIsOpen'
<1>1. CASE ProducerStep
  <2>1. ASSUME NEW j \in Job, Enqueue(j) PROVE DispatchedRowIsOpen'
    BY <2>1 DEF Enqueue, SetOutbox, TypeOK, AbsentIsNew, DispatchedRowIsOpen, OwnsJob
  <2>2. ASSUME NEW j \in Job, ReplayDeadLetter(j) PROVE DispatchedRowIsOpen'
    BY <2>2
      DEF ReplayDeadLetter, Requeue, ClearLease, SetOutbox, TypeOK, AbsentIsNew,
       DispatchedRowIsOpen, OwnsJob
  <2>. QED
    BY <1>1, <2>1, <2>2 DEF ProducerStep
<1>2. ASSUME NEW s \in Scheduler, SchedulerStep(s) PROVE DispatchedRowIsOpen'
  <2>1. CASE BeginCycle(s)
    BY <2>1 DEF BeginCycle, GoTo, TypeOK, AbsentIsNew, DispatchedRowIsOpen, OwnsJob
  <2>2. CASE RecoverStaleJobs(s)
    BY <2>2
      DEF RecoverStaleJobs, Batches, StaleJobs, GoTo, TypeOK, AbsentIsNew,
       DispatchedRowIsOpen, OwnsJob
  <2>3. CASE RecoverStaleWakeups(s)
    BY <2>3
      DEF RecoverStaleWakeups, Batches, StaleWakeups, GoTo, TypeOK, AbsentIsNew,
       DispatchedRowIsOpen, OwnsJob
  <2>4. CASE LockDue(s)
    BY <2>4
      DEF LockDue, DueOutbox, TypeOK, AbsentIsNew, DispatchedRowIsOpen, OwnsJob, Claimable,
       Terminal, Status
  <2>5. CASE CloseOutbox(s)
    BY <2>5
      DEF CloseOutbox, DueOutbox, SetOutbox, TypeOK, AbsentIsNew, DispatchedRowIsOpen,
       OwnsJob
  <2>6. CASE Publish(s)
    BY <2>6 DEF Publish, TypeOK, AbsentIsNew, DispatchedRowIsOpen, OwnsJob
  <2>7. CASE PublishFails(s)
    BY <2>7 DEF PublishFails, Unlock, GoTo, TypeOK, AbsentIsNew, DispatchedRowIsOpen, OwnsJob
  <2>8. CASE CommitDispatch(s)
    BY <2>8
      DEF CommitDispatch, SetOutbox, Dispatched, Unlock, GoTo, TypeOK, AbsentIsNew,
       DispatchedRowIsOpen, OwnsJob
  <2>9. CASE EndCycle(s)
    BY <2>9 DEF EndCycle, GoTo, TypeOK, AbsentIsNew, DispatchedRowIsOpen, OwnsJob
  <2>10. CASE AbortCycle(s)
    BY <2>10 DEF AbortCycle, Unlock, GoTo, TypeOK, AbsentIsNew, DispatchedRowIsOpen, OwnsJob
  <2>. QED
    BY <1>2, <2>1, <2>2, <2>3, <2>4, <2>5, <2>6, <2>7, <2>8, <2>9, <2>10 DEF SchedulerStep
<1>3. ASSUME NEW w \in Worker, WorkerStep(w) PROVE DispatchedRowIsOpen'
  <2>1. ASSUME NEW j \in Job, Pop(w, j) PROVE DispatchedRowIsOpen'
    BY <2>1 DEF Pop, TypeOK, AbsentIsNew, DispatchedRowIsOpen, OwnsJob
  <2>2. ASSUME NEW kind \in Raised, Raise(w, kind) PROVE DispatchedRowIsOpen'
    BY <2>2 DEF Raise, Unlock, TypeOK, AbsentIsNew, DispatchedRowIsOpen, OwnsJob
  <2>3. CASE Claim(w)
    BY <2>3
      DEF Claim, ClaimableNow, NextEpoch, TypeOK, AbsentIsNew, DispatchedRowIsOpen, OwnsJob
  <2>4. CASE AssertLease(w)
    BY <2>4 DEF AssertLease, HoldsLease, TypeOK, AbsentIsNew, DispatchedRowIsOpen, OwnsJob
  <2>5. CASE HandlerCommits(w)
    BY <2>5 DEF HandlerCommits, Unlock, TypeOK, AbsentIsNew, DispatchedRowIsOpen, OwnsJob
  <2>6. CASE LeaseLost(w)
    BY <2>6 DEF LeaseLost, Unlock, Leave, TypeOK, AbsentIsNew, DispatchedRowIsOpen, OwnsJob
  <2>7. CASE Complete(w)
    BY <2>7
      DEF Complete, HoldsLease, Close, ClearLease, Unlock, Leave, TypeOK, AbsentIsNew,
       DispatchedRowIsOpen, OwnsJob
  <2>8. CASE Bury(w)
    BY <2>8
      DEF Bury, Close, ClearLease, Leave, TypeOK, AbsentIsNew, DispatchedRowIsOpen, OwnsJob
  <2>9. CASE Retry(w)
    BY <2>9
      DEF Retry, Requeue, ClearLease, SetOutbox, Leave, TypeOK, AbsentIsNew,
       DispatchedRowIsOpen, OwnsJob
  <2>10. CASE Defer(w)
    BY <2>10
      DEF Defer, Requeue, ClearLease, SetOutbox, Leave, TypeOK, AbsentIsNew,
       DispatchedRowIsOpen, OwnsJob
  <2>11. CASE CrashWorker(w)
    BY <2>11 DEF CrashWorker, Unlock, Leave, TypeOK, AbsentIsNew, DispatchedRowIsOpen, OwnsJob
  <2>12. CASE IgnoreWakeup(w) \/ SettleRefused(w) \/ SendRenewal(w) \/ KeeperFails(w)
    BY <2>12
      DEF IgnoreWakeup, SettleRefused, SendRenewal, KeeperFails, TypeOK, AbsentIsNew,
       DispatchedRowIsOpen, OwnsJob
  <2>. QED
    BY <1>3, <2>1, <2>2, <2>3, <2>4, <2>5, <2>6, <2>7, <2>8, <2>9, <2>10, <2>11, <2>12
      DEF WorkerStep, HandlerReturns, Settle
<1>4. CASE RenewalStep
  <2>1. ASSUME NEW r \in renewals, ApplyRenewal(r) \/ RefuseRenewal(r) PROVE DispatchedRowIsOpen'
    BY <2>1 DEF ApplyRenewal, RefuseRenewal, TypeOK, AbsentIsNew, DispatchedRowIsOpen, OwnsJob
  <2>. QED
    BY <1>4, <2>1 DEF RenewalStep
<1>5. CASE Environment
  <2>1. ASSUME NEW j \in Job, BecomesDue(j) PROVE DispatchedRowIsOpen'
    BY <2>1 DEF BecomesDue, TypeOK, AbsentIsNew, DispatchedRowIsOpen, OwnsJob
  <2>2. ASSUME NEW j \in Job,
              LoseWakeup(j) \/ BackoffEnds(j) \/ LeaseExpires(j) \/ WakeupExpires(j)
       PROVE  DispatchedRowIsOpen'
    BY <2>2
      DEF LoseWakeup, BackoffEnds, LeaseExpires, WakeupExpires, TypeOK, AbsentIsNew,
       DispatchedRowIsOpen, OwnsJob
  <2>. QED
    BY <1>5, <2>1, <2>2 DEF Environment
<1>6. CASE UNCHANGED vars
  BY <1>6 DEF vars, TypeOK, AbsentIsNew, DispatchedRowIsOpen, OwnsJob
<1>. QED
  BY <1>1, <1>2, <1>3, <1>4, <1>5, <1>6 DEF Next

-----------------------------------------------------------------------------

\* A claim is the row's epoch, advanced in the same update.
LEMMA UniqueStep ==
  ASSUME TypeOK, DispatchedRowIsOpen, ClaimsAreUnique, [Next]_vars
  PROVE ClaimsAreUnique'
<1>1. CASE ProducerStep
  <2>1. ASSUME NEW j \in Job, Enqueue(j) PROVE ClaimsAreUnique'
    BY <2>1
      DEF Enqueue, SetOutbox, TypeOK, ClaimsAreUnique, DispatchedRowIsOpen, OwnsJob,
       Executes
  <2>2. ASSUME NEW j \in Job, ReplayDeadLetter(j) PROVE ClaimsAreUnique'
    BY <2>2
      DEF ReplayDeadLetter, Requeue, ClearLease, SetOutbox, TypeOK, ClaimsAreUnique,
       DispatchedRowIsOpen, OwnsJob, Executes
  <2>. QED
    BY <1>1, <2>1, <2>2 DEF ProducerStep
<1>2. ASSUME NEW s \in Scheduler, SchedulerStep(s) PROVE ClaimsAreUnique'
  <2>1. CASE RecoverStaleJobs(s)
    BY <2>1
      DEF RecoverStaleJobs, Batches, StaleJobs, GoTo, TypeOK, ClaimsAreUnique,
       DispatchedRowIsOpen, OwnsJob, Executes
  <2>2. CASE CommitDispatch(s)
    BY <2>2
      DEF CommitDispatch, SetOutbox, Dispatched, Unlock, GoTo, TypeOK, ClaimsAreUnique,
       DispatchedRowIsOpen, OwnsJob, Executes
  <2>3. CASE BeginCycle(s) \/ RecoverStaleWakeups(s) \/ LockDue(s) \/ CloseOutbox(s)
             \/ Publish(s) \/ PublishFails(s) \/ EndCycle(s) \/ AbortCycle(s)
    BY <2>3
      DEF BeginCycle, RecoverStaleWakeups, LockDue, CloseOutbox, Publish, PublishFails,
       EndCycle, AbortCycle, TypeOK, ClaimsAreUnique, DispatchedRowIsOpen, OwnsJob, Executes
  <2>. QED
    BY <1>2, <2>1, <2>2, <2>3 DEF SchedulerStep
<1>3. ASSUME NEW w \in Worker, WorkerStep(w) PROVE ClaimsAreUnique'
  <2>1. ASSUME NEW j \in Job, Pop(w, j) PROVE ClaimsAreUnique'
    BY <2>1
      DEF Pop, TypeOK, ClaimsAreUnique, DispatchedRowIsOpen, OwnsJob, Executes, Claimable,
       Active, Raised
  <2>2. ASSUME NEW kind \in Raised, Raise(w, kind) PROVE ClaimsAreUnique'
    BY <2>2 DEF Raise, Unlock, TypeOK, ClaimsAreUnique, DispatchedRowIsOpen, OwnsJob, Executes
  <2>3. CASE Claim(w)
    BY <2>3
      DEF Claim, ClaimableNow, NextEpoch, TypeOK, ClaimsAreUnique, DispatchedRowIsOpen,
       OwnsJob, Executes
  <2>4. CASE IgnoreWakeup(w)
    BY <2>4
      DEF IgnoreWakeup, Leave, TypeOK, ClaimsAreUnique, DispatchedRowIsOpen, OwnsJob,
       Executes
  <2>5. CASE AssertLease(w)
    BY <2>5
      DEF AssertLease, HoldsLease, TypeOK, ClaimsAreUnique, DispatchedRowIsOpen, OwnsJob,
       Executes
  <2>6. CASE LeaseLost(w)
    BY <2>6
      DEF LeaseLost, Unlock, Leave, TypeOK, ClaimsAreUnique, DispatchedRowIsOpen, OwnsJob,
       Executes
  <2>7. CASE Complete(w)
    BY <2>7
      DEF Complete, HoldsLease, Close, ClearLease, Unlock, Leave, TypeOK, ClaimsAreUnique,
       DispatchedRowIsOpen, OwnsJob, Executes
  <2>8. CASE Bury(w)
    BY <2>8
      DEF Bury, Close, ClearLease, Leave, TypeOK, ClaimsAreUnique, DispatchedRowIsOpen,
       OwnsJob, Executes
  <2>9. CASE Retry(w)
    BY <2>9
      DEF Retry, Requeue, ClearLease, SetOutbox, Leave, TypeOK, ClaimsAreUnique,
       DispatchedRowIsOpen, OwnsJob, Executes
  <2>10. CASE Defer(w)
    BY <2>10
      DEF Defer, Requeue, ClearLease, SetOutbox, Leave, TypeOK, ClaimsAreUnique,
       DispatchedRowIsOpen, OwnsJob, Executes
  <2>11. CASE SettleRefused(w)
    BY <2>11
      DEF SettleRefused, Leave, TypeOK, ClaimsAreUnique, DispatchedRowIsOpen, OwnsJob,
       Executes
  <2>12. CASE CrashWorker(w)
    BY <2>12
      DEF CrashWorker, Unlock, Leave, TypeOK, ClaimsAreUnique, DispatchedRowIsOpen,
       OwnsJob, Executes
  <2>13. CASE HandlerCommits(w) \/ SendRenewal(w) \/ KeeperFails(w)
    BY <2>13
      DEF HandlerCommits, SendRenewal, KeeperFails, TypeOK, ClaimsAreUnique,
       DispatchedRowIsOpen, OwnsJob, Executes
  <2>. QED
    BY <1>3, <2>1, <2>2, <2>3, <2>4, <2>5, <2>6, <2>7, <2>8, <2>9, <2>10, <2>11, <2>12,
       <2>13 DEF WorkerStep, HandlerReturns, Settle
<1>4. CASE RenewalStep
  <2>1. ASSUME NEW r \in renewals, ApplyRenewal(r) \/ RefuseRenewal(r) PROVE ClaimsAreUnique'
    BY <2>1
      DEF ApplyRenewal, RefuseRenewal, TypeOK, ClaimsAreUnique, DispatchedRowIsOpen,
       OwnsJob, Executes
  <2>. QED
    BY <1>4, <2>1 DEF RenewalStep
<1>5. CASE Environment
  <2>1. ASSUME NEW j \in Job,
              LoseWakeup(j) \/ BecomesDue(j) \/ BackoffEnds(j) \/ LeaseExpires(j)
              \/ WakeupExpires(j)
       PROVE  ClaimsAreUnique'
    BY <2>1
      DEF LoseWakeup, BecomesDue, BackoffEnds, LeaseExpires, WakeupExpires, TypeOK,
       ClaimsAreUnique, DispatchedRowIsOpen, OwnsJob, Executes
  <2>. QED
    BY <1>5, <2>1 DEF Environment
<1>6. CASE UNCHANGED vars
  BY <1>6 DEF vars, TypeOK, ClaimsAreUnique, DispatchedRowIsOpen, OwnsJob, Executes
<1>. QED
  BY <1>1, <1>2, <1>3, <1>4, <1>5, <1>6 DEF Next

-----------------------------------------------------------------------------

\* Whatever reopens a row puts its outbox row back too.
LEMMA StrandedStep ==
  ASSUME TypeOK, AbsentIsNew, DispatchedRowIsOpen, NoJobStranded, [Next]_vars
  PROVE NoJobStranded'
<1>1. CASE ProducerStep
  <2>1. ASSUME NEW j \in Job, Enqueue(j) PROVE NoJobStranded'
    BY <2>1
      DEF Enqueue, SetOutbox, TypeOK, NoJobStranded, AbsentIsNew, DispatchedRowIsOpen,
       OwnsJob
  <2>2. ASSUME NEW j \in Job, ReplayDeadLetter(j) PROVE NoJobStranded'
    BY <2>2
      DEF ReplayDeadLetter, Requeue, ClearLease, SetOutbox, TypeOK, NoJobStranded,
       AbsentIsNew, DispatchedRowIsOpen, OwnsJob
  <2>. QED
    BY <1>1, <2>1, <2>2 DEF ProducerStep
<1>2. ASSUME NEW s \in Scheduler, SchedulerStep(s) PROVE NoJobStranded'
  <2>1. CASE RecoverStaleJobs(s)
    BY <2>1
      DEF RecoverStaleJobs, Batches, StaleJobs, GoTo, TypeOK, NoJobStranded, AbsentIsNew,
       DispatchedRowIsOpen, OwnsJob
  <2>2. CASE RecoverStaleWakeups(s)
    BY <2>2
      DEF RecoverStaleWakeups, Batches, StaleWakeups, GoTo, TypeOK, NoJobStranded,
       AbsentIsNew, DispatchedRowIsOpen, OwnsJob
  <2>3. CASE CloseOutbox(s)
    BY <2>3
      DEF CloseOutbox, DueOutbox, SetOutbox, TypeOK, NoJobStranded, AbsentIsNew,
       DispatchedRowIsOpen, OwnsJob, Claimable, Terminal, Status
  <2>4. CASE CommitDispatch(s)
    BY <2>4
      DEF CommitDispatch, SetOutbox, Dispatched, Unlock, GoTo, TypeOK, NoJobStranded,
       AbsentIsNew, DispatchedRowIsOpen, OwnsJob
  <2>5. CASE BeginCycle(s) \/ LockDue(s) \/ Publish(s) \/ PublishFails(s) \/ EndCycle(s)
             \/ AbortCycle(s)
    BY <2>5
      DEF BeginCycle, LockDue, Publish, PublishFails, EndCycle, AbortCycle, TypeOK,
       NoJobStranded, AbsentIsNew, DispatchedRowIsOpen, OwnsJob
  <2>. QED
    BY <1>2, <2>1, <2>2, <2>3, <2>4, <2>5 DEF SchedulerStep
<1>3. ASSUME NEW w \in Worker, WorkerStep(w) PROVE NoJobStranded'
  <2>1. ASSUME NEW j \in Job, Pop(w, j) PROVE NoJobStranded'
    BY <2>1 DEF Pop, TypeOK, NoJobStranded, AbsentIsNew, DispatchedRowIsOpen, OwnsJob
  <2>2. ASSUME NEW kind \in Raised, Raise(w, kind) PROVE NoJobStranded'
    BY <2>2 DEF Raise, Unlock, TypeOK, NoJobStranded, AbsentIsNew, DispatchedRowIsOpen, OwnsJob
  <2>3. CASE Claim(w)
    BY <2>3
      DEF Claim, ClaimableNow, NextEpoch, TypeOK, NoJobStranded, AbsentIsNew,
       DispatchedRowIsOpen, OwnsJob
  <2>4. CASE Complete(w)
    BY <2>4
      DEF Complete, HoldsLease, Close, ClearLease, Unlock, Leave, TypeOK, NoJobStranded,
       AbsentIsNew, DispatchedRowIsOpen, OwnsJob
  <2>5. CASE Bury(w)
    BY <2>5
      DEF Bury, Close, ClearLease, Leave, TypeOK, NoJobStranded, AbsentIsNew,
       DispatchedRowIsOpen, OwnsJob
  <2>6. CASE Retry(w)
    BY <2>6
      DEF Retry, Requeue, ClearLease, SetOutbox, Leave, TypeOK, NoJobStranded, AbsentIsNew,
       DispatchedRowIsOpen, OwnsJob
  <2>7. CASE Defer(w)
    BY <2>7
      DEF Defer, Requeue, ClearLease, SetOutbox, Leave, TypeOK, NoJobStranded, AbsentIsNew,
       DispatchedRowIsOpen, OwnsJob
  <2>8. CASE IgnoreWakeup(w) \/ AssertLease(w) \/ HandlerCommits(w) \/ LeaseLost(w)
             \/ SettleRefused(w) \/ CrashWorker(w) \/ SendRenewal(w) \/ KeeperFails(w)
    BY <2>8
      DEF IgnoreWakeup, AssertLease, HandlerCommits, LeaseLost, SettleRefused, CrashWorker,
       SendRenewal, KeeperFails, TypeOK, NoJobStranded, AbsentIsNew, DispatchedRowIsOpen,
       OwnsJob
  <2>. QED
    BY <1>3, <2>1, <2>2, <2>3, <2>4, <2>5, <2>6, <2>7, <2>8
      DEF WorkerStep, HandlerReturns, Settle
<1>4. CASE RenewalStep
  <2>1. ASSUME NEW r \in renewals, ApplyRenewal(r) \/ RefuseRenewal(r) PROVE NoJobStranded'
    BY <2>1
      DEF ApplyRenewal, RefuseRenewal, TypeOK, NoJobStranded, AbsentIsNew,
       DispatchedRowIsOpen, OwnsJob
  <2>. QED
    BY <1>4, <2>1 DEF RenewalStep
<1>5. CASE Environment
  <2>1. ASSUME NEW j \in Job, BecomesDue(j) PROVE NoJobStranded'
    BY <2>1 DEF BecomesDue, TypeOK, NoJobStranded, AbsentIsNew, DispatchedRowIsOpen, OwnsJob
  <2>2. ASSUME NEW j \in Job,
              LoseWakeup(j) \/ BackoffEnds(j) \/ LeaseExpires(j) \/ WakeupExpires(j)
       PROVE  NoJobStranded'
    BY <2>2
      DEF LoseWakeup, BackoffEnds, LeaseExpires, WakeupExpires, TypeOK, NoJobStranded,
       AbsentIsNew, DispatchedRowIsOpen, OwnsJob
  <2>. QED
    BY <1>5, <2>1, <2>2 DEF Environment
<1>6. CASE UNCHANGED vars
  BY <1>6 DEF vars, TypeOK, NoJobStranded, AbsentIsNew, DispatchedRowIsOpen, OwnsJob
<1>. QED
  BY <1>1, <1>2, <1>3, <1>4, <1>5, <1>6 DEF Next

-----------------------------------------------------------------------------

\* A row is reopened with an attempt left, handed back, or granted anew.
LEMMA BudgetStep ==
  ASSUME TypeOK, AbsentIsNew, DispatchedRowIsOpen, BudgetIsKept, [Next]_vars
  PROVE BudgetIsKept'
<1>1. CASE ProducerStep
  <2>1. ASSUME NEW j \in Job, Enqueue(j) PROVE BudgetIsKept'
    BY <2>1
      DEF Enqueue, SetOutbox, TypeOK, BudgetIsKept, AbsentIsNew, DispatchedRowIsOpen,
       OwnsJob, Exhausted
  <2>2. ASSUME NEW j \in Job, ReplayDeadLetter(j) PROVE BudgetIsKept'
    BY <2>2
      DEF ReplayDeadLetter, Requeue, ClearLease, SetOutbox, TypeOK, BudgetIsKept,
       AbsentIsNew, DispatchedRowIsOpen, OwnsJob, Exhausted
  <2>. QED
    BY <1>1, <2>1, <2>2 DEF ProducerStep
<1>2. ASSUME NEW s \in Scheduler, SchedulerStep(s) PROVE BudgetIsKept'
  <2>1. CASE RecoverStaleJobs(s)
    BY <2>1
      DEF RecoverStaleJobs, Batches, StaleJobs, GoTo, TypeOK, BudgetIsKept, AbsentIsNew,
       DispatchedRowIsOpen, OwnsJob, Exhausted, Claimable
  <2>2. CASE CommitDispatch(s)
    BY <2>2
      DEF CommitDispatch, SetOutbox, Dispatched, Unlock, GoTo, TypeOK, BudgetIsKept,
       AbsentIsNew, DispatchedRowIsOpen, OwnsJob, Exhausted
  <2>3. CASE BeginCycle(s) \/ RecoverStaleWakeups(s) \/ LockDue(s) \/ CloseOutbox(s)
             \/ Publish(s) \/ PublishFails(s) \/ EndCycle(s) \/ AbortCycle(s)
    BY <2>3
      DEF BeginCycle, RecoverStaleWakeups, LockDue, CloseOutbox, Publish, PublishFails,
       EndCycle, AbortCycle, TypeOK, BudgetIsKept, AbsentIsNew, DispatchedRowIsOpen,
       OwnsJob, Exhausted
  <2>. QED
    BY <1>2, <2>1, <2>2, <2>3 DEF SchedulerStep
<1>3. ASSUME NEW w \in Worker, WorkerStep(w) PROVE BudgetIsKept'
  <2>1. ASSUME NEW j \in Job, Pop(w, j) PROVE BudgetIsKept'
    BY <2>1 DEF Pop, TypeOK, BudgetIsKept, AbsentIsNew, DispatchedRowIsOpen, OwnsJob, Exhausted
  <2>2. ASSUME NEW kind \in Raised, Raise(w, kind) PROVE BudgetIsKept'
    BY <2>2
      DEF Raise, Unlock, TypeOK, BudgetIsKept, AbsentIsNew, DispatchedRowIsOpen, OwnsJob,
       Exhausted
  <2>3. CASE Claim(w)
    BY <2>3
      DEF Claim, ClaimableNow, NextEpoch, TypeOK, BudgetIsKept, AbsentIsNew,
       DispatchedRowIsOpen, OwnsJob, Exhausted, Claimable
  <2>4. CASE Complete(w)
    BY <2>4
      DEF Complete, HoldsLease, Close, ClearLease, Unlock, Leave, TypeOK, BudgetIsKept,
       AbsentIsNew, DispatchedRowIsOpen, OwnsJob, Exhausted, Claimable
  <2>5. CASE Bury(w)
    BY <2>5
      DEF Bury, Close, ClearLease, Leave, TypeOK, BudgetIsKept, AbsentIsNew,
       DispatchedRowIsOpen, OwnsJob, Exhausted, Claimable
  <2>6. CASE Retry(w)
    BY <2>6
      DEF Retry, Requeue, ClearLease, SetOutbox, Leave, TypeOK, BudgetIsKept, AbsentIsNew,
       DispatchedRowIsOpen, OwnsJob, Exhausted
  <2>7. CASE Defer(w)
    BY <2>7
      DEF Defer, Requeue, ClearLease, SetOutbox, Leave, TypeOK, BudgetIsKept, AbsentIsNew,
       DispatchedRowIsOpen, OwnsJob, Exhausted
  <2>8. CASE IgnoreWakeup(w) \/ AssertLease(w) \/ HandlerCommits(w) \/ LeaseLost(w)
             \/ SettleRefused(w) \/ CrashWorker(w) \/ SendRenewal(w) \/ KeeperFails(w)
    BY <2>8
      DEF IgnoreWakeup, AssertLease, HandlerCommits, LeaseLost, SettleRefused, CrashWorker,
       SendRenewal, KeeperFails, TypeOK, BudgetIsKept, AbsentIsNew, DispatchedRowIsOpen,
       OwnsJob, Exhausted
  <2>. QED
    BY <1>3, <2>1, <2>2, <2>3, <2>4, <2>5, <2>6, <2>7, <2>8
      DEF WorkerStep, HandlerReturns, Settle
<1>4. CASE RenewalStep
  <2>1. ASSUME NEW r \in renewals, ApplyRenewal(r) \/ RefuseRenewal(r) PROVE BudgetIsKept'
    BY <2>1
      DEF ApplyRenewal, RefuseRenewal, TypeOK, BudgetIsKept, AbsentIsNew,
       DispatchedRowIsOpen, OwnsJob, Exhausted
  <2>. QED
    BY <1>4, <2>1 DEF RenewalStep
<1>5. CASE Environment
  <2>1. ASSUME NEW j \in Job,
              LoseWakeup(j) \/ BecomesDue(j) \/ BackoffEnds(j) \/ LeaseExpires(j)
              \/ WakeupExpires(j)
       PROVE  BudgetIsKept'
    BY <2>1
      DEF LoseWakeup, BecomesDue, BackoffEnds, LeaseExpires, WakeupExpires, TypeOK,
       BudgetIsKept, AbsentIsNew, DispatchedRowIsOpen, OwnsJob, Exhausted
  <2>. QED
    BY <1>5, <2>1 DEF Environment
<1>6. CASE UNCHANGED vars
  BY <1>6 DEF vars, TypeOK, BudgetIsKept, AbsentIsNew, DispatchedRowIsOpen, OwnsJob, Exhausted
<1>. QED
  BY <1>1, <1>2, <1>3, <1>4, <1>5, <1>6 DEF Next

-----------------------------------------------------------------------------

\* A burial and its report are one transaction.
LEMMA BurialStep ==
  ASSUME TypeOK, DispatchedRowIsOpen, EveryBurialIsReported, [Next]_vars
  PROVE EveryBurialIsReported'
<1>1. CASE ProducerStep
  <2>1. ASSUME NEW j \in Job, Enqueue(j) PROVE EveryBurialIsReported'
    BY <2>1 DEF Enqueue, SetOutbox, TypeOK, EveryBurialIsReported, DispatchedRowIsOpen, OwnsJob
  <2>2. ASSUME NEW j \in Job, ReplayDeadLetter(j) PROVE EveryBurialIsReported'
    BY <2>2
      DEF ReplayDeadLetter, Requeue, ClearLease, SetOutbox, TypeOK, EveryBurialIsReported,
       DispatchedRowIsOpen, OwnsJob
  <2>. QED
    BY <1>1, <2>1, <2>2 DEF ProducerStep
<1>2. ASSUME NEW s \in Scheduler, SchedulerStep(s) PROVE EveryBurialIsReported'
  <2>1. CASE RecoverStaleJobs(s)
    BY <2>1
      DEF RecoverStaleJobs, Batches, StaleJobs, GoTo, TypeOK, EveryBurialIsReported,
       DispatchedRowIsOpen, OwnsJob
  <2>2. CASE CommitDispatch(s)
    BY <2>2
      DEF CommitDispatch, SetOutbox, Dispatched, Unlock, GoTo, TypeOK,
       EveryBurialIsReported, DispatchedRowIsOpen, OwnsJob
  <2>3. CASE BeginCycle(s) \/ RecoverStaleWakeups(s) \/ LockDue(s) \/ CloseOutbox(s)
             \/ Publish(s) \/ PublishFails(s) \/ EndCycle(s) \/ AbortCycle(s)
    BY <2>3
      DEF BeginCycle, RecoverStaleWakeups, LockDue, CloseOutbox, Publish, PublishFails,
       EndCycle, AbortCycle, TypeOK, EveryBurialIsReported, DispatchedRowIsOpen, OwnsJob
  <2>. QED
    BY <1>2, <2>1, <2>2, <2>3 DEF SchedulerStep
<1>3. ASSUME NEW w \in Worker, WorkerStep(w) PROVE EveryBurialIsReported'
  <2>1. ASSUME NEW j \in Job, Pop(w, j) PROVE EveryBurialIsReported'
    BY <2>1 DEF Pop, TypeOK, EveryBurialIsReported, DispatchedRowIsOpen, OwnsJob
  <2>2. ASSUME NEW kind \in Raised, Raise(w, kind) PROVE EveryBurialIsReported'
    BY <2>2 DEF Raise, Unlock, TypeOK, EveryBurialIsReported, DispatchedRowIsOpen, OwnsJob
  <2>3. CASE Claim(w)
    BY <2>3
      DEF Claim, ClaimableNow, NextEpoch, TypeOK, EveryBurialIsReported,
       DispatchedRowIsOpen, OwnsJob, Claimable
  <2>4. CASE Complete(w)
    BY <2>4
      DEF Complete, HoldsLease, Close, ClearLease, Unlock, Leave, TypeOK,
       EveryBurialIsReported, DispatchedRowIsOpen, OwnsJob
  <2>5. CASE Bury(w)
    BY <2>5
      DEF Bury, Close, ClearLease, Leave, TypeOK, EveryBurialIsReported,
       DispatchedRowIsOpen, OwnsJob
  <2>6. CASE Retry(w)
    BY <2>6
      DEF Retry, Requeue, ClearLease, SetOutbox, Leave, TypeOK, EveryBurialIsReported,
       DispatchedRowIsOpen, OwnsJob
  <2>7. CASE Defer(w)
    BY <2>7
      DEF Defer, Requeue, ClearLease, SetOutbox, Leave, TypeOK, EveryBurialIsReported,
       DispatchedRowIsOpen, OwnsJob
  <2>8. CASE IgnoreWakeup(w) \/ AssertLease(w) \/ HandlerCommits(w) \/ LeaseLost(w)
             \/ SettleRefused(w) \/ CrashWorker(w) \/ SendRenewal(w) \/ KeeperFails(w)
    BY <2>8
      DEF IgnoreWakeup, AssertLease, HandlerCommits, LeaseLost, SettleRefused, CrashWorker,
       SendRenewal, KeeperFails, TypeOK, EveryBurialIsReported, DispatchedRowIsOpen, OwnsJob
  <2>. QED
    BY <1>3, <2>1, <2>2, <2>3, <2>4, <2>5, <2>6, <2>7, <2>8
      DEF WorkerStep, HandlerReturns, Settle
<1>4. CASE RenewalStep
  <2>1. ASSUME NEW r \in renewals, ApplyRenewal(r) \/ RefuseRenewal(r)
      PROVE EveryBurialIsReported'
    BY <2>1
      DEF ApplyRenewal, RefuseRenewal, TypeOK, EveryBurialIsReported, DispatchedRowIsOpen,
       OwnsJob
  <2>. QED
    BY <1>4, <2>1 DEF RenewalStep
<1>5. CASE Environment
  <2>1. ASSUME NEW j \in Job,
              LoseWakeup(j) \/ BecomesDue(j) \/ BackoffEnds(j) \/ LeaseExpires(j)
              \/ WakeupExpires(j)
       PROVE  EveryBurialIsReported'
    BY <2>1
      DEF LoseWakeup, BecomesDue, BackoffEnds, LeaseExpires, WakeupExpires, TypeOK,
       EveryBurialIsReported, DispatchedRowIsOpen, OwnsJob
  <2>. QED
    BY <1>5, <2>1 DEF Environment
<1>6. CASE UNCHANGED vars
  BY <1>6 DEF vars, TypeOK, EveryBurialIsReported, DispatchedRowIsOpen, OwnsJob
<1>. QED
  BY <1>1, <1>2, <1>3, <1>4, <1>5, <1>6 DEF Next

-----------------------------------------------------------------------------

\* A settled row is never the target of a dispatch, a claim or a settlement.
LEMMA FinalStep == ASSUME TypeOK, DispatchedRowIsOpen, [Next]_vars PROVE FinalOutcomes
<1>1. CASE ProducerStep
  <2>1. ASSUME NEW j \in Job, Enqueue(j) PROVE FinalOutcomes
    BY <2>1 DEF Enqueue, SetOutbox, TypeOK, FinalOutcomes, DispatchedRowIsOpen, OwnsJob
  <2>2. ASSUME NEW j \in Job, ReplayDeadLetter(j) PROVE FinalOutcomes
    BY <2>2
      DEF ReplayDeadLetter, Requeue, ClearLease, SetOutbox, TypeOK, FinalOutcomes,
       DispatchedRowIsOpen, OwnsJob
  <2>. QED
    BY <1>1, <2>1, <2>2 DEF ProducerStep
<1>2. ASSUME NEW s \in Scheduler, SchedulerStep(s) PROVE FinalOutcomes
  <2>1. CASE RecoverStaleJobs(s)
    BY <2>1
      DEF RecoverStaleJobs, Batches, StaleJobs, GoTo, TypeOK, FinalOutcomes,
       DispatchedRowIsOpen, OwnsJob
  <2>2. CASE CommitDispatch(s)
    BY <2>2
      DEF CommitDispatch, SetOutbox, Dispatched, Unlock, GoTo, TypeOK, FinalOutcomes,
       DispatchedRowIsOpen, OwnsJob
  <2>3. CASE BeginCycle(s) \/ RecoverStaleWakeups(s) \/ LockDue(s) \/ CloseOutbox(s)
             \/ Publish(s) \/ PublishFails(s) \/ EndCycle(s) \/ AbortCycle(s)
    BY <2>3
      DEF BeginCycle, RecoverStaleWakeups, LockDue, CloseOutbox, Publish, PublishFails,
       EndCycle, AbortCycle, TypeOK, FinalOutcomes, DispatchedRowIsOpen, OwnsJob
  <2>. QED
    BY <1>2, <2>1, <2>2, <2>3 DEF SchedulerStep
<1>3. ASSUME NEW w \in Worker, WorkerStep(w) PROVE FinalOutcomes
  <2>1. ASSUME NEW j \in Job, Pop(w, j) PROVE FinalOutcomes
    BY <2>1 DEF Pop, TypeOK, FinalOutcomes, DispatchedRowIsOpen, OwnsJob
  <2>2. ASSUME NEW kind \in Raised, Raise(w, kind) PROVE FinalOutcomes
    BY <2>2 DEF Raise, Unlock, TypeOK, FinalOutcomes, DispatchedRowIsOpen, OwnsJob
  <2>3. CASE Claim(w)
    BY <2>3
      DEF Claim, ClaimableNow, NextEpoch, TypeOK, FinalOutcomes, DispatchedRowIsOpen,
       OwnsJob, Claimable
  <2>4. CASE Complete(w)
    BY <2>4
      DEF Complete, HoldsLease, Close, ClearLease, Unlock, Leave, TypeOK, FinalOutcomes,
       DispatchedRowIsOpen, OwnsJob
  <2>5. CASE Bury(w)
    BY <2>5
      DEF Bury, Close, ClearLease, Leave, TypeOK, FinalOutcomes, DispatchedRowIsOpen,
       OwnsJob
  <2>6. CASE Retry(w)
    BY <2>6
      DEF Retry, Requeue, ClearLease, SetOutbox, Leave, TypeOK, FinalOutcomes,
       DispatchedRowIsOpen, OwnsJob
  <2>7. CASE Defer(w)
    BY <2>7
      DEF Defer, Requeue, ClearLease, SetOutbox, Leave, TypeOK, FinalOutcomes,
       DispatchedRowIsOpen, OwnsJob
  <2>8. CASE IgnoreWakeup(w) \/ AssertLease(w) \/ HandlerCommits(w) \/ LeaseLost(w)
             \/ SettleRefused(w) \/ CrashWorker(w) \/ SendRenewal(w) \/ KeeperFails(w)
    BY <2>8
      DEF IgnoreWakeup, AssertLease, HandlerCommits, LeaseLost, SettleRefused, CrashWorker,
       SendRenewal, KeeperFails, TypeOK, FinalOutcomes, DispatchedRowIsOpen, OwnsJob
  <2>. QED
    BY <1>3, <2>1, <2>2, <2>3, <2>4, <2>5, <2>6, <2>7, <2>8
      DEF WorkerStep, HandlerReturns, Settle
<1>4. CASE RenewalStep
  <2>1. ASSUME NEW r \in renewals, ApplyRenewal(r) \/ RefuseRenewal(r) PROVE FinalOutcomes
    BY <2>1 DEF ApplyRenewal, RefuseRenewal, TypeOK, FinalOutcomes, DispatchedRowIsOpen, OwnsJob
  <2>. QED
    BY <1>4, <2>1 DEF RenewalStep
<1>5. CASE Environment
  <2>1. ASSUME NEW j \in Job,
              LoseWakeup(j) \/ BecomesDue(j) \/ BackoffEnds(j) \/ LeaseExpires(j)
              \/ WakeupExpires(j)
       PROVE  FinalOutcomes
    BY <2>1
      DEF LoseWakeup, BecomesDue, BackoffEnds, LeaseExpires, WakeupExpires, TypeOK,
       FinalOutcomes, DispatchedRowIsOpen, OwnsJob
  <2>. QED
    BY <1>5, <2>1 DEF Environment
<1>6. CASE UNCHANGED vars
  BY <1>6 DEF vars, TypeOK, FinalOutcomes, DispatchedRowIsOpen, OwnsJob
<1>. QED
  BY <1>1, <1>2, <1>3, <1>4, <1>5, <1>6 DEF Next

-----------------------------------------------------------------------------

\* A running row is left by the execution that owns it, or by a recovery of its
\* expired lease.
LEMMA OwnerStep ==
  ASSUME TypeOK, DispatchedRowIsOpen, LockedRowIsOwned, [Next]_vars
  PROVE EndByOwner
<1>1. CASE ProducerStep
  <2>1. ASSUME NEW j \in Job, Enqueue(j) PROVE EndByOwner
    BY <2>1
      DEF Enqueue, SetOutbox, TypeOK, EndByOwner, Executes, DispatchedRowIsOpen,
       LockedRowIsOwned, OwnsJob
  <2>2. ASSUME NEW j \in Job, ReplayDeadLetter(j) PROVE EndByOwner
    BY <2>2
      DEF ReplayDeadLetter, Requeue, ClearLease, SetOutbox, TypeOK, EndByOwner, Executes,
       DispatchedRowIsOpen, LockedRowIsOwned, OwnsJob
  <2>. QED
    BY <1>1, <2>1, <2>2 DEF ProducerStep
<1>2. ASSUME NEW s \in Scheduler, SchedulerStep(s) PROVE EndByOwner
  <2>1. CASE RecoverStaleJobs(s)
    BY <2>1
      DEF RecoverStaleJobs, Batches, StaleJobs, GoTo, TypeOK, EndByOwner, Executes,
       DispatchedRowIsOpen, LockedRowIsOwned, OwnsJob
  <2>2. CASE CommitDispatch(s)
    BY <2>2
      DEF CommitDispatch, SetOutbox, Dispatched, Unlock, GoTo, TypeOK, EndByOwner,
       Executes, DispatchedRowIsOpen, LockedRowIsOwned, OwnsJob
  <2>3. CASE BeginCycle(s) \/ RecoverStaleWakeups(s) \/ LockDue(s) \/ CloseOutbox(s)
             \/ Publish(s) \/ PublishFails(s) \/ EndCycle(s) \/ AbortCycle(s)
    BY <2>3
      DEF BeginCycle, RecoverStaleWakeups, LockDue, CloseOutbox, Publish, PublishFails,
       EndCycle, AbortCycle, TypeOK, EndByOwner, Executes, DispatchedRowIsOpen,
       LockedRowIsOwned, OwnsJob
  <2>. QED
    BY <1>2, <2>1, <2>2, <2>3 DEF SchedulerStep
<1>3. ASSUME NEW w \in Worker, WorkerStep(w) PROVE EndByOwner
  <2>1. ASSUME NEW j \in Job, Pop(w, j) PROVE EndByOwner
    BY <2>1
      DEF Pop, TypeOK, EndByOwner, Executes, DispatchedRowIsOpen, LockedRowIsOwned, OwnsJob
  <2>2. ASSUME NEW kind \in Raised, Raise(w, kind) PROVE EndByOwner
    BY <2>2
      DEF Raise, Unlock, TypeOK, EndByOwner, Executes, DispatchedRowIsOpen,
       LockedRowIsOwned, OwnsJob
  <2>3. CASE Claim(w)
    BY <2>3
      DEF Claim, ClaimableNow, NextEpoch, TypeOK, EndByOwner, Executes,
       DispatchedRowIsOpen, LockedRowIsOwned, OwnsJob
  <2>4. CASE Complete(w)
    BY <2>4
      DEF Complete, HoldsLease, Close, ClearLease, Unlock, Leave, TypeOK, EndByOwner,
       Executes, DispatchedRowIsOpen, LockedRowIsOwned, OwnsJob
  <2>5. CASE Bury(w)
    BY <2>5
      DEF Bury, Close, ClearLease, Leave, TypeOK, EndByOwner, Executes,
       DispatchedRowIsOpen, LockedRowIsOwned, OwnsJob
  <2>6. CASE Retry(w)
    BY <2>6
      DEF Retry, Requeue, ClearLease, SetOutbox, Leave, TypeOK, EndByOwner, Executes,
       DispatchedRowIsOpen, LockedRowIsOwned, OwnsJob
  <2>7. CASE Defer(w)
    BY <2>7
      DEF Defer, Requeue, ClearLease, SetOutbox, Leave, TypeOK, EndByOwner, Executes,
       DispatchedRowIsOpen, LockedRowIsOwned, OwnsJob
  <2>8. CASE IgnoreWakeup(w) \/ AssertLease(w) \/ HandlerCommits(w) \/ LeaseLost(w)
             \/ SettleRefused(w) \/ CrashWorker(w) \/ SendRenewal(w) \/ KeeperFails(w)
    BY <2>8
      DEF IgnoreWakeup, AssertLease, HandlerCommits, LeaseLost, SettleRefused, CrashWorker,
       SendRenewal, KeeperFails, TypeOK, EndByOwner, Executes, DispatchedRowIsOpen,
       LockedRowIsOwned, OwnsJob
  <2>. QED
    BY <1>3, <2>1, <2>2, <2>3, <2>4, <2>5, <2>6, <2>7, <2>8
      DEF WorkerStep, HandlerReturns, Settle
<1>4. CASE RenewalStep
  <2>1. ASSUME NEW r \in renewals, ApplyRenewal(r) \/ RefuseRenewal(r) PROVE EndByOwner
    BY <2>1
      DEF ApplyRenewal, RefuseRenewal, TypeOK, EndByOwner, Executes, DispatchedRowIsOpen,
       LockedRowIsOwned, OwnsJob
  <2>. QED
    BY <1>4, <2>1 DEF RenewalStep
<1>5. CASE Environment
  <2>1. ASSUME NEW j \in Job,
              LoseWakeup(j) \/ BecomesDue(j) \/ BackoffEnds(j) \/ LeaseExpires(j)
              \/ WakeupExpires(j)
       PROVE  EndByOwner
    BY <2>1
      DEF LoseWakeup, BecomesDue, BackoffEnds, LeaseExpires, WakeupExpires, TypeOK,
       EndByOwner, Executes, DispatchedRowIsOpen, LockedRowIsOwned, OwnsJob
  <2>. QED
    BY <1>5, <2>1 DEF Environment
<1>6. CASE UNCHANGED vars
  BY <1>6 DEF vars, TypeOK, EndByOwner, Executes, DispatchedRowIsOpen, LockedRowIsOwned, OwnsJob
<1>. QED
  BY <1>1, <1>2, <1>3, <1>4, <1>5, <1>6 DEF Next

-----------------------------------------------------------------------------

LEMMA InitOK == Init => TypeOK /\ IInv
<1>1. Init => TypeOK
  BY DEF Init, TypeOK, Status, Claimable, Terminal, Active, Raised, Stage
<1>2. Init => LockedRowIsOwned /\ AbsentIsNew /\ DispatchedRowIsOpen
  BY DEF Init, LockedRowIsOwned, AbsentIsNew, DispatchedRowIsOpen
<1>3. Init => ClaimsAreUnique
  BY DEF Init, ClaimsAreUnique, Executes, Active, Raised
<1>4. Init => NoJobStranded /\ BudgetIsKept /\ EveryBurialIsReported
  BY DEF Init, NoJobStranded, BudgetIsKept, EveryBurialIsReported, Claimable
<1>. QED
  BY <1>1, <1>2, <1>3, <1>4 DEF IInv

LEMMA Inductive == TypeOK /\ IInv /\ [Next]_vars => TypeOK' /\ IInv'
<1>. SUFFICES ASSUME TypeOK, IInv, [Next]_vars PROVE TypeOK' /\ IInv'
  OBVIOUS
<1>1. TypeOK'
  BY TypeStep
<1>2. IInv'
  BY LockedStep, AbsentStep, DispatchedStep, UniqueStep, StrandedStep, BudgetStep, BurialStep
     DEF IInv
<1>. QED
  BY <1>1, <1>2

LEMMA Invariance == Spec => [](TypeOK /\ IInv)
  BY InitOK, Inductive, PTL DEF Spec

\* The variables keep their types.
THEOREM TypeCorrect == Spec => []TypeOK
  BY Invariance, PTL

\* A transaction that asserted its lease owns its row until it ends.
THEOREM Fencing == Spec => []LockedRowIsOwned
<1>1. IInv => LockedRowIsOwned
  BY DEF IInv
<1>. QED
  BY <1>1, Invariance, PTL

\* Two executions of a job never carry the same claim.
THEOREM UniqueClaims == Spec => []ClaimsAreUnique
<1>1. IInv => ClaimsAreUnique
  BY DEF IInv
<1>. QED
  BY <1>1, Invariance, PTL

\* A dispatcher publishes only open, due, undispatched rows that it has locked.
THEOREM OpenDispatch == Spec => []DispatchedRowIsOpen
<1>1. IInv => DispatchedRowIsOpen
  BY DEF IInv
<1>. QED
  BY <1>1, Invariance, PTL

\* Every open row is within reach of a scheduler query.
THEOREM NothingStranded == Spec => []NoJobStranded
<1>1. IInv => NoJobStranded
  BY DEF IInv
<1>. QED
  BY <1>1, Invariance, PTL

\* No job is run more often than its limit since it was enqueued or replayed.
THEOREM BudgetKept == Spec => []BudgetIsKept
<1>1. IInv => BudgetIsKept
  BY DEF IInv
<1>. QED
  BY <1>1, Invariance, PTL

\* Every burial leaves exactly one system_errors row.
THEOREM BurialsReported == Spec => []EveryBurialIsReported
<1>1. IInv => EveryBurialIsReported
  BY DEF IInv
<1>. QED
  BY <1>1, Invariance, PTL

\* A success is final, and only a replay leaves a dead letter.
THEOREM FinalityOfOutcomes == Spec => OutcomesAreFinal
<1>1. TypeOK /\ IInv /\ [Next]_vars => [FinalOutcomes]_vars
  BY FinalStep DEF IInv
<1>. QED
  BY <1>1, Invariance, PTL DEF Spec, OutcomesAreFinal

\* A running job ends by the execution with its claim, or after its lease expired.
THEOREM EndsByOwner == Spec => RunsEndByTheirOwner
<1>1. TypeOK /\ IInv /\ [Next]_vars => [EndByOwner]_vars
  BY OwnerStep DEF IInv
<1>. QED
  BY <1>1, Invariance, PTL DEF Spec, RunsEndByTheirOwner

-----------------------------------------------------------------------------
(* JobRuntime implements JobLedger for any sets of jobs, workers and schedulers: *)
(* every step of the runtime is an action of the ledger or leaves the ledger     *)
(* alone.  ClaimsAreUnique is what makes an execution that ends its job the only *)
(* current one, DispatchedRowIsOpen what makes a dispatcher's commit invisible.  *)

\* What the ledger shows of the runtime is unchanged.
Unseen ==
  /\ \A j \in Job : Phase(status[j])' = Phase(status[j])
  /\ \A w \in Worker : Holds(w)' = Holds(w) /\ Current(w)' = Current(w)

-----------------------------------------------------------------------------
(* Steps of the ledger, job by job and worker by worker *)

\* A step that no job and no worker shows is a stutter of the ledger.
LEMMA Invisible == ASSUME Unseen PROVE UNCHANGED Ledger!ledgerVars
<1>1. UNCHANGED phases
  BY DEF Unseen, phases
<1>2. UNCHANGED holdings
  BY DEF Unseen, holdings
<1>3. UNCHANGED currents
  BY DEF Unseen, currents
<1>. QED
  BY <1>1, <1>2, <1>3 DEF Ledger!ledgerVars

\* The status of one job changes and no execution sees it: the ledger opens it.
LEMMA Opens ==
  ASSUME NEW j \in Job,
         Phase(status[j]) \in {"absent", "dead"},
         Phase(status[j])' = "open",
         \A i \in Job \ {j} : Phase(status[i])' = Phase(status[i]),
         \A w \in Worker : Holds(w)' = Holds(w) /\ Current(w)' = Current(w)
  PROVE  Ledger!LedgerNext
<1>1. phases' = [phases EXCEPT ![j] = "open"]
  BY DEF phases
<1>2. UNCHANGED <<holdings, currents>>
  BY DEF holdings, currents
<1>3. phases[j] \in {"absent", "dead"}
  BY DEF phases
<1>. QED
  BY <1>1, <1>2, <1>3 DEF Ledger!LedgerNext, Ledger!Open

\* A worker takes an open job.
LEMMA Grants ==
  ASSUME NEW j \in Job, NEW w \in Worker,
         Phase(status[j]) = "open",
         Phase(status[j])' = "held",
         \A i \in Job \ {j} : Phase(status[i])' = Phase(status[i]),
         Holds(w) = None, Holds(w)' = j, Current(w)' = TRUE,
         \A v \in Worker \ {w} : Holds(v)' = Holds(v) /\ Current(v)' = Current(v)
  PROVE  Ledger!LedgerNext
<1>1. phases[j] = "open" /\ phases' = [phases EXCEPT ![j] = "held"]
  BY DEF phases
<1>2. holdings[w] = None /\ holdings' = [holdings EXCEPT ![w] = j]
  BY DEF holdings
<1>3. currents' = [currents EXCEPT ![w] = TRUE]
  BY DEF currents
<1>. QED
  BY <1>1, <1>2, <1>3 DEF Ledger!LedgerNext, Ledger!Grant

\* A worker leaves its job, with or without a decision on it.
LEMMA Releases ==
  ASSUME NEW w \in Worker,
         Holds(w)' = None, Current(w)' = FALSE,
         \A v \in Worker \ {w} : Holds(v)' = Holds(v) /\ Current(v)' = Current(v)
  PROVE  Ledger!Release(w)
<1>1. holdings' = [holdings EXCEPT ![w] = None]
  BY DEF holdings
<1>2. currents' = [currents EXCEPT ![w] = FALSE]
  BY DEF currents
<1>. QED
  BY <1>1, <1>2 DEF Ledger!Release

LEMMA Decides ==
  ASSUME NEW j \in Job, NEW w \in Worker, NEW end \in Ledger!Ending,
         Holds(w) = j, Current(w),
         Phase(status[j])' = end,
         \A i \in Job \ {j} : Phase(status[i])' = Phase(status[i]),
         Holds(w)' = None, Current(w)' = FALSE,
         \A v \in Worker \ {w} : Holds(v)' = Holds(v) /\ Current(v)' = Current(v)
  PROVE  Ledger!LedgerNext
<1>1. holdings[w] = j /\ currents[w]
  BY DEF holdings, currents
<1>2. phases' = [phases EXCEPT ![j] = end]
  BY DEF phases
<1>3. Ledger!Release(w)
  BY Releases
<1>. QED
  BY <1>1, <1>2, <1>3 DEF Ledger!LedgerNext, Ledger!Decide

LEMMA Abandons ==
  ASSUME NEW w \in Worker,
         Holds(w) \in Job,
         \A i \in Job : Phase(status[i])' = Phase(status[i]),
         Holds(w)' = None, Current(w)' = FALSE,
         \A v \in Worker \ {w} : Holds(v)' = Holds(v) /\ Current(v)' = Current(v)
  PROVE  Ledger!LedgerNext
<1>1. holdings[w] # None
  BY DEF holdings
<1>2. UNCHANGED phases
  BY DEF phases
<1>3. Ledger!Release(w)
  BY Releases
<1>. QED
  BY <1>1, <1>2, <1>3 DEF Ledger!LedgerNext, Ledger!Abandon

\* Jobs are taken from their executions.
LEMMA Revokes ==
  ASSUME NEW B \in SUBSET Job, NEW ends \in [B -> {"open", "dead"}],
         \A j \in B : Phase(status[j]) = "held" /\ Phase(status[j])' = ends[j],
         \A i \in Job \ B : Phase(status[i])' = Phase(status[i]),
         \A w \in Worker : Holds(w)' = Holds(w),
         \A w \in Worker : Current(w)' = (Current(w) /\ Holds(w) \notin B)
  PROVE  Ledger!LedgerNext
<1>1. \A j \in DOMAIN ends : phases[j] = "held" /\ ends[j] # "done"
  BY DEF phases
<1>2. phases' = [j \in Job |-> IF j \in DOMAIN ends THEN ends[j] ELSE phases[j]]
  BY DEF phases
<1>3. UNCHANGED holdings
  BY DEF holdings
<1>4. \A w \in Worker : currents[w] = Current(w) /\ holdings[w] = Holds(w)
  BY DEF currents, holdings
<1>5. currents' = [w \in Worker |-> Current(w)']
  BY DEF currents
<1>6. currents' = [w \in Worker |-> currents[w] /\ holdings[w] \notin DOMAIN ends]
  BY <1>4, <1>5
<1>7. ends \in [B -> Ledger!Ending]
  BY DEF Ledger!Ending
<1>8. Ledger!Revoke(ends)
  BY <1>1, <1>2, <1>3, <1>6 DEF Ledger!Revoke
<1>. QED
  BY <1>7, <1>8 DEF Ledger!LedgerNext

-----------------------------------------------------------------------------
(* Steps of the runtime *)

LEMMA ProducerRefines ==
  ASSUME TypeOK, ProducerStep PROVE Ledger!LedgerNext
<1>. USE DEF Phase, Holds, Current, Claimable, Terminal, Status, Active, Raised
<1>1. ASSUME NEW j \in Job, Enqueue(j) PROVE Ledger!LedgerNext
  <2>1. /\ status[j] = "absent" /\ status' = [status EXCEPT ![j] = "pending"]
        /\ UNCHANGED <<pc, task, claim, epoch>>
    BY <1>1 DEF Enqueue
  <2>2. Phase(status[j]) \in {"absent", "dead"} /\ Phase(status[j])' = "open"
    BY <2>1 DEF TypeOK
  <2>3. \A i \in Job \ {j} : Phase(status[i])' = Phase(status[i])
    BY <2>1 DEF TypeOK
  <2>4. \A w \in Worker : Holds(w)' = Holds(w) /\ Current(w)' = Current(w)
    BY <2>1 DEF TypeOK
  <2>. QED
    BY <2>2, <2>3, <2>4, Opens
<1>2. ASSUME NEW j \in Job, ReplayDeadLetter(j) PROVE Ledger!LedgerNext
  <2>1. /\ status[j] = "dead_letter" /\ status' = [status EXCEPT ![j] = "retry"]
        /\ UNCHANGED <<pc, task, claim, epoch>>
    BY <1>2 DEF ReplayDeadLetter, Requeue
  <2>2. Phase(status[j]) \in {"absent", "dead"} /\ Phase(status[j])' = "open"
    BY <2>1 DEF TypeOK
  <2>3. \A i \in Job \ {j} : Phase(status[i])' = Phase(status[i])
    BY <2>1 DEF TypeOK
  <2>4. \A w \in Worker : Holds(w)' = Holds(w) /\ Current(w)' = Current(w)
    BY <2>1 DEF TypeOK
  <2>. QED
    BY <2>2, <2>3, <2>4, Opens
<1>. QED
  BY <1>1, <1>2 DEF ProducerStep

\* The scheduler's recovery of jobs is a revocation, its other steps are invisible.
LEMMA SchedulerRefines ==
  ASSUME TypeOK, DispatchedRowIsOpen, NEW s \in Scheduler, SchedulerStep(s)
  PROVE  Ledger!LedgerNext \/ UNCHANGED Ledger!ledgerVars
<1>. USE DEF Phase, Holds, Current, Claimable, Terminal, Status, Active, Raised
<1>1. CASE RecoverStaleJobs(s)
  <2>1. PICK B \in Batches(StaleJobs) :
          status' = [j \in Job |-> IF j \in {i \in B : Exhausted(i)} THEN "dead_letter"
                                   ELSE IF j \in B \ {i \in B : Exhausted(i)} THEN "retry"
                                   ELSE status[j]]
    BY <1>1 DEF RecoverStaleJobs
  <2>2. B \subseteq Job /\ \A j \in B : status[j] = "running"
    BY DEF Batches, StaleJobs
  <2>3. UNCHANGED <<pc, task, claim, epoch>>
    BY <1>1 DEF RecoverStaleJobs
  <2>. DEFINE ends == [j \in B |-> IF Exhausted(j) THEN "dead" ELSE "open"]
  <2>4. ends \in [B -> {"open", "dead"}]
    OBVIOUS
  <2>5. \A j \in B : Phase(status[j]) = "held" /\ Phase(status[j])' = ends[j]
    BY <2>1, <2>2
  <2>6. \A i \in Job \ B : Phase(status[i])' = Phase(status[i])
    BY <2>1
  <2>7. \A w \in Worker : Holds(w)' = Holds(w)
    BY <2>3
  <2>8. \A w \in Worker : Current(w)' = (Current(w) /\ Holds(w) \notin B)
    BY <2>1, <2>2, <2>3 DEF TypeOK
  <2>9. B \in SUBSET Job
    BY <2>2
  <2>. HIDE DEF ends, Phase, Holds, Current
  <2>. QED
    BY <2>4, <2>5, <2>6, <2>7, <2>8, <2>9, Revokes
<1>2. CASE CommitDispatch(s)
  <2>1. picked[s] \in Job /\ status[picked[s]] \in Claimable \cup {"running"}
    BY <1>2 DEF CommitDispatch, DispatchedRowIsOpen, TypeOK
  <2>2. /\ status' = [status EXCEPT ![picked[s]] = Dispatched(picked[s])]
        /\ UNCHANGED <<pc, task, claim, epoch>>
    BY <1>2 DEF CommitDispatch
  <2>3. Dispatched(picked[s]) = IF status[picked[s]] = "running" THEN "running" ELSE "queued"
    BY <2>1 DEF Dispatched
  <2>4. Unseen
    BY <2>1, <2>2, <2>3 DEF Unseen, TypeOK
  <2>. QED
    BY <2>4, Invisible
<1>3. ASSUME UNCHANGED <<status, pc, task, claim, epoch>> PROVE UNCHANGED Ledger!ledgerVars
  BY <1>3, Invisible DEF Unseen
<1>4. CASE BeginCycle(s) \/ RecoverStaleWakeups(s) \/ EndCycle(s) \/ AbortCycle(s)
  BY <1>3, <1>4 DEF BeginCycle, RecoverStaleWakeups, EndCycle, AbortCycle
<1>5. CASE LockDue(s) \/ CloseOutbox(s) \/ Publish(s) \/ PublishFails(s)
  BY <1>3, <1>5 DEF LockDue, CloseOutbox, Publish, PublishFails
<1>. QED
  BY <1>1, <1>2, <1>4, <1>5 DEF SchedulerStep

\* Renewals and time are invisible.
LEMMA TimeRefines ==
  ASSUME RenewalStep \/ Environment PROVE UNCHANGED Ledger!ledgerVars
<1>1. UNCHANGED <<status, pc, task, claim, epoch>>
  BY DEF RenewalStep, Environment, ApplyRenewal, RefuseRenewal, LoseWakeup, BecomesDue,
         BackoffEnds, LeaseExpires, WakeupExpires
<1>. QED
  BY <1>1, Invisible DEF Unseen, Phase, Holds, Current

\* A worker that leaves process_one shows in the ledger only by itself.
LEMMA Leaving ==
  ASSUME TypeOK, NEW w \in Worker, Leave(w), UNCHANGED epoch,
         \A v \in Worker \ {w} :
           pc[v] \in Active => (status'[task[v]] = "running" /\ claim[v] = epoch[task[v]]
                                 <=> status[task[v]] = "running" /\ claim[v] = epoch[task[v]])
  PROVE  /\ Holds(w)' = None /\ Current(w)' = FALSE
         /\ \A v \in Worker \ {w} : Holds(v)' = Holds(v) /\ Current(v)' = Current(v)
BY DEF Leave, TypeOK, Holds, Current, Active, Raised

\* The end of an execution that owns its job decides it.
LEMMA SettlingRefines ==
  ASSUME TypeOK, ClaimsAreUnique, NEW w \in Worker, Executes(w, task[w]), OwnsJob(w, task[w]),
         NEW next \in {"succeeded", "dead_letter", "retry"},
         status' = [status EXCEPT ![task[w]] = next], Leave(w), UNCHANGED epoch
  PROVE  Ledger!LedgerNext
<1>1. PICK j \in Job : j = task[w] /\ Holds(w) = j /\ Current(w)
  BY DEF Executes, OwnsJob, TypeOK, Holds, Current, Active, Raised
<1>2. Phase(status[j])' \in Ledger!Ending
  BY <1>1 DEF TypeOK, Phase, Claimable, Ledger!Ending
<1>3. \A i \in Job \ {j} : Phase(status[i])' = Phase(status[i])
  BY <1>1 DEF TypeOK, Phase, Claimable
<1>4. \A v \in Worker \ {w} :
        pc[v] \in Active => (status'[task[v]] = "running" /\ claim[v] = epoch[task[v]]
                              <=> status[task[v]] = "running" /\ claim[v] = epoch[task[v]])
  <2>. SUFFICES ASSUME NEW v \in Worker \ {w}, pc[v] \in Active
                PROVE  status'[task[v]] = "running" /\ claim[v] = epoch[task[v]]
                         <=> status[task[v]] = "running" /\ claim[v] = epoch[task[v]]
    OBVIOUS
  <2>1. task[v] \in Job
    BY DEF TypeOK, Active, Raised
  <2>2. CASE task[v] = j
    BY <1>1, <2>1, <2>2 DEF ClaimsAreUnique, Executes, OwnsJob, TypeOK
  <2>3. CASE task[v] # j
    BY <1>1, <2>1, <2>3 DEF TypeOK
  <2>. QED
    BY <2>2, <2>3
<1>5. /\ Holds(w)' = None /\ Current(w)' = FALSE
      /\ \A v \in Worker \ {w} : Holds(v)' = Holds(v) /\ Current(v)' = Current(v)
  BY <1>4, Leaving
<1>. QED
  BY <1>1, <1>2, <1>3, <1>5, Decides

\* An execution that leaves its job as it is abandons it; an idle wake-up is nothing.
LEMMA LeavingRefines ==
  ASSUME TypeOK, NEW w \in Worker, pc[w] # "idle", Leave(w), UNCHANGED <<status, epoch>>
  PROVE  Ledger!LedgerNext \/ UNCHANGED Ledger!ledgerVars
<1>1. /\ Holds(w)' = None /\ Current(w)' = FALSE
      /\ \A v \in Worker \ {w} : Holds(v)' = Holds(v) /\ Current(v)' = Current(v)
  <2>1. \A v \in Worker : status'[task[v]] = status[task[v]]
    OBVIOUS
  <2>. QED
    BY <2>1, Leaving
<1>2. \A i \in Job : Phase(status[i])' = Phase(status[i])
  BY DEF Phase
<1>3. CASE pc[w] \in Active
  <2>1. Holds(w) \in Job
    BY <1>3 DEF Holds, TypeOK, Active, Raised
  <2>. QED
    BY <1>1, <1>2, <2>1, Abandons
<1>4. CASE pc[w] \notin Active
  <2>1. Holds(w) = None /\ Current(w) = FALSE
    BY <1>4 DEF Holds, Current
  <2>2. Unseen
    BY <1>1, <1>2, <2>1 DEF Unseen
  <2>. QED
    BY <2>2, Invisible
<1>. QED
  BY <1>3, <1>4

LEMMA WorkerRefines ==
  ASSUME TypeOK, ClaimsAreUnique, NEW w \in Worker, WorkerStep(w)
  PROVE  Ledger!LedgerNext \/ UNCHANGED Ledger!ledgerVars
<1>1. CASE Claim(w)
  <2>1. PICK j \in Job :
        /\ j = task[w] /\ status[j] \in Claimable /\ pc[w] = "popped"
        /\ status' = [status EXCEPT ![j] = "running"]
        /\ epoch' = [epoch EXCEPT ![j] = @ + 1]
        /\ pc' = [pc EXCEPT ![w] = "claimed"]
        /\ claim' = [claim EXCEPT ![w] = epoch[j] + 1]
        /\ UNCHANGED task
    BY <1>1 DEF Claim, ClaimableNow, NextEpoch, TypeOK
  <2>2. Phase(status[j]) = "open" /\ Phase(status[j])' = "held"
    BY <2>1 DEF TypeOK, Phase, Claimable
  <2>3. \A i \in Job \ {j} : Phase(status[i])' = Phase(status[i])
    BY <2>1 DEF TypeOK, Phase, Claimable
  <2>4. Holds(w) = None /\ Holds(w)' = j /\ Current(w)' = TRUE
    BY <2>1 DEF TypeOK, Holds, Current, Active, Raised
  <2>5. ASSUME NEW v \in Worker \ {w} PROVE Holds(v)' = Holds(v) /\ Current(v)' = Current(v)
    <3>1. Holds(v)' = Holds(v)
      BY <2>1 DEF TypeOK, Holds
    <3>2. CASE pc[v] \notin Active
      BY <2>1, <3>1, <3>2 DEF TypeOK, Current
    <3>3. CASE pc[v] \in Active /\ task[v] = j
      <4>1. claim[v] \in 1..epoch[j]
        BY <2>1, <3>3 DEF ClaimsAreUnique, Executes
      <4>2. claim[v]' # epoch[task[v]]' /\ status[task[v]] # "running"
        BY <2>1, <3>3, <4>1 DEF TypeOK, Claimable
      <4>. QED
        BY <3>1, <4>2 DEF Current
    <3>4. CASE pc[v] \in Active /\ task[v] # j
      BY <2>1, <3>1, <3>4 DEF TypeOK, Current, Active, Raised
    <3>. QED
      BY <3>1, <3>2, <3>3, <3>4
  <2>6. \A v \in Worker \ {w} : Holds(v)' = Holds(v) /\ Current(v)' = Current(v)
    BY <2>5
  <2>. QED
    BY <2>2, <2>3, <2>4, <2>6, Grants
<1>2. CASE Complete(w)
  BY <1>2, SettlingRefines DEF Complete, Close, HoldsLease, Executes, Active
<1>3. CASE Bury(w)
  BY <1>3, SettlingRefines DEF Bury, Close, Executes, Active, Raised
<1>4. CASE Retry(w) \/ Defer(w)
  BY <1>4, SettlingRefines DEF Retry, Defer, Requeue, Executes, Active, Raised
<1>5. CASE IgnoreWakeup(w) \/ LeaseLost(w) \/ SettleRefused(w) \/ CrashWorker(w)
  BY <1>5, LeavingRefines DEF IgnoreWakeup, LeaseLost, SettleRefused, CrashWorker, Raised
<1>6. ASSUME UNCHANGED <<status, claim, epoch>>,
             \A v \in Worker : /\ pc'[v] \in Active <=> pc[v] \in Active
                               /\ pc[v] \in Active => task'[v] = task[v]
      PROVE  UNCHANGED Ledger!ledgerVars
  <2>1. Unseen
    BY <1>6 DEF Unseen, Phase, Holds, Current
  <2>. QED
    BY <2>1, Invisible
<1>7. ASSUME NEW j \in Job, Pop(w, j) PROVE UNCHANGED Ledger!ledgerVars
  BY <1>6, <1>7 DEF Pop, TypeOK, Active, Raised
<1>8. ASSUME NEW kind \in Raised, Raise(w, kind) PROVE UNCHANGED Ledger!ledgerVars
  BY <1>6, <1>8 DEF Raise, TypeOK, Active, Raised
<1>9. CASE AssertLease(w)
  BY <1>6, <1>9 DEF AssertLease, TypeOK, Active, Raised
<1>10. CASE HandlerCommits(w) \/ SendRenewal(w) \/ KeeperFails(w)
  BY <1>6, <1>10 DEF HandlerCommits, SendRenewal, KeeperFails
<1>. QED
  BY <1>1, <1>2, <1>3, <1>4, <1>5, <1>7, <1>8, <1>9, <1>10 DEF WorkerStep, HandlerReturns, Settle

-----------------------------------------------------------------------------

LEMMA RefinementInit == Init => Ledger!LedgerInit
BY DEF Init, phases, holdings, currents, Phase, Holds, Current, Claimable, Active, Raised,
       Ledger!LedgerInit

LEMMA RefinementStep ==
  ASSUME TypeOK, ClaimsAreUnique, DispatchedRowIsOpen, [Next]_vars
  PROVE  [Ledger!LedgerNext]_(Ledger!ledgerVars)
<1>1. CASE ProducerStep
  BY <1>1, ProducerRefines
<1>2. ASSUME NEW s \in Scheduler, SchedulerStep(s) PROVE [Ledger!LedgerNext]_(Ledger!ledgerVars)
  BY <1>2, SchedulerRefines
<1>3. ASSUME NEW w \in Worker, WorkerStep(w) PROVE [Ledger!LedgerNext]_(Ledger!ledgerVars)
  BY <1>3, WorkerRefines
<1>4. CASE RenewalStep \/ Environment
  BY <1>4, TimeRefines
<1>5. CASE UNCHANGED vars
  BY <1>5, Invisible DEF vars, Unseen, Phase, Holds, Current
<1>. QED
  BY <1>1, <1>2, <1>3, <1>4, <1>5 DEF Next

\* The runtime implements the ledger its callers and handlers rely on: a job is held
\* by at most one current execution, and only that one ends it unless it is revoked.
THEOREM RuntimeImplementsLedger == Spec => ImplementsLedger
<1>1. Init => Ledger!LedgerInit
  BY RefinementInit
<1>2. TypeOK /\ IInv /\ [Next]_vars => [Ledger!LedgerNext]_(Ledger!ledgerVars)
  BY RefinementStep DEF IInv
<1>. QED
  BY <1>1, <1>2, Invariance, PTL DEF Spec, ImplementsLedger, Ledger!LedgerSpec

=============================================================================
