------------------------------ MODULE JobLedger ------------------------------
(***************************************************************************)
(* What the job runtime promises to the code that enqueues jobs and to the *)
(* handlers that run them, without rows, wake-ups, claim numbers, leases   *)
(* or clocks: a job is held by at most one current execution, an execution *)
(* may go on after its job was taken from it, and only a current one       *)
(* decides what becomes of the job.                                        *)
(***************************************************************************)

CONSTANTS Job, Worker, None

VARIABLES
  phase,   \* absent, open, held, done or dead, for each job
  holds,   \* the job each worker is executing, or None
  current  \* whether the job is still its own

ledgerVars == <<phase, holds, current>>

Ending == {"open", "done", "dead"}

LedgerTypeOK ==
  /\ phase \in [Job -> {"absent", "held"} \cup Ending]
  /\ holds \in [Worker -> Job \cup {None}]
  /\ current \in [Worker -> BOOLEAN]

LedgerInit ==
  /\ phase = [j \in Job |-> "absent"]
  /\ holds = [w \in Worker |-> None]
  /\ current = [w \in Worker |-> FALSE]

\* An accepted job is open, and an operator may reopen a dead one.
Open(j) ==
  /\ phase[j] \in {"absent", "dead"}
  /\ phase' = [phase EXCEPT ![j] = "open"]
  /\ UNCHANGED <<holds, current>>

Grant(w, j) ==
  /\ phase[j] = "open"
  /\ holds[w] = None
  /\ phase' = [phase EXCEPT ![j] = "held"]
  /\ holds' = [holds EXCEPT ![w] = j]
  /\ current' = [current EXCEPT ![w] = TRUE]

Release(w) ==
  /\ holds' = [holds EXCEPT ![w] = None]
  /\ current' = [current EXCEPT ![w] = FALSE]

\* The current execution decides: the job is done, dead, or open again.
Decide(w, end) ==
  /\ current[w]
  /\ phase' = [phase EXCEPT ![holds[w]] = end]
  /\ Release(w)

\* An execution ends with no say in its job: overtaken, or its worker crashed.
Abandon(w) ==
  /\ holds[w] # None
  /\ Release(w)
  /\ UNCHANGED phase

\* Held jobs are taken back, never as done, without waiting for their executions;
\* ends gives what becomes of each.
Revoke(ends) ==
  /\ \A j \in DOMAIN ends : phase[j] = "held" /\ ends[j] # "done"
  /\ phase' = [j \in Job |-> IF j \in DOMAIN ends THEN ends[j] ELSE phase[j]]
  /\ current' = [w \in Worker |-> current[w] /\ holds[w] \notin DOMAIN ends]
  /\ UNCHANGED holds

LedgerNext ==
  \/ \E j \in Job : Open(j)
  \/ \E w \in Worker, j \in Job : Grant(w, j)
  \/ \E w \in Worker : Abandon(w) \/ \E end \in Ending : Decide(w, end)
  \/ \E jobs \in SUBSET Job : \E ends \in [jobs -> Ending] : Revoke(ends)

LedgerSpec == LedgerInit /\ [][LedgerNext]_ledgerVars

=============================================================================
