------------------------ MODULE JobRuntimeRefinement ------------------------
(***************************************************************************)
(* JobRuntime implements JobLedger: statuses are collapsed to phases, and a *)
(* worker holds a job from the commit of claim_job until it leaves         *)
(* process_one, current while the row carries its claim epoch.             *)
(***************************************************************************)
EXTENDS JobRuntime

Phase(state) ==
  IF state \in Claimable THEN "open"
  ELSE IF state = "running" THEN "held"
  ELSE IF state = "succeeded" THEN "done"
  ELSE IF state = "dead_letter" THEN "dead"
  ELSE "absent"

Holds(w) == IF pc[w] \in Active THEN task[w] ELSE None

Current(w) ==
  /\ pc[w] \in Active
  /\ status[task[w]] = "running"
  /\ claim[w] = epoch[task[w]]

phases   == [j \in Job |-> Phase(status[j])]
holdings == [w \in Worker |-> Holds(w)]
currents == [w \in Worker |-> Current(w)]

Ledger == INSTANCE JobLedger WITH
  phase <- phases, holds <- holdings, current <- currents

\* Leases, wake-ups, retries, crashes and recoveries of the runtime are invisible
\* to its users: they see jobs held by one current execution after the other, each
\* ended by that execution or revoked.
ImplementsLedger == Ledger!LedgerSpec

=============================================================================
