------------------------------ MODULE Onboarding ------------------------------
(***************************************************************************)
(* The provisioning of one tenant (services/onboarding.py): a saga of      *)
(* steps that operators drive with requests, each request carrying the     *)
(* revision of the saga its operator saw.  A request that asks a provider  *)
(* releases the row of the saga while it waits and locks it again after.   *)
(*                                                                         *)
(* A request that is repeated with its idempotency key changes nothing,    *)
(* like one with an old revision, so keys are left out.  The production    *)
(* configuration is modelled: real providers, and a Hermes profile.        *)
(***************************************************************************)
EXTENDS Integers, FiniteSets

CONSTANTS
  Operator,     \* operators, each with at most one request under way
  MaxRevision,  \* bound: changes of the saga
  MaxAttempt,   \* bound: initial syncs
  MaxBoundary   \* bound: replacements of the store boundary

VARIABLES
  saga,      \* the row of tenant_onboardings
  tenant,    \* the tenant's status
  reachable, \* the owner's identity is approved and not opted out
  boundary,  \* revision of the store boundary, 0: no connection
  job,       \* of each attempt: the sync job with its run
  profile,   \* status of the Hermes profile
  request    \* of each operator: the request that waits for a provider

vars == <<saga, tenant, reachable, boundary, job, profile, request>>

Step == <<"owner", "phone", "bumpa", "initial_sync", "hermes", "review", "completed">>
Steps == {Step[i] : i \in 1..7}
Attempt == 1..MaxAttempt

SagaRow == [step : Steps, status : {"in_progress", "attention_required", "completed"},
            revision : 0..MaxRevision, failure : Steps \cup {"none"},
            attempt : 0..MaxAttempt, run : 0..MaxAttempt]

Idle == [at |-> "none"]
Profiles == {"none", "provisioning", "active", "degraded"}
Waiting == [at : {"bumpa", "sync", "hermes", "complete"}, saga : SagaRow, profile : Profiles]

TypeOK ==
  /\ saga \in SagaRow
  /\ tenant \in {"provisioning", "active", "suspended"}
  /\ reachable \in BOOLEAN
  /\ boundary \in 0..MaxBoundary
  /\ job \in [Attempt -> [status : {"none", "open", "usable", "unusable", "failed"},
                          boundary : 0..MaxBoundary]]
  /\ profile \in Profiles
  /\ request \in [Operator -> {Idle} \cup Waiting]

\* start: the tenant and its saga.
Init ==
  /\ saga = [step |-> "owner", status |-> "in_progress", revision |-> 0, failure |-> "none",
             attempt |-> 0, run |-> 0]
  /\ tenant = "provisioning"
  /\ reachable = FALSE
  /\ boundary = 0
  /\ job = [n \in Attempt |-> [status |-> "none", boundary |-> 0]]
  /\ profile = "none"
  /\ request = [o \in Operator |-> Idle]

-----------------------------------------------------------------------------
(* The saga. *)

Room == saga.revision < MaxRevision

\* _require_step on the locked row.
RequireStep(step, revision) == saga.step = step /\ saga.revision = revision

\* _record_command: it clears a failure.
Recorded(row) ==
  [row EXCEPT !.revision = @ + 1, !.failure = "none",
              !.status = IF @ = "completed" THEN @ ELSE "in_progress"]

Advanced(row, next) == Recorded([row EXCEPT !.step = next])

\* _mark_failure.
Marked(row, step) ==
  [row EXCEPT !.status = "attention_required", !.failure = step, !.revision = @ + 1]

\* _persist_failure: only while the saga is at the step that failed.
PersistFailure(step) ==
  saga' = IF saga.step = step THEN Marked(saga, step) ELSE saga

\* The request lets go of the row, and remembers what it loaded.
Begin(o, at) ==
  /\ request[o] = Idle
  /\ Room
  /\ request' = [request EXCEPT ![o] = [at |-> at, saga |-> saga', profile |-> profile']]

Ends(o) == request' = [request EXCEPT ![o] = Idle]

\* Mutant of Holds: the row is not checked a second time.
HoldsOnce(o, step) == TRUE

\* The row is locked again, and nothing happened to the saga meanwhile.
Holds(o, step) == RequireStep(step, request[o].saga.revision)

-----------------------------------------------------------------------------
(* Owner, phone, store. *)

SetOwner ==
  /\ saga.step = "owner" /\ Room
  /\ saga' = Advanced(saga, "phone")
  /\ UNCHANGED <<tenant, reachable, boundary, job, profile, request>>

ApprovePhone ==
  /\ saga.step = "phone" /\ Room
  /\ saga' = Advanced(saga, "bumpa")
  /\ reachable' = TRUE
  /\ UNCHANGED <<tenant, boundary, job, profile, request>>

BeginBumpa(o) ==
  /\ saga.step = "bumpa"
  /\ UNCHANGED <<saga, tenant, reachable, boundary, job, profile>>
  /\ Begin(o, "bumpa")

\* The provider accepts the key.  A connection with another boundary is a conflict;
\* one with the same boundary keeps its revision.
Connect(o, same) ==
  /\ request[o].at = "bumpa" /\ Room
  /\ Ends(o)
  /\ IF Holds(o, "bumpa") /\ (boundary = 0 \/ same)
     THEN /\ saga' = Advanced(saga, "initial_sync")
          /\ boundary' = IF boundary = 0 THEN 1 ELSE boundary
     ELSE UNCHANGED <<saga, boundary>>
  /\ UNCHANGED <<tenant, reachable, job, profile>>

ConnectFails(o) ==
  /\ request[o].at = "bumpa" /\ Room
  /\ Ends(o)
  /\ PersistFailure("bumpa")
  /\ UNCHANGED <<tenant, reachable, boundary, job, profile>>

-----------------------------------------------------------------------------
(* The initial sync. *)

\* _usable_run_for_job.
Usable(n) == job[n].status = "usable" /\ job[n].boundary = boundary

MayRetry == saga.attempt # 0 => job[saga.attempt].status # "open" /\ ~Usable(saga.attempt)

BeginSync(o) ==
  /\ saga.step = "initial_sync" /\ MayRetry
  /\ UNCHANGED <<saga, tenant, reachable, boundary, job, profile>>
  /\ Begin(o, "sync")

TriggerSync(o) ==
  LET n == saga.attempt + 1
  IN /\ request[o].at = "sync" /\ Room
     /\ saga.attempt < MaxAttempt
     /\ Ends(o)
     /\ IF Holds(o, "initial_sync") /\ MayRetry
        THEN /\ saga' = Recorded([saga EXCEPT !.attempt = n, !.run = 0])
             /\ job' = [job EXCEPT ![n] = [status |-> "open", boundary |-> boundary]]
        ELSE UNCHANGED <<saga, job>>
     /\ UNCHANGED <<tenant, reachable, boundary, profile>>

\* The services the runtime needs are not ready: nothing is recorded.
Unready(o) ==
  /\ request[o].at \in {"sync", "complete"}
  /\ Ends(o)
  /\ UNCHANGED <<saga, tenant, reachable, boundary, job, profile>>

\* The worker finishes a job; one whose boundary was replaced has no usable run.
JobEnds(n, status) ==
  /\ job[n].status = "open"
  /\ status = "usable" => job[n].boundary = boundary
  /\ job' = [job EXCEPT ![n].status = status]
  /\ UNCHANGED <<saga, tenant, reachable, boundary, profile, request>>

AcceptSync ==
  /\ saga.step = "initial_sync" /\ Room
  /\ saga.attempt # 0 /\ job[saga.attempt].status # "open"
  /\ saga' = IF Usable(saga.attempt)
             THEN Advanced([saga EXCEPT !.run = saga.attempt], "hermes")
             ELSE Marked(saga, "initial_sync")
  /\ UNCHANGED <<tenant, reachable, boundary, job, profile, request>>

-----------------------------------------------------------------------------
(* The Hermes profile. *)

\* It commits the reservation of the profile before it asks the control service.
BeginHermes(o) ==
  /\ saga.step = "hermes"
  /\ profile' = IF profile = "none" THEN "provisioning" ELSE profile
  /\ UNCHANGED <<saga, tenant, reachable, boundary, job>>
  /\ Begin(o, "hermes")

Activated(o) ==
  /\ request[o].at = "hermes" /\ Room
  /\ Ends(o)
  /\ IF Holds(o, "hermes")
     THEN /\ saga' = Advanced(saga, "review")
          /\ profile' = "active"
     ELSE UNCHANGED <<saga, profile>>
  /\ UNCHANGED <<tenant, reachable, boundary, job>>

\* What the ORM writes of a row that it loaded earlier and does not load again: the
\* columns that changed.
Flushed(row, loaded, new) ==
  [f \in DOMAIN row |-> IF new[f] # loaded[f] THEN new[f] ELSE row[f]]

\* Mutant of Consistent: the table has no such constraint.
Unconstrained(row) == TRUE

\* ck_tenant_onboardings_completion_state.
Consistent(row) == row.status = "completed" <=> row.step = "completed"

\* The commit left the session without a transaction, so its rollback expires nothing:
\* the failure is written over the row as it was loaded before the call.
ActivationFails(o) ==
  LET loaded == request[o].saga
      row == Flushed(saga, loaded, Marked(loaded, "hermes"))
  IN /\ request[o].at = "hermes" /\ Room
     /\ Ends(o)
     /\ IF Consistent(row)
        THEN /\ saga' = row
             /\ profile' = IF request[o].profile = "degraded" THEN profile ELSE "degraded"
        ELSE UNCHANGED <<saga, profile>>
     /\ UNCHANGED <<tenant, reachable, boundary, job>>

-----------------------------------------------------------------------------
(* Completion. *)

BeginComplete(o) ==
  /\ saga.step = "review"
  /\ UNCHANGED <<saga, tenant, reachable, boundary, job, profile>>
  /\ Begin(o, "complete")

\* _completion_resources, after the profile was activated once more.
Complete(o) ==
  /\ request[o].at = "complete" /\ Room
  /\ Ends(o)
  /\ IF Holds(o, "review") /\ tenant = "provisioning" /\ reachable
        /\ saga.run # 0 /\ saga.run = saga.attempt /\ Usable(saga.run)
     THEN /\ saga' = Recorded([saga EXCEPT !.step = "completed", !.status = "completed"])
          /\ tenant' = "active"
          /\ profile' = "active"
     ELSE UNCHANGED <<saga, tenant, profile>>
  /\ UNCHANGED <<reachable, boundary, job>>

CompletionFails(o) ==
  /\ request[o].at = "complete" /\ Room
  /\ Ends(o)
  /\ PersistFailure("review")
  /\ UNCHANGED <<tenant, reachable, boundary, job, profile>>

-----------------------------------------------------------------------------
(* Other routes of the administration, which take no notice of the saga. *)

ReplaceConnection ==
  /\ boundary < MaxBoundary
  /\ boundary' = boundary + 1
  /\ UNCHANGED <<saga, tenant, reachable, job, profile, request>>

OptOut ==
  /\ reachable
  /\ reachable' = FALSE
  /\ UNCHANGED <<saga, tenant, boundary, job, profile, request>>

\* create_profile on a profile that is reserved.
Reactivate(end) ==
  /\ profile # "none"
  /\ profile' = end
  /\ UNCHANGED <<saga, tenant, reachable, boundary, job, request>>

PatchTenant(status) ==
  /\ tenant' = status
  /\ UNCHANGED <<saga, reachable, boundary, job, profile, request>>

\* The process dies with a request under way.
Crash(o) ==
  /\ request[o] # Idle
  /\ Ends(o)
  /\ UNCHANGED <<saga, tenant, reachable, boundary, job, profile>>

Next ==
  \/ SetOwner \/ ApprovePhone \/ AcceptSync \/ ReplaceConnection \/ OptOut
  \/ \E o \in Operator :
       \/ BeginBumpa(o) \/ ConnectFails(o) \/ \E same \in BOOLEAN : Connect(o, same)
       \/ BeginSync(o) \/ TriggerSync(o) \/ Unready(o)
       \/ BeginHermes(o) \/ Activated(o) \/ ActivationFails(o)
       \/ BeginComplete(o) \/ Complete(o) \/ CompletionFails(o) \/ Crash(o)
  \/ \E n \in Attempt, status \in {"usable", "unusable", "failed"} : JobEnds(n, status)
  \/ \E end \in {"active", "degraded"} : Reactivate(end)
  \/ \E status \in {"active", "suspended"} : PatchTenant(status)

Spec == Init /\ [][Next]_vars

-----------------------------------------------------------------------------
\* However the requests of several operators and their providers' answers interleave,
\* the saga moves one step at a time and never back, and once it is completed no late
\* failure of an overtaken request makes it ask for attention again.
StepsInOrder ==
  [][/\ saga'.step # saga.step =>
          \E i \in 1..6 : saga.step = Step[i] /\ saga'.step = Step[i + 1]
     /\ saga.step = "completed" => saga'.status = "completed"]_vars

=============================================================================
