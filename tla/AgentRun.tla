------------------------------- MODULE AgentRun -------------------------------
(***************************************************************************)
(* One turn of the agent, from the message of a person to the accepted     *)
(* answer: services/chat.py, services/agent_execution.py, and, for a turn  *)
(* that was interrupted, services/run_recovery.py and                      *)
(* services/run_reconciliation.py.                                         *)
(*                                                                         *)
(* A turn has one durable run.  A conversation points at its active run,   *)
(* and nobody else may start one before the pointer is cleared: by the     *)
(* answer, by a failure, by /new, or by a reconciliation, of the retried   *)
(* job of the turn or of a sweep.  Turns of WhatsApp and sweeps are jobs   *)
(* of JobLedger; a web request is served once and has no lease to lose.    *)
(*                                                                         *)
(* reconcile_epoch is compared only for equality with the number a claim   *)
(* carries, and only while the run is reconciling: claimant[t] is then the *)
(* execution whose claim carries the epoch of the run, every other claim   *)
(* on it is lost, and otherwise it is None.  expires_at is compared only   *)
(* while the run is open: expired[t] is FALSE for a run that is not.       *)
(***************************************************************************)
EXTENDS Naturals

CONSTANTS
  Turn,          \* inbound messages of one person, one run each
  Web,           \* those that come in a web request; the others are jobs
  Sweep,         \* system.reconcile_expired_runs jobs, one key per minute
  Worker,        \* worker processes and request threads
  Conversation,
  None

Fenced == Turn \ Web
Task   == Turn \cup Sweep

ASSUME TurnAssumption == Web \subseteq Turn /\ Turn \cap Sweep = {}
ASSUME NoneAssumption == None \notin Task \cup Worker \cup Conversation

VARIABLES
  phase, holds, current,  \* the job ledger
  (* agent_execution_runs, one row per turn *)
  status,     \* absent before begin_run
  expired,    \* open, and expires_at <= now
  frozen,     \* the provider request: none, kept, or dropped as not recoverable
  admitted,   \* the provider's run id is recorded
  claimant,   \* whose reconciliation claim is the latest
  (* conversations *)
  conv,       \* of each turn, None before its inbound message is stored
  active,     \* active_run_id
  closed,     \* status is closed
  (* what a turn has produced *)
  replies,    \* accepted answers
  apology,    \* whether the answer is the apology for a failed call, model_outcome
  media,      \* generated media of the run
  delivery,   \* the receipts of the frozen manifest taken together
  provider,   \* the run at Hermes
  (* executions *)
  at,         \* a worker's place in the handler
  subject,    \* the turn it reconciles
  batch,      \* the due runs a sweep selected and has not come to
  anchor,     \* active_run_id when it claimed
  latest      \* history: the turn that began last in each conversation

INSTANCE JobLedger WITH Job <- Task

jobVars      == <<phase, holds, current>>
runVars      == <<status, expired, frozen, admitted, claimant>>
convVars     == <<conv, active, closed, latest>>
productVars  == <<replies, apology, media, delivery>>
reconcileVars == <<subject, batch, anchor>>
vars == <<jobVars, runVars, convVars, productVars, provider, at, reconcileVars>>

-----------------------------------------------------------------------------
(* Types *)

Unsettled == {"running", "expired", "reconciling"}
Retired   == {"completed", "failed", "unknown"}
Status    == {"absent"} \cup Unsettled \cup Retired

\* Between begin_run and the commit of the answer, in handle_chat.
Chatting == {"prepare", "submit", "record", "await"}
Ends     == {"done", "defer", "dead", "raised"}
Place    == {"idle", "receive", "deliver", "sending", "sweep", "reconcile", "polling"}
              \cup Chatting \cup Ends

TypeOK ==
  /\ LedgerTypeOK
  /\ status \in [Turn -> Status]
  /\ expired \in [Turn -> BOOLEAN]
  /\ frozen \in [Turn -> {"none", "kept", "dropped"}]
  /\ admitted \in [Turn -> BOOLEAN]
  /\ claimant \in [Turn -> Worker \cup {None}]
  /\ conv \in [Turn -> Conversation \cup {None}]
  /\ active \in [Conversation -> Turn \cup {None}]
  /\ closed \in [Conversation -> BOOLEAN]
  /\ replies \in [Turn -> {0, 1, 2}]
  /\ apology \in [Turn -> BOOLEAN]
  /\ media \in [Turn -> {"none", "pending", "delivered", "failed"}]
  /\ delivery \in [Turn -> {"pending", "sending", "sent"}]
  /\ provider \in [Turn -> {"none", "running", "completed", "failed"}]
  /\ at \in [Worker -> Place]
  /\ subject \in [Worker -> Turn \cup {None}]
  /\ batch \in [Worker -> SUBSET Turn]
  /\ anchor \in [Worker -> Turn \cup {None}]
  /\ latest \in [Conversation -> Turn \cup {None}]
  /\ \A w \in Worker :
       /\ at[w] \in {"receive", "deliver", "sending"} \cup Chatting => holds[w] \in Turn
       /\ at[w] \in {"reconcile", "polling"} <=> subject[w] # None
       /\ batch[w] # {} => holds[w] \in Sweep

Init ==
  /\ LedgerInit
  /\ status = [t \in Turn |-> "absent"]
  /\ expired = [t \in Turn |-> FALSE]
  /\ frozen = [t \in Turn |-> "none"]
  /\ admitted = [t \in Turn |-> FALSE]
  /\ claimant = [t \in Turn |-> None]
  /\ conv = [t \in Turn |-> None]
  /\ active = [c \in Conversation |-> None]
  /\ closed = [c \in Conversation |-> FALSE]
  /\ replies = [t \in Turn |-> 0]
  /\ apology = [t \in Turn |-> FALSE]
  /\ media = [t \in Turn |-> "none"]
  /\ delivery = [t \in Turn |-> "pending"]
  /\ provider = [t \in Turn |-> "none"]
  /\ at = [w \in Worker |-> "idle"]
  /\ subject = [w \in Worker |-> None]
  /\ batch = [w \in Worker |-> {}]
  /\ anchor = [w \in Worker |-> None]
  /\ latest = [c \in Conversation |-> None]

-----------------------------------------------------------------------------
GoTo(w, place) == at' = [at EXCEPT ![w] = place]

\* The handler returns or raises: nothing local to the execution is kept.
Forget(w) ==
  /\ GoTo(w, "idle")
  /\ subject' = [subject EXCEPT ![w] = None]
  /\ batch' = [batch EXCEPT ![w] = {}]
  /\ anchor' = [anchor EXCEPT ![w] = None]

\* What the runtime may make of a failure.  A request is over with its response, and
\* a sweep has one attempt.
EndingsOfFailed(w) == IF holds[w] \in Fenced THEN {"open", "dead"} ELSE {"dead"}

\* The handler raises, having committed nothing since its last step.
Fail(w) ==
  /\ \E end \in EndingsOfFailed(w) : Decide(w, end)
  /\ Forget(w)

\* The answer of a web request is in its response, another one is to be sent.
Deliver(w, t) == GoTo(w, IF t \in Web THEN "done" ELSE "deliver")

\* The run gets another status, and a new expiry with it or none that matters.
SetStatus(t, s, due) ==
  /\ status' = [status EXCEPT ![t] = s]
  /\ expired' = [expired EXCEPT ![t] = due]
  /\ claimant' = [claimant EXCEPT ![t] = None]

FailMedia(t) ==
  media' = [media EXCEPT ![t] = IF @ = "pending" THEN "failed" ELSE @]

\* conversation.active_run_id = None, if it is this run's.
Unpin(t) ==
  active' = [c \in Conversation |-> IF active[c] = t THEN None ELSE active[c]]

FinishRun(t, s) ==
  /\ Unpin(t)
  /\ SetStatus(t, s, FALSE)
  /\ IF s = "completed" THEN UNCHANGED media ELSE FailMedia(t)

\* The claim of the job that began the run: no lease without a job, none once the
\* execution was overtaken.
RunLease(t) ==
  \/ t \in Web
  \/ \E w \in Worker : holds[w] = t /\ current[w] /\ at[w] \in Chatting

\* require_active_run, with the conversation locked to the commit that follows.
IsActive(t) ==
  /\ RunLease(t)
  /\ conv[t] # None /\ ~closed[conv[t]] /\ active[conv[t]] = t
  /\ status[t] = "running" /\ ~expired[t]

-----------------------------------------------------------------------------
(* Arrivals *)

Arrive(t) ==
  /\ phase[t] = "absent"
  /\ Open(t)
  /\ UNCHANGED <<runVars, convVars, productVars, provider, at, reconcileVars>>

\* An operator replays the dead letter of a WhatsApp message.
Replay(t) ==
  /\ t \in Fenced
  /\ phase[t] = "dead"
  /\ Open(t)
  /\ UNCHANGED <<runVars, convVars, productVars, provider, at, reconcileVars>>

\* Mutant of Due: a claim whose worker died is never looked for.
DueUnclaimed == {t \in Turn : status[t] \in {"running", "expired"} /\ expired[t]}

Due == {t \in Turn : status[t] \in Unsettled /\ expired[t]}

\* _ensure_run_recovery_jobs: a new key every minute in which a run is due.
EnqueueSweep(s) ==
  /\ phase[s] \in {"absent", "done", "dead"}
  /\ Due # {}
  /\ phase' = [phase EXCEPT ![s] = "open"]
  /\ UNCHANGED <<holds, current, runVars, convVars, productVars, provider, at, reconcileVars>>

Take(w) ==
  /\ \E j \in Task :
       /\ Grant(w, j)
       /\ GoTo(w, IF j \in Sweep THEN "sweep" ELSE "receive")
       /\ batch' = [batch EXCEPT ![w] = IF j \in Sweep THEN Due ELSE {}]
  /\ UNCHANGED <<runVars, convVars, productVars, provider, subject, anchor>>

TakeSweep(w) == Take(w) /\ holds'[w] \in Sweep

-----------------------------------------------------------------------------
(* handle_chat *)

\* Mutant of Unpinned: a run may start beside an earlier one.
UnpinnedAnyway(c) == TRUE

\* begin_run's UPDATE conversations ... WHERE active_run_id IS NULL finds the row.
Unpinned(c) == active[c] = None

\* The inbound message, the run and the pointer are durable in one transaction.  The
\* conversation was chosen before it: it may have been closed since, and only the
\* answer of a fixed response is refused for that.
Begin(w, c) ==
  LET t == holds[w] IN
  /\ at[w] = "receive" /\ current[w]
  /\ conv[t] = None /\ Unpinned(c)
  /\ conv' = [conv EXCEPT ![t] = c]
  /\ latest' = [latest EXCEPT ![c] = t]
  /\ \/ (* the agent is asked *)
        /\ SetStatus(t, "running", FALSE)
        /\ active' = [active EXCEPT ![c] = t]
        /\ GoTo(w, "prepare")
        /\ UNCHANGED replies
     \/ (* a fixed response is the answer, and the run over at the commit *)
        /\ ~closed[c]
        /\ SetStatus(t, "completed", FALSE)
        /\ replies' = [replies EXCEPT ![t] = @ + 1]
        /\ Deliver(w, t)
        /\ UNCHANGED active
  /\ UNCHANGED <<jobVars, frozen, admitted, closed, apology, media, delivery, provider,
                 reconcileVars>>

\* An earlier run pins the conversation: 409, and nothing of the turn is kept.
BeginRefused(w, c) ==
  /\ at[w] = "receive" /\ conv[holds[w]] = None /\ ~Unpinned(c)
  /\ Fail(w)
  /\ UNCHANGED <<runVars, convVars, productVars, provider>>

\* A retried job finds the message of its turn, and its answer or its run.
Resume(w) ==
  LET t == holds[w] IN
  /\ at[w] = "receive" /\ conv[t] # None
  /\ IF replies[t] > 0
     THEN Deliver(w, t) /\ UNCHANGED subject
     ELSE GoTo(w, "reconcile") /\ subject' = [subject EXCEPT ![w] = t]
  /\ UNCHANGED <<jobVars, runVars, convVars, productVars, provider, batch, anchor>>

\* _record_provider_request, before the request is sent.
Prepare(w) ==
  LET t == holds[w] IN
  /\ at[w] = "prepare" /\ IsActive(t)
  /\ \E kept \in {"kept", "dropped"} : frozen' = [frozen EXCEPT ![t] = kept]
  /\ GoTo(w, "submit")
  /\ UNCHANGED <<jobVars, status, expired, admitted, claimant, convVars, productVars,
                 provider, reconcileVars>>

\* POST /runs: no transaction, no lease.
Submit(w) ==
  /\ at[w] = "submit"
  /\ provider' = [provider EXCEPT ![holds[w]] = "running"]
  /\ GoTo(w, "record")
  /\ UNCHANGED <<jobVars, runVars, convVars, productVars, reconcileVars>>

\* _record_provider_admission.
RecordAdmission(w) ==
  LET t == holds[w] IN
  /\ at[w] = "record" /\ IsActive(t)
  /\ admitted' = [admitted EXCEPT ![t] = TRUE]
  /\ GoTo(w, "await")
  /\ UNCHANGED <<jobVars, status, expired, frozen, claimant, convVars, productVars,
                 provider, reconcileVars>>

\* Hermes answers, or fails.  When the run is over nobody asks.
ProviderEnds(t) ==
  /\ provider[t] = "running" /\ status[t] \in Unsettled
  /\ \E outcome \in {"completed", "failed"} : provider' = [provider EXCEPT ![t] = outcome]
  /\ UNCHANGED <<jobVars, runVars, convVars, productVars, at, reconcileVars>>

\* _store_media: the file and the row, or neither.
Store(t) ==
  /\ media[t] = "none"
  /\ media' = [media EXCEPT ![t] = "pending"]
  /\ UNCHANGED <<jobVars, runVars, convVars, replies, apology, delivery, provider, at,
                 reconcileVars>>

\* decode_action_context_token: a tool may act with the token of its run while that is
\* active; the lock on the conversation is kept until the tool commits.
MayAct(t) == provider[t] = "running" /\ IsActive(t)

\* Hermes calls a tool: an image is generated, or a file of the sandbox fetched from the
\* workspace of the conversation.
GenerateImage(t) == MayAct(t) /\ Store(t)
QueueFile(t) == MayAct(t) /\ Store(t)

\* The answer, the end of the run and the free pointer are durable together.
Accept(w, s) ==
  LET t == holds[w] IN
  /\ IsActive(t) /\ replies[t] = 0
  /\ replies' = [replies EXCEPT ![t] = @ + 1]
  /\ apology' = [apology EXCEPT ![t] = s = "failed"]
  /\ FinishRun(t, s)
  /\ Deliver(w, t)
  /\ UNCHANGED <<jobVars, frozen, admitted, conv, closed, latest, delivery, provider,
                 reconcileVars>>

AcceptAnswer(w) ==
  /\ at[w] = "await" /\ provider[holds[w]] = "completed"
  /\ Accept(w, "completed")

\* HermesError, at any point of the call: the answer is an apology.
AcceptFallback(w) == at[w] \in Chatting /\ Accept(w, "failed")

\* The except branch of handle_chat, for any exception: a run whose request was
\* frozen keeps the conversation pinned until it is reconciled, another one is over.
\* Nothing here asks for the lease.
Abort(w) ==
  LET t == holds[w] IN
  /\ at[w] \in Chatting
  /\ GoTo(w, "raised")
  /\ IF status[t] # "running" \/ active[conv[t]] # t
     THEN UNCHANGED <<status, expired, claimant, active, media>>
     ELSE IF frozen[t] = "none"
     THEN FinishRun(t, "failed")
     ELSE SetStatus(t, "expired", TRUE) /\ UNCHANGED <<active, media>>
  /\ UNCHANGED <<jobVars, frozen, admitted, conv, closed, latest, replies, apology,
                 delivery, provider, reconcileVars>>

\* /new on any of the person's numbers: cancel_conversation.
Reset(c) ==
  /\ ~closed[c]
  /\ closed' = [closed EXCEPT ![c] = TRUE]
  /\ IF active[c] = None
     THEN UNCHANGED <<active, status, expired, claimant, media>>
     ELSE FinishRun(active[c], "failed")
  /\ UNCHANGED <<jobVars, frozen, admitted, conv, latest, replies, apology, delivery,
                 provider, at, reconcileVars>>

-----------------------------------------------------------------------------
(* run_recovery.reconcile_application_run *)

\* Mutant of Decided: a sweep goes on to deliver what it recovered.
DecidedAsJob(w, place) ==
  /\ GoTo(w, place)
  /\ subject' = [subject EXCEPT ![w] = None]
  /\ anchor' = [anchor EXCEPT ![w] = None]
  /\ UNCHANGED batch

\* Where a decision leads: the retried job delivers, comes back later or gives up,
\* a sweep goes on to its next run.
Decided(w, place) ==
  /\ GoTo(w, IF holds[w] \in Sweep THEN "sweep" ELSE place)
  /\ subject' = [subject EXCEPT ![w] = None]
  /\ anchor' = [anchor EXCEPT ![w] = None]
  /\ UNCHANGED batch

\* _retire, except for POLL_LATER.
Retire(t, s) ==
  /\ Unpin(t)
  /\ SetStatus(t, s, FALSE)

Review(w, t) ==
  /\ Retire(t, "unknown")
  /\ FailMedia(t)
  /\ Decided(w, "dead")
  /\ UNCHANGED replies

\* A sweep comes to the next run of its selection.
NextRun(w) ==
  /\ at[w] = "sweep"
  /\ \E t \in batch[w] :
       /\ subject' = [subject EXCEPT ![w] = t]
       /\ batch' = [batch EXCEPT ![w] = @ \ {t}]
  /\ GoTo(w, "reconcile")
  /\ UNCHANGED <<jobVars, runVars, convVars, productVars, provider, anchor>>

\* The run is not due, and somebody else's.
Wait(w) ==
  LET t == subject[w] IN
  /\ at[w] = "reconcile" /\ current[w]
  /\ status[t] \in {"running", "reconciling"} /\ ~expired[t]
  /\ Decided(w, "defer")
  /\ UNCHANGED <<jobVars, runVars, convVars, productVars, provider>>

\* _authorized_context and the checks of the pointer and of the frozen request.
Authorized(t) == ~closed[conv[t]] /\ active[conv[t]] \in {None, t}
Answered(t)   == replies[t] > 0

Recoverable(t) ==
  /\ Authorized(t)
  /\ ~Answered(t) => active[conv[t]] = t /\ frozen[t] = "kept" /\ admitted[t]

Reconcilable(t) == status[t] \notin {"running", "reconciling"} \/ expired[t]

ClaimRun(w) ==
  LET t == subject[w] IN
  /\ at[w] = "reconcile" /\ current[w]
  /\ Reconcilable(t) /\ Recoverable(t)
  /\ status' = [status EXCEPT ![t] = "reconciling"]
  /\ claimant' = [claimant EXCEPT ![t] = w]
  /\ expired' = [expired EXCEPT ![t] = FALSE]
  /\ anchor' = [anchor EXCEPT ![w] = active[conv[t]]]
  /\ GoTo(w, "polling")
  /\ UNCHANGED <<jobVars, frozen, admitted, convVars, productVars, provider, subject, batch>>

RefuseRun(w) ==
  LET t == subject[w] IN
  /\ at[w] = "reconcile" /\ current[w]
  /\ Reconcilable(t) /\ ~Recoverable(t)
  /\ Review(w, t)
  /\ UNCHANGED <<jobVars, frozen, admitted, conv, closed, latest, apology, delivery, provider>>

\* The claim of w on its run still stands after the poll, and has not expired.
OwnsRun(w, t) ==
  /\ claimant[t] = w
  /\ status[t] = "reconciling" /\ active[conv[t]] = anchor[w]
  /\ ~expired[t]

ClaimLost(w) ==
  /\ at[w] = "polling" /\ current[w]
  /\ ~OwnsRun(w, subject[w])
  /\ Decided(w, "dead")
  /\ UNCHANGED <<jobVars, runVars, convVars, productVars, provider>>

\* What a GET of the recorded run told, at some moment since the claim: it ended so,
\* it was still running or unreachable, or its answer is not acceptable.
Polled(t) == {"later", "invalid"} \cup ({provider[t]} \cap {"completed", "failed"})

\* Mutant of Persist: the answer is stored, and the run left to a later reconciliation.
PersistOnly(w, t) ==
  /\ SetStatus(t, "expired", FALSE)
  /\ replies' = [replies EXCEPT ![t] = @ + 1]
  /\ Decided(w, "deliver")
  /\ UNCHANGED <<active, media>>

\* The answer was recovered: it is attached to the turn as handle_chat would have.
Persist(w, t) ==
  /\ Retire(t, "completed")
  /\ replies' = [replies EXCEPT ![t] = @ + 1]
  /\ Decided(w, "deliver")
  /\ UNCHANGED media

\* Mutant of PollLater: the run is free for a new turn while its outcome is open.
PollLaterUnpinned(w, t) ==
  /\ SetStatus(t, "expired", FALSE)
  /\ Decided(w, "defer")
  /\ Unpin(t)
  /\ UNCHANGED <<media, replies>>

PollLater(w, t) ==
  /\ SetStatus(t, "expired", FALSE)
  /\ Decided(w, "defer")
  /\ UNCHANGED <<active, media, replies>>

\* The turn has its answer: the run is over when its delivery can be told.
Conclude(w, t) ==
  /\ Retire(t, IF apology[t] THEN "failed" ELSE "completed")
  /\ Decided(w, "deliver")
  /\ UNCHANGED <<media, replies>>

FailRun(w, t) ==
  /\ Retire(t, "failed")
  /\ FailMedia(t)
  /\ Decided(w, "dead")
  /\ UNCHANGED replies

Apply(w) ==
  LET t == subject[w] IN
  /\ at[w] = "polling" /\ current[w] /\ OwnsRun(w, t)
  /\ \/ ~Authorized(t) /\ Review(w, t)
     \/ /\ Authorized(t) /\ Answered(t)
        /\ IF delivery[t] = "sending" THEN Review(w, t) ELSE Conclude(w, t)
     \/ /\ Authorized(t) /\ ~Answered(t)
        /\ \E outcome \in Polled(t) :
             \/ outcome = "later" /\ PollLater(w, t)
             \/ outcome = "invalid" /\ Review(w, t)
             \/ outcome = "completed" /\ Persist(w, t)
             \/ outcome = "failed" /\ FailRun(w, t)
  /\ UNCHANGED <<jobVars, frozen, admitted, conv, closed, latest, apology, delivery, provider>>

-----------------------------------------------------------------------------
(* Delivery, as far as a reconciliation can tell it: WhatsAppInbox has the rest *)

Send(w) ==
  LET t == holds[w] IN
  /\ at[w] = "deliver" /\ current[w]
  /\ delivery[t] = "pending"
  /\ delivery' = [delivery EXCEPT ![t] = "sending"]
  /\ GoTo(w, "sending")
  /\ UNCHANGED <<jobVars, runVars, convVars, replies, apology, media, provider, reconcileVars>>

\* Meta accepted everything, asked to come back, or its answer was lost.
SendEnds(w) ==
  LET t == holds[w] IN
  /\ at[w] = "sending"
  /\ \/ delivery' = [delivery EXCEPT ![t] = "sent"] /\ GoTo(w, "done")
        /\ media' = [media EXCEPT ![t] = IF @ = "pending" THEN "delivered" ELSE @]
     \/ delivery' = [delivery EXCEPT ![t] = "pending"] /\ GoTo(w, "defer")
        /\ UNCHANGED media
     \/ GoTo(w, "dead") /\ UNCHANGED <<delivery, media>>
  /\ UNCHANGED <<jobVars, runVars, convVars, replies, apology, provider, reconcileVars>>

\* Sent before, or left unclear by an earlier execution.
SkipSend(w) ==
  /\ at[w] = "deliver" /\ current[w]
  /\ \/ delivery[holds[w]] = "sent" /\ GoTo(w, "done")
     \/ delivery[holds[w]] = "sending" /\ GoTo(w, "dead")
  /\ UNCHANGED <<jobVars, runVars, convVars, productVars, provider, reconcileVars>>

-----------------------------------------------------------------------------
(* The job runtime, crashes and time *)

\* The endings of a job whose handler returned so.
Endings(w) ==
  CASE at[w] = "done"   -> {"done"}
    [] at[w] = "sweep"  -> {"done"}
    [] at[w] = "defer"  -> {"open"}
    [] at[w] = "dead"   -> {"dead"}
    [] at[w] = "raised" -> EndingsOfFailed(w)

Finish(w) ==
  /\ at[w] \in Ends \/ (at[w] = "sweep" /\ batch[w] = {})
  /\ \E end \in Endings(w) : Decide(w, end)
  /\ Forget(w)
  /\ UNCHANGED <<runVars, convVars, productVars, provider>>

\* A handler that is not in handle_chat raises what it likes.
Raise(w) ==
  /\ at[w] \in {"receive", "deliver", "sweep", "reconcile", "polling"}
  /\ Fail(w)
  /\ UNCHANGED <<runVars, convVars, productVars, provider>>

\* JobLeaseLostError, at the next assertion or when the runtime settles the job.
Overtaken(w) ==
  /\ at[w] \notin Chatting /\ ~current[w]
  /\ Abandon(w)
  /\ Forget(w)
  /\ UNCHANGED <<runVars, convVars, productVars, provider>>

Crash(w) ==
  /\ Abandon(w)
  /\ Forget(w)
  /\ UNCHANGED <<runVars, convVars, productVars, provider>>

\* recover_stale_jobs takes a job whose lease expired.
Recover(j) ==
  /\ j \notin Web
  /\ \E end \in (IF j \in Sweep THEN {"dead"} ELSE {"open", "dead"}) : Revoke([i \in {j} |-> end])
  /\ UNCHANGED <<runVars, convVars, productVars, provider, at, reconcileVars>>

\* expires_at passes.
Expire(t) ==
  /\ status[t] \in Unsettled /\ ~expired[t]
  /\ expired' = [expired EXCEPT ![t] = TRUE]
  /\ UNCHANGED <<jobVars, status, frozen, admitted, claimant, convVars, productVars, provider, at,
                 reconcileVars>>

ChatStep(w) ==
  \/ \E c \in Conversation : Begin(w, c) \/ BeginRefused(w, c)
  \/ Resume(w) \/ Prepare(w) \/ Submit(w) \/ RecordAdmission(w)
  \/ AcceptAnswer(w) \/ AcceptFallback(w) \/ Abort(w)

RecoveryStep(w) ==
  \/ NextRun(w) \/ Wait(w) \/ ClaimRun(w) \/ RefuseRun(w) \/ ClaimLost(w) \/ Apply(w)

JobStep(w) ==
  \/ Take(w) \/ Send(w) \/ SendEnds(w) \/ SkipSend(w)
  \/ Finish(w) \/ Raise(w) \/ Overtaken(w) \/ Crash(w)

Next ==
  \/ \E t \in Turn : Arrive(t) \/ Replay(t) \/ ProviderEnds(t) \/ GenerateImage(t) \/ QueueFile(t) \/ Expire(t)
  \/ \E s \in Sweep : EnqueueSweep(s)
  \/ \E j \in Task : Recover(j)
  \/ \E c \in Conversation : Reset(c)
  \/ \E w \in Worker : ChatStep(w) \/ RecoveryStep(w) \/ JobStep(w)

Spec == Init /\ [][Next]_vars

\* A step of an execution, its crash included: every call it waits for has a timeout.
Proceeds(w) == ChatStep(w) \/ RecoveryStep(w) \/ JobStep(w)

\* A reconciliation comes to a decision: Hermes was reached and the run over there,
\* or not needed.
Concludes(w) == Apply(w) /\ status'[subject[w]] # "expired"

Fairness ==
  /\ \A t \in Turn : WF_vars(Expire(t))
  /\ \A s \in Sweep : WF_vars(EnqueueSweep(s))
  /\ \A s \in Sweep : WF_vars(Recover(s))
  /\ WF_vars(\E w \in Worker : Proceeds(w))
  /\ SF_vars(\E w \in Worker : TakeSweep(w))
  /\ SF_vars(\E w \in Worker : current[w] /\ NextRun(w))
  /\ SF_vars(\E w \in Worker : ClaimRun(w) \/ RefuseRun(w))
  /\ SF_vars(\E w \in Worker : Concludes(w))

FairSpec == Spec /\ Fairness

-----------------------------------------------------------------------------
(* Safety *)

\* A conversation is pinned exactly by its run that is running or waits for its
\* outcome: no run is left that pins nothing, and no pointer to a run that is over.
PinnedByOpenRun ==
  /\ \A c \in Conversation :
       active[c] # None => conv[active[c]] = c /\ status[active[c]] \in Unsettled
  /\ \A t \in Turn : status[t] \in {"running", "expired"} => active[conv[t]] = t

\* A turn is answered at most once, by its own execution, by a retry of its job or
\* by a sweep, and an answered turn has no run that could answer it again.
AnsweredOnce ==
  \A t \in Turn :
    /\ replies[t] <= 1
    /\ replies[t] = 1 => status[t] \notin {"running", "expired"}

\* An answer joins its conversation only while its turn is the last that began there
\* and the conversation is open: recovery inserts none behind a newer turn.
AnswersAreCurrent ==
  [][\A t \in Turn :
       replies'[t] # replies[t] => latest'[conv'[t]] = t /\ ~closed[conv'[t]]]_vars

-----------------------------------------------------------------------------
(* Liveness *)

\* A run that pins its conversation does not do so for ever, whoever crashed, timed
\* out or was overtaken: the person is answered again without having to say /new.
PinIsReleased ==
  \A t \in Turn, c \in Conversation : active[c] = t ~> active[c] # t

-----------------------------------------------------------------------------
(* What the comment of run_recovery.py:127 promises, and a stale selection breaks *)

\* A run whose pointer was cleared is not taken up again (run_recovery.py:127).
NotResurrected ==
  [][\A t \in Turn : status[t] \in Retired => status'[t] \notin Unsettled]_vars

=============================================================================
