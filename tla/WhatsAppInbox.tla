---------------------------- MODULE WhatsAppInbox ----------------------------
(***************************************************************************)
(* What happens to the WhatsApp messages of one approved person, from the  *)
(* signed webhook to Meta's acceptance of the reply                        *)
(* (services/ingress_ordering.py, services/whatsapp_webhook_ingress.py,    *)
(* services/whatsapp.py).  The person writes to several receiving numbers, *)
(* each a stream with its own arrival order; the opt-out is shared.        *)
(*                                                                         *)
(* Every receipt is a job: the steps of a worker are conjoined with the    *)
(* actions of JobLedger, which JobRuntime implements.  An execution that   *)
(* is no longer current goes on to its next assert_current_job_lease, and  *)
(* commits what the code commits before it.                                *)
(***************************************************************************)
EXTENDS Integers

CONSTANTS
  Worker,
  Stream,   \* receiving numbers, one ordering scope each
  Length,   \* bound: receipts per stream
  Parts,    \* bound: effects of one reply
  Kinds,    \* the kinds of messages received
  Limited,  \* bound: the positions in a stream where the message limit may be reached
  None

ASSUME BoundAssumption == Length \in Nat /\ Parts \in Nat \ {0}
ASSUME LimitAssumption == Limited \subseteq 1..Length
ASSUME KindAssumption == Kinds \subseteq {"chat", "reset", "start", "stop"}

Receipt == Stream \X (1..Length)
Effect  == Receipt \X (0..Parts)   \* 0 is the notice that a limit is reached

ASSUME NoneAssumption == None \notin Receipt

VARIABLES
  phase, holds, current,  \* the job ledger
  kind,     \* of each receipt
  event,    \* its processing_status
  planned,  \* the number of effects of its reply, 0 until it is composed
  row,      \* the status of the outbound row of each effect
  copies,   \* copies of an effect Meta accepted
  optOut,   \* of the phone identity
  at,       \* a worker's place in process_inbox_event
  part,     \* the effect it is at
  seen,     \* the opt-out it loaded
  locked    \* whether its transaction holds the rows of its job and identity

INSTANCE JobLedger WITH Job <- Receipt

jobVars      == <<phase, holds, current>>
inboxVars    == <<kind, event, planned>>
deliveryVars == <<row, copies>>
placeVars    == <<at, part, seen, locked>>
vars == <<jobVars, inboxVars, deliveryVars, optOut, placeVars>>

-----------------------------------------------------------------------------
\* Mutant of Delivered: a rank too low passes for sent.
DeliveredOrSending == {"sending", "sent"}

Delivered == {"sent"}
Unclear   == {"sending", "ambiguous", "rejected"}
Raised    == {"deferred", "permanent", "error"}
Replying  == {"deliver", "prepared", "marked", "calling",
              "acknowledged", "unanswered", "throttled", "refused"}
Place     == {"idle", "begin", "look", "stop", "start", "silent", "reset", "compose", "done"}
               \cup Replying \cup Raised

TypeOK ==
  /\ LedgerTypeOK
  /\ kind \in [Receipt -> Kinds \cup {None}]
  /\ event \in [Receipt -> {"absent", "received", "processed"}]
  /\ planned \in [Receipt -> 0..Parts]
  /\ row \in [Effect -> {"none", "prepared", "failed"} \cup Delivered \cup Unclear]
  /\ copies \in [Effect -> Nat]
  /\ optOut \in BOOLEAN
  /\ at \in [Worker -> Place]
  /\ part \in [Worker -> 0..Parts + 1]
  /\ seen \in [Worker -> BOOLEAN]
  /\ locked \in [Worker -> BOOLEAN]

Init ==
  /\ LedgerInit
  /\ kind = [r \in Receipt |-> None]
  /\ event = [r \in Receipt |-> "absent"]
  /\ planned = [r \in Receipt |-> 0]
  /\ row = [e \in Effect |-> "none"]
  /\ copies = [e \in Effect |-> 0]
  /\ optOut \in BOOLEAN
  /\ at = [w \in Worker |-> "idle"]
  /\ part = [w \in Worker |-> 1]
  /\ seen = [w \in Worker |-> FALSE]
  /\ locked = [w \in Worker |-> FALSE]

-----------------------------------------------------------------------------
Earlier(q, r) == q[1] = r[1] /\ q[2] < r[2]

Effects(r) == IF kind[r] = "chat" THEN planned[r] ELSE 1

\* The effect a worker is at.
Aim(w) == <<holds[w], part[w]>>

GoTo(w, place) == at' = [at EXCEPT ![w] = place]

\* process_inbox_event returns or raises: nothing local to the execution is kept.
Return(w, place) ==
  /\ GoTo(w, place)
  /\ part' = [part EXCEPT ![w] = 1]
  /\ seen' = [seen EXCEPT ![w] = FALSE]
  /\ locked' = [locked EXCEPT ![w] = FALSE]

Leave(w) == Return(w, "idle")

SetEvent(w) == event' = [event EXCEPT ![holds[w]] = "processed"]

\* The identity row is free for an update, or for FOR UPDATE.
IdentityFree == \A w \in Worker : ~locked[w]

-----------------------------------------------------------------------------
(* Ingress *)

\* Receipt, arrival sequence and job are durable in one transaction; the stream
\* row is locked to its commit.  A redelivered webhook finds its receipt.
Receive(r) ==
  /\ event[r] = "absent"
  /\ \A q \in Receipt : Earlier(q, r) => event[q] # "absent"
  /\ Open(r)
  /\ event' = [event EXCEPT ![r] = "received"]
  /\ \E k \in Kinds : kind' = [kind EXCEPT ![r] = k]
  /\ UNCHANGED <<planned, deliveryVars, optOut, placeVars>>

\* An operator replays the dead letter of a receipt.
Replay(r) ==
  /\ phase[r] = "dead"
  /\ Open(r)
  /\ UNCHANGED <<inboxVars, deliveryVars, optOut, placeVars>>

-----------------------------------------------------------------------------
(* An execution, up to the reply *)

Take(w) ==
  /\ \E r \in Receipt : Grant(w, r)
  /\ GoTo(w, "begin")
  /\ UNCHANGED <<inboxVars, deliveryVars, optOut, part, seen, locked>>

\* Mutant of IsHead: a dead letter does not hold up the receipts behind it.
IsHeadOfLiving(r) == \A q \in Receipt : Earlier(q, r) => event[q] = "processed" \/ phase[q] = "dead"

\* Mutant of IsHead: the receipt itself is counted among the earlier ones.
IsHeadOfItself(r) == \A q \in Receipt : Earlier(q, r) \/ q = r => event[q] = "processed"

\* require_head: every earlier receipt of the stream is resolved.
IsHead(r) == \A q \in Receipt : Earlier(q, r) => event[q] = "processed"

\* process_inbox_event.  A resolved receipt succeeds as a duplicate, a later one
\* is deferred, and the head goes on after a commit that frees job and stream.
Begin(w) ==
  LET r == holds[w] IN
  /\ at[w] = "begin"
  /\ current[w]
  /\ \/ event[r] = "processed" /\ GoTo(w, "done")
     \/ event[r] # "processed" /\ ~IsHead(r) /\ GoTo(w, "deferred")
     \/ event[r] # "processed" /\ IsHead(r) /\ GoTo(w, "look")
  /\ UNCHANGED <<jobVars, inboxVars, deliveryVars, optOut, part, seen, locked>>

\* _process_message loads the identity; STOP is honoured before anything else, a
\* START before the opt-out is looked at.  All but STOP bind the job to its tenant
\* under an assertion of the lease.
Look(w) ==
  LET k == kind[holds[w]] IN
  /\ at[w] = "look"
  /\ current[w] \/ k = "stop"
  /\ seen' = [seen EXCEPT ![w] = optOut]
  /\ \/ k \in {"stop", "start"} /\ GoTo(w, k)
     \/ k \in {"chat", "reset"} /\ optOut /\ GoTo(w, "silent")
     \/ k = "reset" /\ ~optOut /\ GoTo(w, "reset")
     \/ k = "chat" /\ ~optOut /\ GoTo(w, "compose")
  /\ UNCHANGED <<jobVars, inboxVars, deliveryVars, optOut, part, locked>>

\* A change of the opt-out is written only if it differs from what was loaded, and
\* waits for the identity row.
SetOptOut(w, value) ==
  IF seen[w] = value THEN UNCHANGED optOut ELSE IdentityFree /\ optOut' = value

Stop(w) ==
  /\ at[w] = "stop"
  /\ SetOptOut(w, TRUE)
  /\ SetEvent(w)
  /\ Return(w, "done")
  /\ UNCHANGED <<jobVars, kind, planned, deliveryVars>>

Start(w) ==
  /\ at[w] = "start"
  /\ SetOptOut(w, FALSE)
  /\ GoTo(w, "deliver")
  /\ UNCHANGED <<jobVars, inboxVars, deliveryVars, part, seen, locked>>

\* An opted-out person gets no reply.
Silence(w) ==
  /\ at[w] = "silent"
  /\ SetEvent(w)
  /\ Return(w, "done")
  /\ UNCHANGED <<jobVars, kind, planned, deliveryVars, optOut>>

\* /new resolves its receipt before the reply is delivered.
Reset(w) ==
  /\ at[w] = "reset"
  /\ SetEvent(w)
  /\ GoTo(w, "deliver")
  /\ UNCHANGED <<jobVars, kind, planned, deliveryVars, optOut, part, seen, locked>>

\* The agent answers once: the reply and the manifest of its effects are durable,
\* and a later execution finds them.
Compose(w) ==
  /\ at[w] = "compose"
  /\ \/ current[w] /\ planned[holds[w]] = 0
        /\ \E n \in 1..Parts : planned' = [planned EXCEPT ![holds[w]] = n]
     \/ planned[holds[w]] > 0 /\ UNCHANGED planned
  /\ GoTo(w, "deliver")
  /\ UNCHANGED <<jobVars, kind, event, deliveryVars, optOut, part, seen, locked>>

\* The message limit of the person is reached: a notice is the whole reply, even if
\* an earlier execution composed one.
Limit(w) ==
  /\ at[w] = "compose"
  /\ holds[w][2] \in Limited
  /\ part' = [part EXCEPT ![w] = 0]
  /\ GoTo(w, "deliver")
  /\ UNCHANGED <<jobVars, inboxVars, deliveryVars, optOut, seen, locked>>

\* The limits cannot be read, or the agent run fails, is denied, or is still pending.
ComposeFails(w) ==
  /\ at[w] = "compose"
  /\ \E raised \in IF planned[holds[w]] = 0 THEN Raised ELSE {"error"} : Return(w, raised)
  /\ UNCHANGED <<jobVars, inboxVars, deliveryVars, optOut>>

-----------------------------------------------------------------------------
(* The reply: _deliver_once, for each effect *)

\* Every effect is sent.
Answered(w) ==
  /\ at[w] = "deliver"
  /\ part[w] > Effects(holds[w])
  /\ SetEvent(w)
  /\ Return(w, "done")
  /\ UNCHANGED <<jobVars, kind, planned, deliveryVars, optOut>>

NextPart(w) == part' = [part EXCEPT ![w] = IF @ = 0 THEN Parts + 1 ELSE @ + 1]

SkipSent(w) ==
  /\ at[w] = "deliver"
  /\ part[w] <= Effects(holds[w])
  /\ row[Aim(w)] \in Delivered
  /\ NextPart(w)
  /\ UNCHANGED <<jobVars, inboxVars, deliveryVars, optOut, at, seen, locked>>

\* Mutant of Settled: a send that was interrupted is tried again.
SettledButSending(status) == status \in Unclear \ {"sending"}

\* The outcome of an earlier send forbids another one without reconciliation.
Settled(status) == status \in Unclear

RefuseUnclear(w) ==
  /\ at[w] = "deliver"
  /\ part[w] <= Effects(holds[w])
  /\ Settled(row[Aim(w)])
  /\ Return(w, "permanent")
  /\ UNCHANGED <<jobVars, inboxVars, deliveryVars, optOut>>

Prepare(w) ==
  LET status == row[Aim(w)] IN
  /\ at[w] = "deliver"
  /\ part[w] <= Effects(holds[w])
  /\ status \notin Delivered /\ ~Settled(status)
  /\ row' = IF status = "none" THEN [row EXCEPT ![Aim(w)] = "prepared"] ELSE row
  /\ GoTo(w, "prepared")
  /\ UNCHANGED <<jobVars, inboxVars, copies, optOut, part, seen, locked>>

\* The first assertion, and the commit that marks the effect as being sent.
Mark(w) ==
  /\ at[w] = "prepared"
  /\ current[w]
  /\ row' = [row EXCEPT ![Aim(w)] = "sending"]
  /\ GoTo(w, "marked")
  /\ UNCHANGED <<jobVars, inboxVars, copies, optOut, part, seen, locked>>

\* Mutant of Permitted: the opt-out is taken from what the execution loaded.
PermittedWhenLoaded(w) == ~seen[w] \/ kind[holds[w]] = "start"

\* assert_delivery_actor.
Permitted(w) == ~optOut

\* The second assertion and the actor's rows: both locks are kept until the
\* outcome of the send is committed.
Authorize(w) ==
  /\ at[w] = "marked"
  /\ current[w]
  /\ IdentityFree
  /\ \/ /\ Permitted(w)
        /\ GoTo(w, "calling")
        /\ locked' = [locked EXCEPT ![w] = TRUE]
        /\ UNCHANGED <<part, seen>>
     \/ ~Permitted(w) /\ Return(w, "permanent")
  /\ UNCHANGED <<jobVars, inboxVars, deliveryVars, optOut>>

\* Meta accepts the message; its answer may be lost.
Accept(w) ==
  /\ at[w] = "calling"
  /\ copies' = [copies EXCEPT ![Aim(w)] = @ + 1]
  /\ \E place \in {"acknowledged", "unanswered"} : GoTo(w, place)
  /\ UNCHANGED <<jobVars, inboxVars, row, optOut, part, seen, locked>>

\* Meta does not accept it, and says so or does not answer.
Decline(w) ==
  /\ at[w] = "calling"
  /\ \E place \in {"unanswered", "throttled", "refused"} : GoTo(w, place)
  /\ UNCHANGED <<jobVars, inboxVars, deliveryVars, optOut, part, seen, locked>>

\* Mutant of Outcome: a failure is recorded as it was raised.
OutcomeAsRaised(place) == IF place = "acknowledged" THEN "sent" ELSE place

\* Mutant of Outcome: no answer is taken for a failure that may be retried.
OutcomeRetriesSilence(place) ==
  CASE place = "acknowledged" -> "sent"
    [] place \in {"unanswered", "throttled"} -> "failed"
    [] place = "refused" -> "rejected"

\* The status an answer of Meta is recorded as.
Outcome(place) ==
  CASE place = "acknowledged" -> "sent"
    [] place = "unanswered"   -> "ambiguous"
    [] place = "throttled"    -> "failed"
    [] place = "refused"      -> "rejected"

Record(w) ==
  LET status == Outcome(at[w]) IN
  /\ at[w] \in {"acknowledged", "unanswered", "throttled", "refused"}
  /\ row' = [row EXCEPT ![Aim(w)] = status]
  /\ \/ /\ status = "sent"
        /\ GoTo(w, "deliver")
        /\ NextPart(w)
        /\ locked' = [locked EXCEPT ![w] = FALSE]
        /\ UNCHANGED seen
     \/ status = "failed" /\ Return(w, "error")
     \/ status \notin {"sent", "failed"} /\ Return(w, "permanent")
  /\ UNCHANGED <<jobVars, inboxVars, copies, optOut>>

-----------------------------------------------------------------------------
(* The end of an execution *)

Finish(w) ==
  /\ at[w] = "done"
  /\ Decide(w, "done")
  /\ Leave(w)
  /\ UNCHANGED <<inboxVars, deliveryVars, optOut>>

\* fail_job and defer_job: a deferral keeps its budget, an error may be the last.
GiveUp(w) ==
  /\ \/ at[w] \in {"deferred", "error"} /\ Decide(w, "open")
     \/ at[w] \in {"permanent", "error"} /\ Decide(w, "dead")
  /\ Leave(w)
  /\ UNCHANGED <<inboxVars, deliveryVars, optOut>>

\* An assertion of the lease fails, or the row is found to belong to another.
Overtaken(w) ==
  /\ at[w] \in {"begin", "look", "compose", "prepared", "marked", "done"} \cup Raised
  /\ ~(at[w] = "look" /\ kind[holds[w]] = "stop")
  /\ ~(at[w] = "compose" /\ planned[holds[w]] > 0)
  /\ ~current[w]
  /\ Abandon(w)
  /\ Leave(w)
  /\ UNCHANGED <<inboxVars, deliveryVars, optOut>>

Crash(w) ==
  /\ Abandon(w)
  /\ Leave(w)
  /\ UNCHANGED <<inboxVars, deliveryVars, optOut>>

\* The lease of a held job expires while no transaction holds its row.
Recover(r) ==
  /\ \A w \in Worker : ~(locked[w] /\ holds[w] = r)
  /\ \E end \in {"open", "dead"} : Revoke([q \in {r} |-> end])
  /\ UNCHANGED <<inboxVars, deliveryVars, optOut, placeVars>>

-----------------------------------------------------------------------------
Execution(w) ==
  \/ Begin(w) \/ Look(w) \/ Stop(w) \/ Start(w) \/ Silence(w) \/ Reset(w)
  \/ Compose(w) \/ Limit(w) \/ ComposeFails(w)
  \/ Answered(w) \/ SkipSent(w) \/ RefuseUnclear(w) \/ Prepare(w) \/ Mark(w) \/ Authorize(w)
  \/ Accept(w) \/ Decline(w) \/ Record(w)
  \/ Finish(w) \/ GiveUp(w) \/ Overtaken(w)

Next ==
  \/ \E r \in Receipt : Receive(r) \/ Replay(r) \/ Recover(r)
  \/ \E w \in Worker : Take(w) \/ Execution(w) \/ Crash(w)

Spec == Init /\ [][Next]_vars

-----------------------------------------------------------------------------
(* Safety *)

\* Meta accepts no part of a reply twice, whatever executions of the receipt are
\* interrupted, overtaken, retried or replayed, and whichever answers are lost.
AtMostOneCopy == \A e \in Effect : copies[e] <= 1

Sends(e) == copies'[e] > copies[e]

\* Once a STOP is durable nothing reaches the person until a START is: not even a
\* reply another stream had prepared, authorized or marked before it.
SendIsPermitted == \A e \in Effect : Sends(e) => ~optOut
NoSendAfterOptOut == [][SendIsPermitted]_vars

Resolves(r) == event[r] # "processed" /\ event'[r] = "processed"

Silences(r) == \E w \in Worker : at[w] = "silent" /\ holds[w] = r /\ at'[w] = "done"

\* A chat or START receipt is resolved only when every part of its reply has been
\* accepted and recorded, once each, or the notice that the limit is reached has,
\* or when its sender has opted out.
ResolutionIsAnswer ==
  \A r \in Receipt :
    Resolves(r) /\ kind[r] \in {"chat", "start"} /\ ~Silences(r) =>
      \E reply \in {{0}, 1..Effects(r)} \ {{}} :
        \A p \in reply : row[<<r, p>>] = "sent" /\ copies[<<r, p>>] = 1
ResolvedIsAnswered == [][ResolutionIsAnswer]_vars

Later(e, f) == Earlier(e[1], f[1]) \/ (e[1] = f[1] /\ 0 < e[2] /\ e[2] < f[2])

\* Replies reach the person in the order of the receipts and of their parts, through
\* dead letters, replays and overtaken executions, as long as their receipts are
\* unresolved.  A reply may be late when its receipt is resolved before it is sent:
\* by /new itself, or by an overtaken execution that loaded an older opt-out.
SendIsInOrder ==
  \A e \in Effect :
    Sends(e) /\ event[e[1]] = "received" =>
      \A f \in Effect : Later(e, f) => copies[f] = 0
RepliesInOrder == [][SendIsInOrder]_vars

\* Processing is serialized per sender and receiver: at most one current execution
\* is past the head check of a stream.
Processing(w) == current[w] /\ at[w] \notin {"begin", "done"} \cup Raised

SerializedPerSender ==
  \A v, w \in Worker :
    Processing(v) /\ Processing(w) /\ holds[v][1] = holds[w][1] => v = w

\* A claim is verified before an application effect: an execution whose receipt
\* another one has resolved does not change the opt-out any more.
OptOutFollowsReceipts ==
  [][\A w \in Worker :
       optOut' # optOut /\ at[w] \in {"stop", "start"} /\ at'[w] # at[w] =>
         current[w] \/ event[holds[w]] # "processed"]_vars

-----------------------------------------------------------------------------
(* Liveness.  Workers keep working and get the row locks they wait for; an       *)
(* abandoned job is recovered; the agent does not stay pending for ever; and a   *)
(* job is retried finitely often, because its attempts are bounded (BudgetIsKept *)
(* of JobRuntime) -- only deferrals are not.                                     *)

Retried(r) ==
  /\ phase[r] = "held" /\ phase'[r] = "open"
  /\ ~\E w \in Worker : holds[w] = r /\ at[w] = "deferred" /\ holds'[w] = None

Fairness ==
  /\ \A w \in Worker : WF_vars(Execution(w)) /\ SF_vars(Compose(w))
  /\ \A r \in Receipt : SF_vars(\E w \in Worker : Take(w) /\ holds'[w] = r)
  /\ \A r \in Receipt : WF_vars(Recover(r)) /\ <>[][~Retried(r)]_vars

FairSpec == Spec /\ Fairness

\* Every receipt is resolved, unless a dead letter of its stream holds it up.
EveryReceiptResolves ==
  \A r \in Receipt :
    event[r] = "received" ~>
      \/ event[r] = "processed"
      \/ \E q \in Receipt : (q = r \/ Earlier(q, r)) /\ phase[q] = "dead"

=============================================================================
