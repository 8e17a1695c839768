---------------------------- MODULE InsightDelivery ----------------------------
(***************************************************************************)
(* The optional business summaries: an owner subscribes a number of their  *)
(* own, the scheduler opens one job per revision of the subscription and   *)
(* calendar slot, and an execution sends at most one template message for  *)
(* the slot (services/proactive_insights.py, jobs/scheduler.py).           *)
(*                                                                         *)
(* One subscription.  Jobs are those of JobLedger: an execution may go on  *)
(* after its job was taken from it.                                        *)
(***************************************************************************)
EXTENDS Integers

CONSTANTS
  Worker,
  MaxSlot,        \* bound: days, or weeks
  MaxRevision,    \* bound: saved changes of the subscription
  MaxGeneration,  \* bound: publications of the orders a summary is made from
  None

VARIABLES
  phase, holds, current,  \* the job ledger
  sub,        \* the row of the subscription
  reachable,  \* an active owner or admin, their number approved and not opted out
  due,        \* the last slot whose hour has come
  published,  \* the published generation of the orders
  row,        \* of each slot: the status and envelope of its outbound message
  copies,     \* of each slot: the summaries Meta accepted
  at,         \* a worker's place in deliver_proactive_insight
  source      \* the generation it made its summary from

Slot == 1..MaxSlot
JobKey == (1..MaxRevision) \X Slot

INSTANCE JobLedger WITH Job <- JobKey

jobVars == <<phase, holds, current>>
vars == <<jobVars, sub, reachable, due, published, row, copies, at, source>>

Envelope == [revision : 0..MaxRevision, generation : 0..MaxGeneration]
NoRow == [status |-> "none", envelope |-> [revision |-> 0, generation |-> 0]]

TypeOK ==
  /\ LedgerTypeOK
  /\ sub \in [status : {"off", "active", "paused"}, revision : 0..MaxRevision]
  /\ reachable \in BOOLEAN
  /\ due \in 0..MaxSlot + 1
  /\ published \in 0..MaxGeneration
  /\ row \in [Slot -> [status : {"none", "prepared", "sending", "sent", "failed", "cancelled",
                                 "ambiguous", "rejected"},
                       envelope : Envelope]]
  /\ copies \in [Slot -> Nat]
  /\ at \in [Worker -> {"idle", "begin", "prepared", "marked", "calling", "accepted", "unanswered",
                        "throttled", "refused"}]
  /\ source \in [Worker -> 0..MaxGeneration]

Init ==
  /\ LedgerInit
  /\ sub = [status |-> "off", revision |-> 0]
  /\ reachable = TRUE
  /\ due = 0
  /\ published = 0
  /\ row = [s \in Slot |-> NoRow]
  /\ copies = [s \in Slot |-> 0]
  /\ at = [w \in Worker |-> "idle"]
  /\ source = [w \in Worker |-> 0]

-----------------------------------------------------------------------------
\* The actor, the subscription, the number and the connection are locked from the
\* last check to the recorded outcome of the send; so is the row of the job.
Locking(w) == at[w] \in {"calling", "accepted", "unanswered", "throttled", "refused"}

\* Mutant of RowsFree: the checks before the send do not lock what they read.
RowsUnlocked == TRUE

\* No send is under way.
RowsFree == \A w \in Worker : ~Locking(w)

\* update_subscription with the revision its owner reviewed.
Save(status) ==
  /\ RowsFree
  /\ sub.revision < MaxRevision
  /\ status = "active" => reachable
  /\ status = "paused" => sub.status # "off"
  /\ sub' = [status |-> status, revision |-> sub.revision + 1]
  /\ UNCHANGED <<jobVars, reachable, due, published, row, copies, at, source>>

\* STOP and START on the number, a suspended owner or business.
SetReachable ==
  /\ RowsFree
  /\ reachable' = ~reachable
  /\ UNCHANGED <<jobVars, sub, due, published, row, copies, at, source>>

NextSlot ==
  /\ due <= MaxSlot
  /\ due' = due + 1
  /\ UNCHANGED <<jobVars, sub, reachable, published, row, copies, at, source>>

\* A sync publishes complete orders.
Publish ==
  /\ RowsFree
  /\ published < MaxGeneration
  /\ published' = published + 1
  /\ UNCHANGED <<jobVars, sub, reachable, due, row, copies, at, source>>

\* _ensure_proactive_insight_jobs, whose idempotency key names revision and slot.
Schedule ==
  /\ sub.status = "active" /\ due \in Slot
  /\ phase[<<sub.revision, due>>] = "absent"
  /\ Open(<<sub.revision, due>>)
  /\ UNCHANGED <<sub, reachable, due, published, row, copies, at, source>>

-----------------------------------------------------------------------------
\* The places of an execution.
GoTo(w, place) == at' = [at EXCEPT ![w] = place]
Leave(w) == GoTo(w, "idle") /\ source' = [source EXCEPT ![w] = 0]

RevisionOf(w) == holds[w][1]
SlotOf(w) == holds[w][2]
StatusOf(w) == row[SlotOf(w)].status
SetStatus(w, status) == row' = [row EXCEPT ![SlotOf(w)].status = status]

Take(w) ==
  /\ \E j \in JobKey : Grant(w, j)
  /\ GoTo(w, "begin")
  /\ UNCHANGED <<sub, reachable, due, published, row, copies, source>>

\* _eligible.
Eligible(w) == sub.status = "active" /\ sub.revision = RevisionOf(w) /\ reachable

\* The job ends without a message: not eligible, a slot that is over, no fresh and
\* complete orders (fresh is a matter of the clock), or a summary that was sent.
Skip(w) ==
  /\ at[w] = "begin"
  /\ RowsFree
  /\ Decide(w, "done")
  /\ Leave(w)
  /\ UNCHANGED <<sub, reachable, due, published, row, copies>>

Intent(w) == [revision |-> RevisionOf(w), generation |-> published]

MayCompose(w) ==
  at[w] = "begin" /\ RowsFree /\ Eligible(w) /\ due = SlotOf(w) /\ published > 0

Composes(w) ==
  /\ MayCompose(w)
  /\ source' = [source EXCEPT ![w] = published]
  /\ UNCHANGED <<jobVars, sub, reachable, due, published, copies>>

\* The intent is durable before anything else happens for it.
Prepare(w) ==
  /\ Composes(w)
  /\ StatusOf(w) = "none"
  /\ row' = [row EXCEPT ![SlotOf(w)] = [status |-> "prepared", envelope |-> Intent(w)]]
  /\ GoTo(w, "prepared")

\* Mutant of Claimable: what may have been sent is sent again.
ClaimableIfUnsent == {"prepared", "failed", "sending"}

Claimable == {"prepared", "failed"}

\* A later execution takes up the same intent, and no other.
Resume(w) ==
  /\ Composes(w)
  /\ StatusOf(w) \in Claimable
  /\ row[SlotOf(w)].envelope = Intent(w)
  /\ SetStatus(w, "sending")
  /\ GoTo(w, "marked")

Claim(w) ==
  /\ at[w] = "prepared"
  /\ StatusOf(w) \in Claimable
  /\ SetStatus(w, "sending")
  /\ GoTo(w, "marked")
  /\ UNCHANGED <<jobVars, sub, reachable, due, published, copies, source>>

\* The execution ends, and decides what becomes of a job that is still its own.
End(w, end) ==
  /\ IF current[w] THEN Decide(w, end) ELSE Abandon(w)
  /\ Leave(w)

\* Another execution for the slot inserted its intent first.
InsertedByAnother(w) ==
  \E v \in Worker \ {w} : at[v] # "idle" /\ SlotOf(v) = SlotOf(w)

\* An intent that is claimed, unclear, cancelled, changed or not its own is left to an
\* operator.
Refuse(w) ==
  /\ \/ /\ MayCompose(w)
        /\ StatusOf(w) \notin Claimable \cup {"none", "sent"}
     \/ /\ MayCompose(w)
        /\ StatusOf(w) \in Claimable
        /\ row[SlotOf(w)].envelope # Intent(w) \/ InsertedByAnother(w)
     \/ /\ at[w] = "prepared"
        /\ StatusOf(w) \notin Claimable
  /\ End(w, "dead")
  /\ UNCHANGED <<sub, reachable, due, published, row, copies>>

\* Everything is read again under locks: withdrawn, the message is cancelled.
StillWanted(w) == Eligible(w) /\ published = source[w]

Authorize(w) ==
  /\ at[w] = "marked"
  /\ RowsFree
  /\ current[w]
  /\ StillWanted(w)
  /\ GoTo(w, "calling")
  /\ UNCHANGED <<jobVars, sub, reachable, due, published, row, copies, source>>

Cancel(w) ==
  /\ at[w] = "marked"
  /\ RowsFree
  /\ ~StillWanted(w)
  /\ SetStatus(w, "cancelled")
  /\ End(w, "done")
  /\ UNCHANGED <<sub, reachable, due, published, copies>>

\* Meta accepts the template; its answer may be lost.
Accept(w) ==
  /\ at[w] = "calling"
  /\ copies' = [copies EXCEPT ![SlotOf(w)] = @ + 1]
  /\ \E place \in {"accepted", "unanswered"} : GoTo(w, place)
  /\ UNCHANGED <<jobVars, sub, reachable, due, published, row, source>>

Decline(w) ==
  /\ at[w] = "calling"
  /\ \E place \in {"unanswered", "throttled", "refused"} : GoTo(w, place)
  /\ UNCHANGED <<jobVars, sub, reachable, due, published, row, copies, source>>

\* Mutant of Outcome: the row keeps the name of the error.
OutcomeAsRaised(place) == IF place = "accepted" THEN "sent" ELSE place

\* A throttled send is retried, an unclear one never.
Outcome(place) ==
  CASE place = "accepted" -> "sent"
    [] place = "unanswered" -> "ambiguous"
    [] place = "throttled" -> "failed"
    [] place = "refused" -> "rejected"

\* The outcome and, when it is sent, the canonical event of the conversation are one
\* transaction.
Record(w) ==
  LET status == Outcome(at[w])
  IN /\ at[w] \in {"accepted", "unanswered", "throttled", "refused"}
     /\ SetStatus(w, status)
     /\ End(w, CASE status = "sent" -> "done" [] status = "failed" -> "open" [] OTHER -> "dead")
     /\ UNCHANGED <<sub, reachable, due, published, copies>>

\* An overtaken execution meets an assertion of its lease; a worker dies.
Overtaken(w) ==
  /\ at[w] # "idle"
  /\ Abandon(w)
  /\ Leave(w)
  /\ UNCHANGED <<sub, reachable, due, published, row, copies>>

Recover(j) ==
  /\ \A w \in Worker : ~(Locking(w) /\ holds[w] = j /\ current[w])
  /\ \E end \in {"open", "dead"} : Revoke([k \in {j} |-> end])
  /\ UNCHANGED <<sub, reachable, due, published, row, copies, at, source>>

Next ==
  \/ \E status \in {"active", "paused"} : Save(status)
  \/ SetReachable \/ NextSlot \/ Publish \/ Schedule
  \/ \E w \in Worker : Take(w) \/ Skip(w) \/ Prepare(w) \/ Resume(w) \/ Claim(w) \/ Refuse(w)
  \/ \E w \in Worker : Authorize(w) \/ Cancel(w) \/ Accept(w) \/ Decline(w) \/ Record(w)
  \/ \E w \in Worker : Overtaken(w)
  \/ \E j \in JobKey : Recover(j)

Spec == Init /\ [][Next]_vars

-----------------------------------------------------------------------------
\* A slot brings at most one summary, however often the subscription is paused and
\* renewed, its jobs retried, overtaken or interrupted, and the answers of Meta lost.
OneSummaryPerSlot == \A s \in Slot : copies[s] <= 1

\* A summary goes out only while the very revision of the subscription it was made
\* for is active, its owner may and wants to be reached at the number, and the orders
\* it was made from are the published ones: a pause, a STOP or a newer publication
\* that is saved before the send stops it.
SentAsWanted ==
  [][\A s \in Slot : copies'[s] > copies[s] =>
       /\ sub.status = "active" /\ sub.revision = row[s].envelope.revision
       /\ reachable
       /\ published = row[s].envelope.generation]_vars

=============================================================================
