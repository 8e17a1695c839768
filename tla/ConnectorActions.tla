--------------------------- MODULE ConnectorActions ---------------------------
(***************************************************************************)
(* Writes to external services: a turn prepares an action, its user        *)
(* confirms or denies it in the web application or on WhatsApp, and the    *)
(* confirmed action is dispatched once (services/agent_actions.py,         *)
(* services/connector_executor.py), while operators and admins approve,    *)
(* authorize, restrict, reject and delete the connector behind it          *)
(* (routes/settings.py, routes/mcp_admin.py, services/mcp_oauth.py).       *)
(*                                                                         *)
(* One user, one conversation, one connector.  A turn that prepares an     *)
(* action holds the row of the conversation; so do /new and the dispatch.  *)
(* A decision may crash between its transactions.                          *)
(***************************************************************************)
EXTENDS Integers, FiniteSets

CONSTANTS
  Action,        \* the actions turns may prepare
  MessageOf,     \* the message whose turn prepares an action
  Decider,       \* requests and jobs that carry a decision of the user
  MaxCredential  \* bound: credentials ever stored for the connector

VARIABLES
  action,   \* the rows of pending_agent_actions
  sent,     \* how often the write of an action reached the service
  call,     \* what each decider does
  holder,   \* the transaction that holds the row of the conversation, and what it read
  open,     \* the conversation is open
  actor,    \* the user may authorize external writes
  mcp,      \* the row of mcp_connections and the permission of the tool
  request   \* a tenant admin's request on the connector, and what it read

vars == <<action, sent, call, holder, open, actor, mcp, request>>

-----------------------------------------------------------------------------
(* Types. *)

Credential == 0 .. MaxCredential        \* 0: none

McpStatus ==
  {"admin_pending", "approved", "oauth_in_progress", "active", "rejected", "error", "deleted"}

(* What validate_tool_permission accepts for a write tool of a connection that is not *)
(* read-only.                                                                         *)
Permission == {"deny", "write"}

Mcp == [status : McpStatus, approved : BOOLEAN, credential : Credential, permission : Permission]

ActionStatus ==
  {"none", "pending", "denied", "expired", "executing", "succeeded", "failed"}

(* The connector as it was when the action was previewed (authorization_revision); *)
(* only open rows are compared with it.                                           *)
Row == [status : {"pending", "executing"}, preview : Mcp]
       \cup [status : ActionStatus \ {"pending", "executing"}, preview : {{}}]

Settled(status) == [status |-> status, preview |-> {}]

NoAction == "no action"

Told == {"nothing", "done", "cancelled", "failed"}

TypeOK ==
  /\ action \in [Action -> Row]
  /\ sent \in [Action -> Nat]
  /\ call \in [Decider -> [phase : {"idle", "confirmed", "sent"}, action : Action \cup {NoAction}, told : Told]]
  /\ holder \in [by : {"none", "prepare", "new"}, action : Action \cup {NoAction}, stale : SUBSET Action]
  /\ open \in BOOLEAN /\ actor \in BOOLEAN
  /\ mcp \in Mcp
  /\ request \in [kind : {"none", "start", "callback", "permission"}, fallback : McpStatus]

Unheld == [by |-> "none", action |-> NoAction, stale |-> {}]

Requested == [status |-> "admin_pending", approved |-> FALSE,
              credential |-> 0, permission |-> "deny"]

NoRequest == [kind |-> "none", fallback |-> "approved"]

Init ==
  /\ action = [a \in Action |-> Settled("none")]
  /\ sent = [a \in Action |-> 0]
  /\ call = [d \in Decider |-> [phase |-> "idle", action |-> NoAction, told |-> "nothing"]]
  /\ holder = Unheld
  /\ open = TRUE
  /\ actor = TRUE
  /\ mcp = Requested
  /\ request = NoRequest

-----------------------------------------------------------------------------
(* Locks.  A dispatch holds the rows of the action, the conversation, the   *)
(* actor, the connector and the permission until its outcome is recorded.   *)

Dispatching == \E d \in Decider : call[d].phase = "sent"

ConversationFree == holder.by = "none" /\ ~ Dispatching

RowFree(a) == \A d \in Decider : call[d].phase = "sent" => call[d].action # a

-----------------------------------------------------------------------------
(* The connector.  Every UPDATE of its row waits for a dispatch. *)

ConnectorStep == ~ Dispatching /\ mcp.status # "deleted"
                 /\ UNCHANGED <<action, sent, call, holder, open, actor>>

(* revoke_oauth_token: whether the provider confirms or not, the credential is gone here. *)
Withdrawn(row) == [row EXCEPT !.credential = 0, !.permission = "deny", !.approved = FALSE]

(* decide_mcp_approval: approve seeds the write tool with deny. *)
Approve ==
  /\ ConnectorStep
  /\ mcp.status \in {"admin_pending", "rejected"}
  /\ mcp' = [mcp EXCEPT !.approved = TRUE, !.status = "approved", !.permission = "deny"]
  /\ UNCHANGED request

(* decide_mcp_approval: reject, the row locked over the revocation upstream. *)
Reject ==
  /\ ConnectorStep
  /\ mcp.status \in {"admin_pending", "approved", "oauth_in_progress", "active"}
  /\ mcp' = [Withdrawn(mcp) EXCEPT !.status = "rejected"]
  /\ UNCHANGED request

(* decode_oauth_state: the callback brings the state of an authorization that was started *)
(* here and has not expired; the same state may come again while the row waits for one.   *)
Awaited == mcp.status = "oauth_in_progress"

(* A tenant admin's request reads the connection without a lock, decides, and *)
(* then writes only the columns it changes, whatever happened to the others.   *)
RequestReads(kind) ==
  /\ request.kind = "none"
  /\ mcp.approved
  /\ kind = "start" => mcp.status \in {"approved", "active", "oauth_in_progress"}
  /\ kind = "callback" => Awaited
  /\ request' = [kind |-> kind, fallback |-> IF mcp.credential # 0 THEN "active" ELSE "approved"]
  /\ UNCHANGED <<action, sent, call, holder, open, actor, mcp>>

(* A deleted row fails the request. *)
RequestWrites(kind, row) ==
  /\ request.kind = kind
  /\ ~ Dispatching
  /\ mcp' = IF mcp.status = "deleted" THEN mcp ELSE row
  /\ request' = NoRequest
  /\ UNCHANGED <<action, sent, call, holder, open, actor>>

(* start_mcp_oauth. *)
StartOAuth == RequestWrites("start", [mcp EXCEPT !.status = "oauth_in_progress"])

(* update_mcp_permission, of a connection that is not read-only. *)
SetPermission(permission) ==
  RequestWrites("permission", [mcp EXCEPT !.permission = permission])

(* exchange_authorization_code: a bundle for the code, never one that was stored before. *)
Exchanged(row) == [row EXCEPT !.credential = @ + 1]

(* complete_mcp_oauth, the code exchanged between the reads and the writes. *)
CompleteOAuth ==
  /\ mcp.credential < MaxCredential
  /\ RequestWrites("callback", [Exchanged(mcp) EXCEPT !.status = "active"])

(* The exchange is refused, or the admin cancelled at the provider. *)
FallBack == RequestWrites("callback", [mcp EXCEPT !.status = request.fallback])

(* delete_mcp_connection. *)
DeleteConnection ==
  /\ ConnectorStep
  /\ mcp' = [Withdrawn(mcp) EXCEPT !.status = "deleted"]
  /\ UNCHANGED request

(* authorize_mcp_tool of a write. *)
Authorized == mcp.status = "active" /\ mcp.approved /\ mcp.credential # 0
              /\ mcp.permission = "write"

(* refresh_access_token: another bundle for the refresh token, or none: the provider has *)
(* none of the kind, refuses, is unreachable or answers with something else.             *)
Renewals(row) ==
  {[row EXCEPT !.status = "error"]}
  \cup (IF row.credential < MaxCredential THEN {[row EXCEPT !.credential = @ + 1]} ELSE {})

(* _access_token on a read: it renews expired credentials under the lock, or *)
(* the connector ends in error.  A write never renews.                       *)
ReadRenews ==
  /\ ConnectorStep
  /\ mcp.status = "active" /\ mcp.approved /\ mcp.credential # 0
  /\ mcp' \in Renewals(mcp)
  /\ UNCHANGED request

-----------------------------------------------------------------------------
(* The conversation and its user. *)

(* The membership, the tenant or the user is suspended or restored. *)
SetActor ==
  /\ ~ Dispatching
  /\ actor' = ~ actor
  /\ UNCHANGED <<action, sent, call, holder, open, mcp, request>>

PendingOf(messages) == {a \in Action : action[a].status = "pending" /\ MessageOf[a] \in messages}

(* prepare_pending_action of an active run: it holds the conversation, and   *)
(* reads the pending actions of other messages without their locks.  The     *)
(* same action is prepared once (idempotency_key).                           *)
PrepareReads(a) ==
  /\ ConversationFree
  /\ open /\ actor /\ Authorized
  /\ action[a].status = "none"
  /\ holder' = [by |-> "prepare", action |-> a,
                stale |-> PendingOf({MessageOf[b] : b \in Action} \ {MessageOf[a]})]
  /\ UNCHANGED <<action, sent, call, open, actor, mcp, request>>

Expired(rows, stale) ==
  [a \in Action |-> IF a \in stale THEN Settled("expired") ELSE rows[a]]

(* Its commit, with the authorization_revision of now. *)
PrepareCommits ==
  /\ holder.by = "prepare"
  /\ \A a \in holder.stale : RowFree(a)
  /\ action' = [Expired(action, holder.stale)
                  EXCEPT ![holder.action] = [status |-> "pending", preview |-> mcp]]
  /\ holder' = Unheld
  /\ UNCHANGED <<sent, call, open, actor, mcp, request>>

(* /new: cancel_conversation closes the conversation and expires what it read *)
(* as pending.                                                                *)
NewReads ==
  /\ ConversationFree
  /\ open
  /\ holder' = [by |-> "new", action |-> NoAction, stale |-> PendingOf({MessageOf[a] : a \in Action})]
  /\ UNCHANGED <<action, sent, call, open, actor, mcp, request>>

NewCommits ==
  /\ holder.by = "new"
  /\ \A a \in holder.stale : RowFree(a)
  /\ action' = Expired(action, holder.stale)
  /\ open' = FALSE
  /\ holder' = Unheld
  /\ UNCHANGED <<sent, call, actor, mcp, request>>

(* The transaction of either is rolled back, by a crash or as the victim of a *)
(* deadlock with a decision that holds the row of an action.                  *)
HolderAborts ==
  /\ holder.by # "none"
  /\ holder' = Unheld
  /\ UNCHANGED <<action, sent, call, open, actor, mcp, request>>

-----------------------------------------------------------------------------
(* The decision. *)

Tell(d, a, told) == call' = [call EXCEPT ![d] = [phase |-> "idle", action |-> a, told |-> told]]

Decides(d, a) == call[d].phase = "idle" /\ action[a].status # "none" /\ RowFree(a)

(* decide_pending_action of an action that is no longer pending. *)
DecideSettled(d, a) ==
  /\ Decides(d, a)
  /\ action[a].status # "pending"
  /\ Tell(d, a, IF action[a].status = "succeeded" THEN "done" ELSE "failed")
  /\ UNCHANGED <<action, sent, holder, open, actor, mcp, request>>

(* Its expires_at has passed: a choice, made where the clock is read. *)
DecideLate(d, a) ==
  /\ Decides(d, a)
  /\ action[a].status = "pending"
  /\ action' = [action EXCEPT ![a] = Settled("expired")]
  /\ Tell(d, a, "failed")
  /\ UNCHANGED <<sent, holder, open, actor, mcp, request>>

(* A mutant of Deny: a confirmed action may still be cancelled. *)
DenyUnsettled(d, a) ==
  /\ Decides(d, a)
  /\ action[a].status \in {"pending", "executing"}
  /\ action' = [action EXCEPT ![a] = Settled("denied")]
  /\ Tell(d, a, "cancelled")
  /\ UNCHANGED <<sent, holder, open, actor, mcp, request>>

Deny(d, a) ==
  /\ Decides(d, a)
  /\ action[a].status = "pending"
  /\ action' = [action EXCEPT ![a] = Settled("denied")]
  /\ Tell(d, a, "cancelled")
  /\ UNCHANGED <<sent, holder, open, actor, mcp, request>>

(* _validate_bound_source, require_write_actor and authorization_revision. *)
StillValid(a) == open /\ actor /\ action[a].preview = mcp

(* A mutant of Confirm: an action left executing by a crash is confirmed again. *)
ConfirmAgain(d, a) ==
  /\ Decides(d, a)
  /\ ConversationFree
  /\ action[a].status \in {"pending", "executing"}
  /\ StillValid(a)
  /\ action' = [action EXCEPT ![a].status = "executing"]
  /\ call' = [call EXCEPT ![d] = [phase |-> "confirmed", action |-> a, told |-> "nothing"]]
  /\ UNCHANGED <<sent, holder, open, actor, mcp, request>>

Confirm(d, a) ==
  /\ Decides(d, a)
  /\ ConversationFree
  /\ action[a].status = "pending"
  /\ IF StillValid(a)
     THEN /\ action' = [action EXCEPT ![a].status = "executing"]
          /\ call' = [call EXCEPT ![d] = [phase |-> "confirmed", action |-> a, told |-> "nothing"]]
     ELSE /\ Tell(d, a, "failed")
          /\ action' = action
  /\ UNCHANGED <<sent, holder, open, actor, mcp, request>>

(* A mutant of MayDispatch: the checks of the confirmation are trusted. *)
ConfirmationTrusted(a) == action[a].status = "executing" /\ Authorized

(* before_dispatch: everything is checked again under locks that are kept. *)
MayDispatch(a) ==
  action[a].status = "executing" /\ StillValid(a) /\ Authorized

(* The external request, which may have taken effect or not when it fails. *)
Dispatch(d) ==
  LET a == call[d].action
  IN /\ call[d].phase = "confirmed"
     /\ ConversationFree
     /\ MayDispatch(a)
     /\ sent' = [sent EXCEPT ![a] = @ + 1]
     /\ call' = [call EXCEPT ![d].phase = "sent"]
     /\ UNCHANGED <<action, holder, open, actor, mcp, request>>

(* A check fails, or the request never reaches the service. *)
DispatchFails(d) ==
  LET a == call[d].action
  IN /\ call[d].phase = "confirmed"
     /\ ConversationFree
     /\ action' = [action EXCEPT ![a] = Settled("failed")]
     /\ Tell(d, a, "failed")
     /\ UNCHANGED <<sent, holder, open, actor, mcp, request>>

(* The outcome is recorded: a write that took effect may still answer with an *)
(* error or a timeout.                                                        *)
Record(d, answered) ==
  LET a == call[d].action
  IN /\ call[d].phase = "sent"
     /\ action' = [action EXCEPT ![a] = Settled(IF answered THEN "succeeded" ELSE "failed")]
     /\ Tell(d, a, IF answered THEN "done" ELSE "failed")
     /\ UNCHANGED <<sent, holder, open, actor, mcp, request>>

(* The request dies or its job loses the lease; the row stays executing.  The *)
(* user, or the next attempt of the job, may decide again.                    *)
Crash(d) ==
  /\ call[d].phase # "idle"
  /\ call' = [call EXCEPT ![d] = [@ EXCEPT !.phase = "idle", !.told = "nothing"]]
  /\ UNCHANGED <<action, sent, holder, open, actor, mcp, request>>

Next ==
  \/ Approve \/ Reject \/ StartOAuth \/ CompleteOAuth \/ FallBack \/ DeleteConnection
  \/ \E kind \in {"start", "callback", "permission"} : RequestReads(kind)
  \/ \E permission \in Permission : SetPermission(permission)
  \/ ReadRenews \/ SetActor \/ NewReads \/ NewCommits \/ PrepareCommits \/ HolderAborts
  \/ \E a \in Action : PrepareReads(a)
  \/ \E d \in Decider, a \in Action : DecideSettled(d, a) \/ DecideLate(d, a) \/ Deny(d, a) \/ Confirm(d, a)
  \/ \E d \in Decider : Dispatch(d) \/ DispatchFails(d) \/ Crash(d)
  \/ \E d \in Decider, answered \in BOOLEAN : Record(d, answered)

Spec == Init /\ [][Next]_vars

-----------------------------------------------------------------------------
(* Properties. *)

(* An action is written once, if ever, however often it is decided and wherever *)
(* a decision crashes; and it keeps a record of it: an action that was sent      *)
(* never reads as pending, denied or expired, so nobody is told that nothing     *)
(* happened (decide_pending_action, prepare_pending_action, cancel_conversation). *)
SentOnceAndRecorded ==
  \A a \in Action :
    /\ sent[a] <= 1
    /\ sent[a] = 1 => action[a].status \in {"executing", "succeeded", "failed"}

(* "Done" and "Cancelled. Nothing was changed." stay true after they were said. *)
AnswersAreTrue ==
  \A d \in Decider :
    /\ call[d].told = "done" => sent[call[d].action] = 1
    /\ call[d].told = "cancelled" => sent[call[d].action] = 0

(* A write goes out only while the connector is exactly as the preview was shown *)
(* under, approved, and its user may still authorize writes in this conversation: *)
(* whoever withdraws any of these before the write stops it.                      *)
SentAsPreviewed ==
  [][\A a \in Action : sent'[a] > sent[a] =>
       /\ mcp.approved /\ mcp.status = "active" /\ mcp.permission = "write"
       /\ action[a].preview = mcp /\ actor /\ open]_vars

=============================================================================
