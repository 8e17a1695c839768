------------------------ MODULE ConnectorActionsProofs ------------------------
(***************************************************************************)
(* What holds of ConnectorActions for any actions, messages and deciders:  *)
(* a write goes out once, it is recorded, what the user was told of it     *)
(* stays true, and it goes out only as it was previewed.                   *)
(*                                                                         *)
(* IInv adds why: a confirmed action belongs to one decision, whoever      *)
(* expires an action read it as pending while nobody could confirm it, and *)
(* an action that was cancelled is over.                                   *)
(***************************************************************************)
EXTENDS ConnectorActions, TLAPS

\* The bound is a number.
Parameters == MaxCredential \in Nat

\* A decision that goes on has confirmed its action, told nothing yet, and knows whether
\* the action was written.
ConfirmedIsExecuting ==
  \A d \in Decider : call[d].phase # "idle" =>
    /\ call[d].action \in Action /\ call[d].told = "nothing"
    /\ action[call[d].action].status = "executing"
    /\ sent[call[d].action] = IF call[d].phase = "sent" THEN 1 ELSE 0

\* No two of them are about the same action.
DecisionsAreApart ==
  \A d, e \in Decider :
    call[d].phase # "idle" /\ call[e].phase # "idle" /\ call[d].action = call[e].action => d = e

\* What the status of an action says of its write.
WrittenAsRecorded ==
  \A a \in Action :
    /\ sent[a] <= 1
    /\ action[a].status \in {"none", "pending", "denied", "expired"} => sent[a] = 0
    /\ action[a].status = "succeeded" => sent[a] = 1

\* What was told is of an action, and one that was cancelled is over.
ToldStands ==
  \A d \in Decider :
    /\ call[d].told # "nothing" => call[d].action \in Action
    /\ call[d].told = "done" => sent[call[d].action] = 1
    /\ call[d].told = "cancelled" => action[call[d].action].status \in {"denied", "expired"}

\* What a transaction that holds the conversation is about to expire was not confirmed
\* since it read it, and what it prepares is new.
HeldIsUnconfirmed ==
  /\ holder.by # "none" =>
       \A a \in holder.stale : action[a].status \in {"pending", "denied", "expired"}
  /\ holder.by = "prepare" => holder.action \in Action /\ action[holder.action].status = "none"

IInv ==
  /\ ConfirmedIsExecuting
  /\ DecisionsAreApart
  /\ WrittenAsRecorded
  /\ ToldStands
  /\ HeldIsUnconfirmed

-----------------------------------------------------------------------------
(* Types *)

\* The connector as the steps write it.
LEMMA McpTypes ==
  ASSUME Parameters, TypeOK, NEW status \in McpStatus, NEW permission \in Permission
  PROVE  /\ [mcp EXCEPT !.status = status] \in Mcp
         /\ [mcp EXCEPT !.permission = permission] \in Mcp
         /\ [mcp EXCEPT !.approved = TRUE, !.status = "approved", !.permission = "deny"] \in Mcp
         /\ [Withdrawn(mcp) EXCEPT !.status = status] \in Mcp
         /\ mcp.credential < MaxCredential =>
              /\ [mcp EXCEPT !.credential = @ + 1] \in Mcp
              /\ [Exchanged(mcp) EXCEPT !.status = status] \in Mcp
<1>. mcp \in Mcp /\ MaxCredential \in Nat
  BY DEF TypeOK, Parameters
<1>1. /\ [mcp EXCEPT !.status = status] \in Mcp
      /\ [mcp EXCEPT !.permission = permission] \in Mcp
      /\ [mcp EXCEPT !.approved = TRUE, !.status = "approved", !.permission = "deny"] \in Mcp
  BY DEF Mcp, McpStatus, Permission
<1>2. [Withdrawn(mcp) EXCEPT !.status = status] \in Mcp
  <2>1. ASSUME NEW none \in Credential
        PROVE  [mcp EXCEPT !.credential = none, !.permission = "deny", !.approved = FALSE] \in Mcp
    BY DEF Mcp, Permission
  <2>2. 0 \in Credential
    BY DEF Credential
  <2>3. Withdrawn(mcp) \in Mcp
    BY <2>1, <2>2 DEF Withdrawn
  <2>. QED
    BY <2>3 DEF Mcp
<1>3. ASSUME mcp.credential < MaxCredential
      PROVE  [mcp EXCEPT !.credential = @ + 1] \in Mcp
  BY <1>3 DEF Mcp, Credential
<1>4. ASSUME mcp.credential < MaxCredential
      PROVE  [Exchanged(mcp) EXCEPT !.status = status] \in Mcp
  BY <1>3, <1>4 DEF Mcp, Exchanged
<1>. QED
  BY <1>1, <1>2, <1>3, <1>4

\* A settled row, and one that is prepared now.
LEMMA RowTypes ==
  ASSUME TypeOK
  PROVE  /\ \A status \in ActionStatus \ {"pending", "executing"} : Settled(status) \in Row
         /\ \A status \in {"pending", "executing"} : [status |-> status, preview |-> mcp] \in Row
         /\ \A a \in Action : action[a].status \in {"pending", "executing"} =>
              [action[a] EXCEPT !.status = "executing"] \in Row
         /\ \A stale : Expired(action, stale) \in [Action -> Row]
BY DEF TypeOK, Row, Settled, Expired, ActionStatus

\* Every step keeps every variable in its type.
LEMMA TypeStep == ASSUME Parameters, TypeOK, IInv, [Next]_vars PROVE TypeOK'
<1>1. CASE Approve \/ Reject \/ DeleteConnection \/ ReadRenews
  <2>1. mcp' \in Mcp
    BY <1>1, McpTypes
      DEF Approve, Reject, DeleteConnection, ReadRenews, Renewals, McpStatus, Permission
  <2>. QED
    BY <1>1, <2>1
      DEF Approve, Reject, DeleteConnection, ReadRenews, ConnectorStep, TypeOK
<1>2. CASE \/ StartOAuth \/ CompleteOAuth \/ FallBack
           \/ \E permission \in Permission : SetPermission(permission)
  <2>1. request.fallback \in McpStatus /\ mcp \in Mcp /\ NoRequest.fallback \in McpStatus
    BY DEF TypeOK, NoRequest, McpStatus
  <2>2. mcp' \in Mcp /\ request' = NoRequest
    BY <1>2, <2>1, McpTypes
      DEF StartOAuth, CompleteOAuth, FallBack, SetPermission, RequestWrites, McpStatus,
        Permission
  <2>. QED
    BY <1>2, <2>2
      DEF StartOAuth, CompleteOAuth, FallBack, SetPermission, RequestWrites, TypeOK,
        NoRequest, McpStatus
<1>3. ASSUME NEW kind \in {"start", "callback", "permission"}, RequestReads(kind)
      PROVE  TypeOK'
  BY <1>3 DEF RequestReads, TypeOK, McpStatus
<1>4. CASE SetActor
  BY <1>4 DEF SetActor, TypeOK
<1>5. CASE NewReads \/ HolderAborts \/ \E a \in Action : PrepareReads(a)
  BY <1>5 DEF NewReads, HolderAborts, PrepareReads, Unheld, PendingOf, TypeOK
<1>6. CASE NewCommits
  BY <1>6, RowTypes DEF NewCommits, Unheld, TypeOK
<1>7. CASE PrepareCommits
  <2>1. /\ Expired(action, holder.stale) \in [Action -> Row]
        /\ [status |-> "pending", preview |-> mcp] \in Row
    BY RowTypes
  <2>2. action' \in [Action -> Row]
    BY <1>7, <2>1 DEF PrepareCommits
  <2>. QED
    BY <1>7, <2>2 DEF PrepareCommits, Unheld, TypeOK
<1>8. ASSUME NEW d \in Decider, NEW a \in Action,
             DecideSettled(d, a) \/ DecideLate(d, a) \/ Deny(d, a)
      PROVE  TypeOK'
  <2>1. action' \in [Action -> Row]
    BY <1>8, RowTypes DEF DecideSettled, DecideLate, Deny, TypeOK, ActionStatus
  <2>2. PICK told \in Told : Tell(d, a, told)
    BY <1>8 DEF DecideSettled, DecideLate, Deny, Told
  <2>. QED
    BY <1>8, <2>1, <2>2 DEF DecideSettled, DecideLate, Deny, Tell, TypeOK
<1>9. ASSUME NEW d \in Decider, NEW a \in Action, Confirm(d, a) PROVE TypeOK'
  <2>1. action' \in [Action -> Row]
    BY <1>9, RowTypes DEF Confirm, TypeOK
  <2>2. PICK phase \in {"idle", "confirmed"}, told \in {"nothing", "failed"} :
          call' = [call EXCEPT ![d] = [phase |-> phase, action |-> a, told |-> told]]
    BY <1>9 DEF Confirm, Tell
  <2>. QED
    BY <1>9, <2>1, <2>2 DEF Confirm, TypeOK, Told
<1>10. ASSUME NEW d \in Decider, Dispatch(d) PROVE TypeOK'
  <2>1. sent' \in [Action -> Nat]
    BY <1>10 DEF Dispatch, TypeOK, IInv, ConfirmedIsExecuting
  <2>2. call' \in [Decider -> [phase : {"idle", "confirmed", "sent"},
                              action : Action \cup {NoAction}, told : Told]]
    BY <1>10 DEF Dispatch, TypeOK
  <2>. QED
    BY <1>10, <2>1, <2>2 DEF Dispatch, TypeOK
<1>11. ASSUME NEW d \in Decider,
              DispatchFails(d) \/ \E answered \in BOOLEAN : Record(d, answered)
       PROVE  TypeOK'
  <2>1. call[d].action \in Action
    BY <1>11 DEF DispatchFails, Record, IInv, ConfirmedIsExecuting
  <2>2. PICK status \in {"failed", "succeeded"}, told \in {"done", "failed"} :
          /\ action' = [action EXCEPT ![call[d].action] = Settled(status)]
          /\ call' = [call EXCEPT
               ![d] = [phase |-> "idle", action |-> call[d].action, told |-> told]]
    BY <1>11 DEF DispatchFails, Record, Tell
  <2>. QED
    BY <1>11, <2>1, <2>2, RowTypes DEF DispatchFails, Record, TypeOK, Told, ActionStatus
<1>12. ASSUME NEW d \in Decider, Crash(d) PROVE TypeOK'
  <2>1. UNCHANGED <<action, sent, holder, open, actor, mcp, request>>
    BY <1>12 DEF Crash
  <2>2. call' \in [Decider ->
          [phase : {"idle", "confirmed", "sent"}, action : Action \cup {NoAction}, told : Told]]
    <3>1. ASSUME NEW c \in [phase : {"idle", "confirmed", "sent"},
                            action : Action \cup {NoAction}, told : Told]
          PROVE  [c EXCEPT !.phase = "idle", !.told = "nothing"] \in
                   [phase : {"idle", "confirmed", "sent"},
                    action : Action \cup {NoAction}, told : Told]
      BY <3>1 DEF Told
    <3>. QED
      BY <1>12, <3>1 DEF Crash, TypeOK
  <2>. QED
    BY <2>1, <2>2 DEF TypeOK
<1>13. CASE UNCHANGED vars
  BY <1>13 DEF vars, TypeOK
<1>. QED
  BY <1>1, <1>2, <1>3, <1>4, <1>5, <1>6, <1>7, <1>8, <1>9, <1>10, <1>11, <1>12, <1>13 DEF Next

-----------------------------------------------------------------------------
(* The inductive invariant *)

\* The connector and its requests, the actor and whether the conversation is open are not
\* in it, and a transaction that only reads holds what is pending now.
LEMMA OutsideStep ==
  ASSUME TypeOK, IInv, UNCHANGED <<action, sent, call>>,
         \/ UNCHANGED holder
         \/ holder' = Unheld
         \/ /\ \A b \in holder'.stale : action[b].status = "pending"
            /\ \/ holder'.by = "new"
               \/ holder'.action \in Action /\ action[holder'.action].status = "none"
  PROVE  IInv'
BY DEF IInv, ConfirmedIsExecuting, DecisionsAreApart, WrittenAsRecorded, ToldStands,
  HeldIsUnconfirmed, Unheld

\* The commit of a transaction that held the conversation.
LEMMA CommitStep ==
  ASSUME TypeOK, IInv, UNCHANGED <<sent, call>>, holder.by # "none", holder' = Unheld,
         \A a \in Action :
           \/ action'[a] = action[a]
           \/ a \in holder.stale /\ action'[a].status = "expired"
           \/ action[a].status = "none" /\ action'[a].status = "pending"
  PROVE  IInv'
<1>1. \A d \in Decider : call[d].phase # "idle" =>
        action'[call[d].action] = action[call[d].action]
  BY DEF IInv, ConfirmedIsExecuting, HeldIsUnconfirmed
<1>2. ConfirmedIsExecuting' /\ DecisionsAreApart'
  BY <1>1 DEF IInv, ConfirmedIsExecuting, DecisionsAreApart
<1>3. WrittenAsRecorded'
  BY DEF IInv, WrittenAsRecorded, HeldIsUnconfirmed
<1>4. ToldStands'
  BY DEF IInv, ToldStands, HeldIsUnconfirmed
<1>5. HeldIsUnconfirmed'
  BY DEF HeldIsUnconfirmed, Unheld
<1>. QED
  BY <1>2, <1>3, <1>4, <1>5 DEF IInv

\* A decision about an action that none is confirming: what it makes of its row and tells.
LEMMA DecideStep ==
  ASSUME TypeOK, IInv, NEW d \in Decider, NEW a \in Action, UNCHANGED <<sent, holder>>,
         call[d].phase = "idle", call'[d].phase = "idle", call'[d].action = a,
         \A e \in Decider \ {d} : call'[e] = call[e],
         \A b \in Action \ {a} : action'[b] = action[b],
         \/ action'[a] = action[a]
         \/ action[a].status = "pending" /\ action'[a].status \in {"denied", "expired"},
         call'[d].told = "done" => action[a].status = "succeeded",
         call'[d].told = "cancelled" => action'[a].status = "denied"
  PROVE  IInv'
<1>1. ConfirmedIsExecuting'
  BY DEF IInv, ConfirmedIsExecuting
<1>2. DecisionsAreApart'
  BY DEF IInv, DecisionsAreApart
<1>3. WrittenAsRecorded'
  BY DEF IInv, WrittenAsRecorded
<1>4. ToldStands'
  BY DEF IInv, ToldStands, WrittenAsRecorded
<1>5. HeldIsUnconfirmed'
  BY DEF IInv, HeldIsUnconfirmed, TypeOK
<1>. QED
  BY <1>1, <1>2, <1>3, <1>4, <1>5 DEF IInv

\* A decision confirms a pending action while nobody holds the conversation.
LEMMA ConfirmStep ==
  ASSUME TypeOK, IInv, NEW d \in Decider, NEW a \in Action, UNCHANGED <<sent, holder>>,
         holder.by = "none", call[d].phase = "idle", action[a].status = "pending",
         call'[d] = [phase |-> "confirmed", action |-> a, told |-> "nothing"],
         \A e \in Decider \ {d} : call'[e] = call[e],
         \A b \in Action \ {a} : action'[b] = action[b],
         action'[a].status = "executing"
  PROVE  IInv'
<1>1. \A e \in Decider \ {d} : call[e].phase # "idle" => call[e].action # a
  BY DEF IInv, ConfirmedIsExecuting
<1>2. ConfirmedIsExecuting'
  BY DEF IInv, ConfirmedIsExecuting, WrittenAsRecorded
<1>3. DecisionsAreApart'
  BY <1>1 DEF IInv, DecisionsAreApart
<1>4. WrittenAsRecorded'
  BY DEF IInv, WrittenAsRecorded
<1>5. ToldStands'
  BY DEF IInv, ToldStands
<1>6. HeldIsUnconfirmed'
  BY DEF HeldIsUnconfirmed
<1>. QED
  BY <1>2, <1>3, <1>4, <1>5, <1>6 DEF IInv

\* A confirmed action is written: it was not before, and no other decision writes it.
LEMMA DispatchStep == ASSUME TypeOK, IInv, NEW d \in Decider, Dispatch(d) PROVE IInv'
<1>. DEFINE a == call[d].action
<1>1. /\ call[d].phase = "confirmed" /\ a \in Action /\ call[d].told = "nothing"
      /\ action[a].status = "executing" /\ sent[a] = 0 /\ holder.by = "none"
      /\ UNCHANGED <<action, holder>>
  BY DEF Dispatch, ConversationFree, IInv, ConfirmedIsExecuting
<1>2. sent'[a] = 1 /\ \A b \in Action \ {a} : sent'[b] = sent[b]
  BY <1>1 DEF Dispatch, TypeOK
<1>3. /\ call'[d].phase = "sent" /\ call'[d].action = a /\ call'[d].told = "nothing"
      /\ \A e \in Decider \ {d} : call'[e] = call[e]
  BY <1>1 DEF Dispatch, TypeOK
<1>4. \A e \in Decider \ {d} : call[e].phase # "idle" => call[e].action # a
  BY <1>1 DEF IInv, DecisionsAreApart
<1>5. ConfirmedIsExecuting'
  BY <1>1, <1>2, <1>3, <1>4 DEF IInv, ConfirmedIsExecuting
<1>6. DecisionsAreApart'
  BY <1>1, <1>3 DEF IInv, DecisionsAreApart
<1>7. WrittenAsRecorded'
  BY <1>1, <1>2 DEF IInv, WrittenAsRecorded
<1>8. ToldStands'
  BY <1>1, <1>2, <1>3 DEF IInv, ToldStands
<1>9. HeldIsUnconfirmed'
  BY <1>1 DEF HeldIsUnconfirmed
<1>. QED
  BY <1>5, <1>6, <1>7, <1>8, <1>9 DEF IInv

\* A decision ends with an outcome of its action: one that was not written fails.
LEMMA OutcomeStep ==
  ASSUME TypeOK, IInv, NEW d \in Decider, call[d].phase # "idle", UNCHANGED <<sent, holder>>,
         NEW status \in {"succeeded", "failed"},
         status = "succeeded" => call[d].phase = "sent",
         action' = [action EXCEPT ![call[d].action] = Settled(status)],
         Tell(d, call[d].action, IF status = "succeeded" THEN "done" ELSE "failed")
  PROVE  IInv'
<1>. DEFINE a == call[d].action
<1>1. /\ a \in Action /\ action[a].status = "executing"
      /\ status = "succeeded" => sent[a] = 1
  BY DEF IInv, ConfirmedIsExecuting
<1>2. action'[a].status = status /\ \A b \in Action \ {a} : action'[b] = action[b]
  BY <1>1 DEF TypeOK, Settled
<1>3. /\ call'[d].phase = "idle" /\ call'[d].action = a
      /\ call'[d].told = IF status = "succeeded" THEN "done" ELSE "failed"
      /\ \A e \in Decider \ {d} : call'[e] = call[e]
  BY DEF Tell, TypeOK
<1>4. \A e \in Decider \ {d} : call[e].phase # "idle" => call[e].action # a
  BY DEF IInv, DecisionsAreApart
<1>5. ConfirmedIsExecuting'
  BY <1>1, <1>2, <1>3, <1>4 DEF IInv, ConfirmedIsExecuting
<1>6. DecisionsAreApart'
  BY <1>1, <1>3 DEF IInv, DecisionsAreApart
<1>7. WrittenAsRecorded'
  BY <1>1, <1>2 DEF IInv, WrittenAsRecorded
<1>8. ToldStands'
  BY <1>1, <1>2, <1>3 DEF IInv, ToldStands
<1>9. HeldIsUnconfirmed'
  BY <1>1, <1>2 DEF IInv, HeldIsUnconfirmed, TypeOK
<1>. QED
  BY <1>5, <1>6, <1>7, <1>8, <1>9 DEF IInv

\* A decision dies: the row of its action stays as it is.
LEMMA CrashStep == ASSUME TypeOK, IInv, NEW d \in Decider, Crash(d) PROVE IInv'
<1>1. /\ call'[d].phase = "idle" /\ call'[d].action = call[d].action
      /\ call'[d].told = "nothing" /\ \A e \in Decider \ {d} : call'[e] = call[e]
      /\ UNCHANGED <<action, sent, holder>>
  BY DEF Crash, TypeOK
<1>. QED
  BY <1>1 DEF IInv, ConfirmedIsExecuting, DecisionsAreApart, WrittenAsRecorded, ToldStands,
    HeldIsUnconfirmed

\* Every step keeps the invariant.
LEMMA Step == ASSUME TypeOK, IInv, [Next]_vars PROVE IInv'
<1>1. CASE \/ Approve \/ Reject \/ StartOAuth \/ CompleteOAuth \/ FallBack \/ DeleteConnection
           \/ \E kind \in {"start", "callback", "permission"} : RequestReads(kind)
           \/ \E permission \in Permission : SetPermission(permission)
           \/ ReadRenews \/ SetActor
  <2>1. UNCHANGED <<action, sent, call, holder>>
    BY <1>1
      DEF Approve, Reject, StartOAuth, CompleteOAuth, FallBack, DeleteConnection, RequestReads,
        SetPermission, ReadRenews, SetActor, ConnectorStep, RequestWrites
  <2>. QED
    BY <2>1, OutsideStep
<1>2. CASE NewReads
  BY <1>2, OutsideStep DEF NewReads, PendingOf
<1>3. ASSUME NEW a \in Action, PrepareReads(a) PROVE IInv'
  <2>1. /\ \A b \in holder'.stale : action[b].status = "pending"
        /\ holder'.action = a /\ action[a].status = "none" /\ UNCHANGED <<action, sent, call>>
    BY <1>3 DEF PrepareReads, PendingOf
  <2>. QED
    BY <2>1, OutsideStep
<1>4. CASE HolderAborts
  BY <1>4, OutsideStep DEF HolderAborts
<1>5. CASE NewCommits
  <2>1. \A a \in Action :
          \/ action'[a] = action[a]
          \/ a \in holder.stale /\ action'[a].status = "expired"
    BY <1>5 DEF NewCommits, Expired, Settled
  <2>. QED
    BY <1>5, <2>1, CommitStep DEF NewCommits
<1>6. CASE PrepareCommits
  <2>1. holder.action \in Action /\ action[holder.action].status = "none"
    BY <1>6 DEF PrepareCommits, IInv, HeldIsUnconfirmed
  <2>2. \A a \in Action :
          \/ action'[a] = action[a]
          \/ a \in holder.stale /\ action'[a].status = "expired"
          \/ action[a].status = "none" /\ action'[a].status = "pending"
    BY <1>6, <2>1 DEF PrepareCommits, Expired, Settled, TypeOK
  <2>. QED
    BY <1>6, <2>2, CommitStep DEF PrepareCommits
<1>7. ASSUME NEW d \in Decider, NEW a \in Action,
             DecideSettled(d, a) \/ DecideLate(d, a) \/ Deny(d, a)
      PROVE  IInv'
  <2>1. /\ call[d].phase = "idle" /\ UNCHANGED <<sent, holder>>
        /\ call'[d].phase = "idle" /\ call'[d].action = a
        /\ \A e \in Decider \ {d} : call'[e] = call[e]
    BY <1>7 DEF DecideSettled, DecideLate, Deny, Decides, Tell, TypeOK
  <2>2. /\ \A b \in Action \ {a} : action'[b] = action[b]
        /\ \/ action'[a] = action[a]
           \/ action[a].status = "pending" /\ action'[a].status \in {"denied", "expired"}
        /\ call'[d].told = "done" => action[a].status = "succeeded"
        /\ call'[d].told = "cancelled" => action'[a].status = "denied"
    BY <1>7 DEF DecideSettled, DecideLate, Deny, Tell, Settled, TypeOK
  <2>. QED
    BY <2>1, <2>2, DecideStep
<1>8. ASSUME NEW d \in Decider, NEW a \in Action, Confirm(d, a) PROVE IInv'
  <2>1. /\ call[d].phase = "idle" /\ UNCHANGED <<sent, holder>> /\ holder.by = "none"
        /\ action[a].status = "pending"
    BY <1>8 DEF Confirm, Decides, ConversationFree
  <2>2. CASE StillValid(a)
    <3>1. /\ call'[d] = [phase |-> "confirmed", action |-> a, told |-> "nothing"]
          /\ \A e \in Decider \ {d} : call'[e] = call[e]
      BY <1>8, <2>2 DEF Confirm, TypeOK
    <3>2. /\ \A b \in Action \ {a} : action'[b] = action[b]
          /\ action'[a].status = "executing"
      BY <1>8, <2>1, <2>2 DEF Confirm, TypeOK, Row
    <3>. QED
      BY <2>1, <3>1, <3>2, ConfirmStep
  <2>3. CASE ~StillValid(a)
    <3>1. /\ call'[d].phase = "idle" /\ call'[d].action = a /\ call'[d].told = "failed"
          /\ \A e \in Decider \ {d} : call'[e] = call[e]
          /\ action' = action
      BY <1>8, <2>3 DEF Confirm, Tell, TypeOK
    <3>. QED
      BY <2>1, <3>1, DecideStep
  <2>. QED
    BY <2>2, <2>3
<1>9. ASSUME NEW d \in Decider, Dispatch(d) \/ Crash(d) PROVE IInv'
  BY <1>9, DispatchStep, CrashStep
<1>10. ASSUME NEW d \in Decider, DispatchFails(d) PROVE IInv'
  BY <1>10, OutcomeStep DEF DispatchFails
<1>11. ASSUME NEW d \in Decider, NEW answered \in BOOLEAN, Record(d, answered) PROVE IInv'
  <2>1. PICK status \in {"succeeded", "failed"} :
          /\ action' = [action EXCEPT ![call[d].action] = Settled(status)]
          /\ Tell(d, call[d].action, IF status = "succeeded" THEN "done" ELSE "failed")
    BY <1>11 DEF Record
  <2>. QED
    BY <1>11, <2>1, OutcomeStep DEF Record
<1>12. CASE UNCHANGED vars
  BY <1>12, OutsideStep DEF vars
<1>. QED
  BY <1>1, <1>2, <1>3, <1>4, <1>5, <1>6, <1>7, <1>8, <1>9, <1>10, <1>11, <1>12 DEF Next

\* Nothing is prepared, nobody decides, the conversation is free.
LEMMA InitOK == ASSUME Parameters, Init PROVE TypeOK /\ IInv
<1>1. TypeOK
  BY DEF Init, TypeOK, Parameters, Row, Settled, ActionStatus, Told, Unheld, Requested, Mcp,
    McpStatus, Permission, Credential, NoRequest
<1>2. IInv
  BY DEF Init, IInv, ConfirmedIsExecuting, DecisionsAreApart, WrittenAsRecorded, ToldStands,
    HeldIsUnconfirmed, Settled, Unheld
<1>. QED
  BY <1>1, <1>2

\* The two are inductive together.
LEMMA Invariance == ASSUME Parameters PROVE Spec => [](TypeOK /\ IInv)
<1>1. Init => TypeOK /\ IInv
  BY InitOK
<1>2. TypeOK /\ IInv /\ [Next]_vars => (TypeOK /\ IInv)'
  BY TypeStep, Step
<1>. QED
  BY <1>1, <1>2, PTL DEF Spec

-----------------------------------------------------------------------------
(* The theorems *)

\* Every variable keeps its type.
THEOREM TypeCorrect == ASSUME Parameters PROVE Spec => []TypeOK
BY Invariance, PTL

\* However often an action is decided, by whom and wherever a decision crashes, it is written
\* once at most, and an action that was written never reads as pending, denied or expired.
THEOREM WrittenOnce == ASSUME Parameters PROVE Spec => []SentOnceAndRecorded
<1>1. TypeOK /\ IInv => SentOnceAndRecorded
  <2>. SUFFICES ASSUME TypeOK, IInv, NEW a \in Action
                PROVE  /\ sent[a] <= 1
                       /\ sent[a] = 1 => action[a].status \in {"executing", "succeeded", "failed"}
    BY DEF SentOnceAndRecorded
  <2>1. action[a].status \in ActionStatus
    BY DEF TypeOK, Row, ActionStatus
  <2>. QED
    BY <2>1 DEF IInv, WrittenAsRecorded, ActionStatus
<1>. QED
  BY <1>1, Invariance, PTL

\* What the user was told of an action stays true: "done" was written, "cancelled" never is.
THEOREM ToldTheTruth == ASSUME Parameters PROVE Spec => []AnswersAreTrue
<1>1. IInv => AnswersAreTrue
  BY DEF IInv, ToldStands, WrittenAsRecorded, AnswersAreTrue
<1>. QED
  BY <1>1, Invariance, PTL

\* Whatever changes between a preview and its write stops the write: it goes out under the
\* connector of the preview, approved, active and allowed to write, by a user who still may,
\* in a conversation that is still open.
THEOREM PreviewIsBinding == ASSUME Parameters PROVE Spec => SentAsPreviewed
<1>. DEFINE A == \A a \in Action : sent'[a] > sent[a] =>
               /\ mcp.approved /\ mcp.status = "active" /\ mcp.permission = "write"
               /\ action[a].preview = mcp /\ actor /\ open
<1>1. TypeOK /\ [Next]_vars => [A]_vars
  <2>. SUFFICES ASSUME TypeOK, Next, NEW a \in Action, sent'[a] > sent[a]
                PROVE  /\ mcp.approved /\ mcp.status = "active" /\ mcp.permission = "write"
                       /\ action[a].preview = mcp /\ actor /\ open
    OBVIOUS
  <2>1. sent' # sent
    BY DEF TypeOK
  <2>2. PICK d \in Decider : Dispatch(d)
    BY <2>1
      DEF Next, Approve, Reject, StartOAuth, CompleteOAuth, FallBack, DeleteConnection,
        RequestReads, SetPermission, ReadRenews, SetActor, NewReads, NewCommits, PrepareCommits,
        HolderAborts, PrepareReads, DecideSettled, DecideLate, Deny, Confirm, DispatchFails,
        Crash, Record, ConnectorStep, RequestWrites
  <2>3. a = call[d].action
    BY <2>2 DEF Dispatch, TypeOK
  <2>. QED
    BY <2>2, <2>3 DEF Dispatch, MayDispatch, StillValid, Authorized
<1>. QED
  BY <1>1, TypeCorrect, PTL DEF Spec, SentAsPreviewed

=============================================================================
