-------------------------- MODULE WhatsAppInboxProofs --------------------------
(***************************************************************************)
(* What holds of WhatsAppInbox for any set of workers and streams, any     *)
(* number of receipts and of parts of a reply, and any kinds of messages:  *)
(* the invariant IInv is inductive together with TypeOK, and the four      *)
(* safety properties of the inbox follow from it.  FewChange and OwnStep   *)
(* say which actions can disturb what; the proof of a conjunct goes        *)
(* through those.                                                          *)
(***************************************************************************)
EXTENDS WhatsAppInbox, TLAPS

USE NoneAssumption, BoundAssumption, LimitAssumption, KindAssumption
USE DEF jobVars, inboxVars, deliveryVars, placeVars

Settling == {"calling", "acknowledged", "unanswered", "throttled", "refused"}
Aiming   == {"prepared", "marked"} \cup Settling
Headed   == {"look", "stop", "start", "silent", "reset", "compose"} \cup Replying

\* What the job ledger grants: a job has one current execution, which holds it.
OneHolder ==
  /\ \A w \in Worker : current[w] => holds[w] \in Receipt /\ phase[holds[w]] = "held"
  /\ \A v, w \in Worker : current[v] /\ current[w] /\ holds[v] = holds[w] => v = w

\* An execution has a receipt, aims at an effect of it, and starts with the first.
PlaceFits(w) ==
  /\ at[w] = "idle" <=> holds[w] = None
  /\ at[w] \in Aiming => part[w] \in 0..Parts
  /\ at[w] \notin Replying => part[w] = 1

PlacesFit == \A w \in Worker : PlaceFits(w)

\* Between the second assertion and the record of the outcome an execution keeps the rows of
\* its job and of the identity: nobody takes the job, and nobody opts the person out.
LocksFit ==
  /\ \A w \in Worker : locked[w] <=> at[w] \in Settling
  /\ \A w \in Worker : locked[w] => current[w] /\ ~optOut
  /\ \A v, w \in Worker : locked[v] /\ locked[w] => v = w

\* The row of an effect says how often Meta accepted it, except while it is being sent.
RowCounts(e) ==
  /\ row[e] \notin {"sending", "ambiguous", "sent"} => copies[e] = 0
  /\ row[e] = "sent" => copies[e] = 1
  /\ copies[e] \in 0..1

RowsCount == \A e \in Effect : RowCounts(e)

\* What a current execution knows of the effect it aims at.
AimKnown(w) ==
  /\ at[w] = "prepared" /\ current[w] => row[Aim(w)] \in {"prepared", "failed"}
  /\ at[w] = "marked" /\ current[w] => row[Aim(w)] = "sending" /\ copies[Aim(w)] = 0
  /\ at[w] \in Settling => row[Aim(w)] = "sending"
  /\ at[w] \in {"calling", "throttled", "refused"} => copies[Aim(w)] = 0
  /\ at[w] = "acknowledged" => copies[Aim(w)] = 1

AimIsKnown == \A w \in Worker : AimKnown(w)

\* A receipt that is worked on was received, and the kind it was received with decides.
KindsFit ==
  /\ \A r \in Receipt : phase[r] = "absent" <=> event[r] = "absent"
  /\ \A w \in Worker : holds[w] # None => event[holds[w]] # "absent"
  /\ \A w \in Worker : at[w] \in {"stop", "start", "reset"} => kind[holds[w]] = at[w]

\* Whoever works on a receipt past the head check, or did, found it at the head.
HeadsFit ==
  /\ \A w \in Worker : at[w] \in Headed => IsHead(holds[w])
  /\ \A e \in Effect : row[e] # "none" => IsHead(e[1])

\* An execution that is at a part has sent the parts before it, or the notice instead.
PartFits(w) ==
  \/ part[w] = 0
  \/ part[w] = Parts + 1 /\ row[<<holds[w], 0>>] = "sent"
  \/ /\ part[w] >= 1
     /\ kind[holds[w]] = "chat" => planned[holds[w]] > 0
     /\ \A p \in 1..Parts : p < part[w] => row[<<holds[w], p>>] = "sent"

PartsFit == \A w \in Worker : at[w] \in Replying => PartFits(w)

\* No part was accepted before the parts in front of it were recorded.
PartsInOrder ==
  \A r \in Receipt, p, q \in 1..Parts :
    p < q /\ copies[<<r, q>>] > 0 => row[<<r, p>>] = "sent"

IInv ==
  /\ OneHolder /\ PlacesFit /\ LocksFit /\ RowsCount /\ AimIsKnown
  /\ KindsFit /\ HeadsFit /\ PartsFit /\ PartsInOrder

-----------------------------------------------------------------------------
\* An execution that is under way has a receipt.
LEMMA HasReceipt ==
  ASSUME TypeOK, PlacesFit, NEW w \in Worker, at[w] # "idle"
  PROVE  holds[w] \in Receipt
BY DEF TypeOK, LedgerTypeOK, PlacesFit, PlaceFits

\* What an execution aims at is an effect of its receipt.
LEMMA AimsAtEffect ==
  ASSUME TypeOK, PlacesFit, NEW w \in Worker, at[w] # "idle", part[w] \in 0..Parts
  PROVE  Aim(w) \in Effect
BY HasReceipt DEF Aim, Effect

\* What a worker returns to keeps its type.
LEMMA ReturnType ==
  ASSUME TypeOK, NEW w \in Worker, NEW place \in Place, Return(w, place)
  PROVE  /\ at' \in [Worker -> Place] /\ part' \in [Worker -> 0..Parts + 1]
         /\ seen' \in [Worker -> BOOLEAN] /\ locked' \in [Worker -> BOOLEAN]
BY DEF Return, GoTo, TypeOK

\* Every step keeps every variable in its type.
LEMMA TypeStep == ASSUME TypeOK, PlacesFit, [Next]_vars PROVE TypeOK'
<1>. USE DEF TypeOK, LedgerTypeOK, Place, Raised, Replying, Ending
<1>1. ASSUME NEW r \in Receipt, Receive(r) \/ Replay(r) \/ Recover(r) PROVE TypeOK'
  BY <1>1 DEF Receive, Replay, Recover, Open, Revoke
<1>2. ASSUME NEW w \in Worker, Take(w) PROVE TypeOK'
  BY <1>2 DEF Take, Grant, GoTo
<1>3. ASSUME NEW w \in Worker, Begin(w) \/ Look(w) \/ Start(w) PROVE TypeOK'
  <2>1. CASE Begin(w)
    BY <2>1 DEF Begin, GoTo
  <2>2. CASE Start(w)
    BY <2>2 DEF Start, SetOptOut, GoTo
  <2>3. CASE Look(w)
    BY <2>3 DEF Look, GoTo
  <2>. QED
    BY <1>3, <2>1, <2>2, <2>3
<1>4. ASSUME NEW w \in Worker, Stop(w) \/ Silence(w) \/ Reset(w) \/ Answered(w) PROVE TypeOK'
  <2>1. event' \in [Receipt -> {"absent", "received", "processed"}]
    BY <1>4 DEF Stop, Silence, Reset, Answered, SetEvent
  <2>2. /\ at' \in [Worker -> Place] /\ part' \in [Worker -> 0..Parts + 1]
        /\ seen' \in [Worker -> BOOLEAN] /\ locked' \in [Worker -> BOOLEAN]
    <3>1. CASE Reset(w)
      BY <3>1 DEF Reset, GoTo
    <3>2. CASE Return(w, "done")
      BY <3>2, ReturnType
    <3>. QED
      BY <1>4, <3>1, <3>2 DEF Stop, Silence, Answered
  <2>3. /\ optOut' \in BOOLEAN
        /\ UNCHANGED <<phase, holds, current, kind, planned, row, copies>>
    BY <1>4 DEF Stop, Silence, Reset, Answered, SetOptOut, jobVars, deliveryVars
  <2>. QED
    BY <2>1, <2>2, <2>3
<1>5. ASSUME NEW w \in Worker, Compose(w) \/ Limit(w) PROVE TypeOK'
  BY <1>5 DEF Compose, Limit, GoTo
<1>6. ASSUME NEW w \in Worker, ComposeFails(w) \/ RefuseUnclear(w) PROVE TypeOK'
  <2>1. \E place \in Place : Return(w, place)
    BY <1>6 DEF ComposeFails, RefuseUnclear
  <2>. QED
    BY <1>6, <2>1, ReturnType DEF ComposeFails, RefuseUnclear
<1>7. ASSUME NEW w \in Worker, SkipSent(w) PROVE TypeOK'
  <2>1. Effects(holds[w]) \in 0..Parts
    BY <1>7, HasReceipt DEF SkipSent, Effects
  <2>2. part[w] \in 0..Parts
    BY <1>7, <2>1 DEF SkipSent
  <2>3. part' \in [Worker -> 0..Parts + 1]
    BY <1>7, <2>2 DEF SkipSent, NextPart
  <2>. QED
    BY <1>7, <2>3 DEF SkipSent
<1>8. ASSUME NEW w \in Worker, Prepare(w) \/ Mark(w) PROVE TypeOK'
  <2>. DEFINE e == Aim(w)
  <2>1. \/ row' = row
        \/ row' = [row EXCEPT ![e] = "prepared"]
        \/ row' = [row EXCEPT ![e] = "sending"]
    BY <1>8 DEF Prepare, Mark
  <2>2. row' \in [Effect -> {"none", "prepared", "failed"} \cup Delivered \cup Unclear]
    BY <2>1 DEF Unclear
  <2>. QED
    BY <1>8, <2>2 DEF Prepare, Mark, GoTo
<1>9. ASSUME NEW w \in Worker, Authorize(w) PROVE TypeOK'
  <2>1. CASE Return(w, "permanent")
    BY <1>9, <2>1 DEF Authorize, Return, GoTo
  <2>2. CASE GoTo(w, "calling")
    BY <1>9, <2>2 DEF Authorize, Return, GoTo
  <2>. QED
    BY <1>9, <2>1, <2>2 DEF Authorize
<1>10. ASSUME NEW w \in Worker, Accept(w) \/ Decline(w) PROVE TypeOK'
  <2>1. Aim(w) \in Effect
    BY <1>10, AimsAtEffect DEF Accept, Decline, PlacesFit, PlaceFits, Aiming, Settling
  <2>. QED
    BY <1>10, <2>1 DEF Accept, Decline, GoTo
<1>11. ASSUME NEW w \in Worker, Record(w) PROVE TypeOK'
  <2>. DEFINE e == Aim(w)
              status == Outcome(at[w])
  <2>1. status \in {"failed", "sent", "ambiguous", "rejected"} /\ part[w] \in 0..Parts
    BY <1>11 DEF Record, Outcome, PlacesFit, PlaceFits, Aiming, Settling
  <2>2. row' = [row EXCEPT ![e] = status]
    BY <1>11 DEF Record
  <2>3. row' \in [Effect -> {"none", "prepared", "failed"} \cup Delivered \cup Unclear]
    BY <2>1, <2>2 DEF Unclear, Delivered
  <2>4. /\ at' \in [Worker -> Place] /\ part' \in [Worker -> 0..Parts + 1]
        /\ seen' \in [Worker -> BOOLEAN] /\ locked' \in [Worker -> BOOLEAN]
    <3>1. CASE Return(w, "error") \/ Return(w, "permanent")
      BY <3>1, ReturnType
    <3>2. CASE GoTo(w, "deliver") /\ NextPart(w) /\ UNCHANGED seen
               /\ locked' = [locked EXCEPT ![w] = FALSE]
      BY <2>1, <3>2 DEF NextPart, GoTo
    <3>. QED
      BY <1>11, <3>1, <3>2 DEF Record
  <2>. QED
    BY <1>11, <2>3, <2>4 DEF Record
<1>12. ASSUME NEW w \in Worker, Finish(w) \/ GiveUp(w) \/ Overtaken(w) \/ Crash(w) PROVE TypeOK'
  <2>1. phase' \in [Receipt -> {"absent", "held"} \cup Ending]
    BY <1>12 DEF Finish, GiveUp, Overtaken, Crash, Abandon, Decide
  <2>2. holds' \in [Worker -> Receipt \cup {None}] /\ current' \in [Worker -> BOOLEAN]
    BY <1>12 DEF Finish, GiveUp, Overtaken, Crash, Abandon, Decide, Release
  <2>3. /\ at' \in [Worker -> Place] /\ part' \in [Worker -> 0..Parts + 1]
        /\ seen' \in [Worker -> BOOLEAN] /\ locked' \in [Worker -> BOOLEAN]
    BY <1>12, ReturnType DEF Finish, GiveUp, Overtaken, Crash, Leave
  <2>. QED
    BY <1>12, <2>1, <2>2, <2>3 DEF Finish, GiveUp, Overtaken, Crash
<1>13. CASE UNCHANGED vars
  BY <1>13 DEF vars
<1>. QED
  BY <1>1, <1>2, <1>3, <1>4, <1>5, <1>6, <1>7, <1>8, <1>9, <1>10, <1>11, <1>12, <1>13
    DEF Next, Execution

-----------------------------------------------------------------------------
(* Which actions move what. *)

Entry(w) == Prepare(w) \/ Mark(w) \/ Record(w)
End(w)   == Finish(w) \/ GiveUp(w) \/ Overtaken(w) \/ Crash(w)

\* The rows of effects, what Meta accepted, the opt-out, the receipts and the jobs are each
\* changed by few of the actions.
LEMMA FewChange ==
  ASSUME [Next]_vars
  PROVE  /\ UNCHANGED row \/ \E w \in Worker : Entry(w)
         /\ UNCHANGED copies \/ \E w \in Worker : Accept(w)
         /\ UNCHANGED optOut \/ \E w \in Worker : Stop(w) \/ Start(w)
         /\ \/ UNCHANGED event
            \/ \E r \in Receipt : Receive(r)
            \/ \E w \in Worker : Stop(w) \/ Silence(w) \/ Reset(w) \/ Answered(w)
         /\ UNCHANGED kind \/ \E r \in Receipt : Receive(r)
         /\ UNCHANGED planned \/ \E w \in Worker : Compose(w)
         /\ \/ UNCHANGED jobVars
            \/ \E r \in Receipt : Receive(r) \/ Replay(r) \/ Recover(r)
            \/ \E w \in Worker : Take(w) \/ End(w)
<1>1. UNCHANGED row \/ \E w \in Worker : Entry(w)
  <2>1. ASSUME NEW r \in Receipt, Receive(r) \/ Replay(r) \/ Recover(r) PROVE UNCHANGED row
    BY <2>1 DEF Receive, Replay, Recover
  <2>2. ASSUME NEW w \in Worker, Take(w) \/ Execution(w) \/ Crash(w), ~Entry(w)
        PROVE  UNCHANGED row
    BY <2>2
      DEF Entry, Execution, Take, Begin, Look, Stop, Start, Silence, Reset, Compose, Limit,
        ComposeFails, Answered, SkipSent, RefuseUnclear, Authorize, Accept, Decline, Finish,
        GiveUp, Overtaken, Crash
  <2>. QED
    BY <2>1, <2>2 DEF Next, vars
<1>2. UNCHANGED copies \/ \E w \in Worker : Accept(w)
  <2>1. ASSUME NEW r \in Receipt, Receive(r) \/ Replay(r) \/ Recover(r) PROVE UNCHANGED copies
    BY <2>1 DEF Receive, Replay, Recover
  <2>2. ASSUME NEW w \in Worker, Take(w) \/ Execution(w) \/ Crash(w), ~Accept(w)
        PROVE  UNCHANGED copies
    BY <2>2
      DEF Execution, Take, Begin, Look, Stop, Start, Silence, Reset, Compose, Limit,
        ComposeFails, Answered, SkipSent, RefuseUnclear, Prepare, Mark, Authorize, Decline,
        Record, Finish, GiveUp, Overtaken, Crash
  <2>. QED
    BY <2>1, <2>2 DEF Next, vars
<1>3. UNCHANGED optOut \/ \E w \in Worker : Stop(w) \/ Start(w)
  <2>1. ASSUME NEW r \in Receipt, Receive(r) \/ Replay(r) \/ Recover(r) PROVE UNCHANGED optOut
    BY <2>1 DEF Receive, Replay, Recover
  <2>2. ASSUME NEW w \in Worker, Take(w) \/ Execution(w) \/ Crash(w), ~(Stop(w) \/ Start(w))
        PROVE  UNCHANGED optOut
    BY <2>2
      DEF Execution, Take, Begin, Look, Silence, Reset, Compose, Limit, ComposeFails, Answered,
        SkipSent, RefuseUnclear, Prepare, Mark, Authorize, Accept, Decline, Record, Finish,
        GiveUp, Overtaken, Crash
  <2>. QED
    BY <2>1, <2>2 DEF Next, vars
<1>4. \/ UNCHANGED event
      \/ \E r \in Receipt : Receive(r)
      \/ \E w \in Worker : Stop(w) \/ Silence(w) \/ Reset(w) \/ Answered(w)
  <2>1. ASSUME NEW r \in Receipt, Replay(r) \/ Recover(r) PROVE UNCHANGED event
    BY <2>1 DEF Replay, Recover
  <2>2. ASSUME NEW w \in Worker, Take(w) \/ Execution(w) \/ Crash(w),
               ~(Stop(w) \/ Silence(w) \/ Reset(w) \/ Answered(w))
        PROVE  UNCHANGED event
    BY <2>2
      DEF Execution, Take, Begin, Look, Start, Compose, Limit, ComposeFails, SkipSent,
        RefuseUnclear, Prepare, Mark, Authorize, Accept, Decline, Record, Finish, GiveUp,
        Overtaken, Crash
  <2>. QED
    BY <2>1, <2>2 DEF Next, vars
<1>5. UNCHANGED kind \/ \E r \in Receipt : Receive(r)
  <2>1. ASSUME NEW r \in Receipt, Replay(r) \/ Recover(r) PROVE UNCHANGED kind
    BY <2>1 DEF Replay, Recover
  <2>2. ASSUME NEW w \in Worker, Take(w) \/ Execution(w) \/ Crash(w) PROVE UNCHANGED kind
    BY <2>2
      DEF Execution, Take, Begin, Look, Stop, Start, Silence, Reset, Compose, Limit,
        ComposeFails, Answered, SkipSent, RefuseUnclear, Prepare, Mark, Authorize, Accept,
        Decline, Record, Finish, GiveUp, Overtaken, Crash
  <2>. QED
    BY <2>1, <2>2 DEF Next, vars
<1>6. UNCHANGED planned \/ \E w \in Worker : Compose(w)
  <2>1. ASSUME NEW r \in Receipt, Receive(r) \/ Replay(r) \/ Recover(r) PROVE UNCHANGED planned
    BY <2>1 DEF Receive, Replay, Recover
  <2>2. ASSUME NEW w \in Worker, Take(w) \/ Execution(w) \/ Crash(w), ~Compose(w)
        PROVE  UNCHANGED planned
    BY <2>2
      DEF Execution, Take, Begin, Look, Stop, Start, Silence, Reset, Limit, ComposeFails,
        Answered, SkipSent, RefuseUnclear, Prepare, Mark, Authorize, Accept, Decline, Record,
        Finish, GiveUp, Overtaken, Crash
  <2>. QED
    BY <2>1, <2>2 DEF Next, vars
<1>7. \/ UNCHANGED jobVars
      \/ \E r \in Receipt : Receive(r) \/ Replay(r) \/ Recover(r)
      \/ \E w \in Worker : Take(w) \/ End(w)
  <2>1. ASSUME NEW w \in Worker, Execution(w), ~End(w) PROVE UNCHANGED jobVars
    BY <2>1
      DEF Execution, End, Begin, Look, Stop, Start, Silence, Reset, Compose, Limit, ComposeFails,
        Answered, SkipSent, RefuseUnclear, Prepare, Mark, Authorize, Accept, Decline, Record
  <2>. QED
    BY <2>1 DEF Next, End, vars
<1>. QED
  BY <1>1, <1>2, <1>3, <1>4, <1>5, <1>6, <1>7

\* An execution is moved by its own steps only.
LEMMA OwnStep ==
  ASSUME TypeOK, [Next]_vars, NEW v \in Worker
  PROVE  \/ UNCHANGED <<at[v], part[v], seen[v], locked[v], holds[v]>>
         \/ Take(v) \/ Execution(v) \/ Crash(v)
<1>. SUFFICES ASSUME NEW w \in Worker, w # v, Take(w) \/ Execution(w) \/ Crash(w)
              PROVE  UNCHANGED <<at[v], part[v], seen[v], locked[v], holds[v]>>
  BY DEF Next, vars, Receive, Replay, Recover, Open, Revoke
<1>1. CASE Take(w)
  BY <1>1 DEF Take, Grant, GoTo, TypeOK, LedgerTypeOK
<1>2. CASE Begin(w)
  BY <1>2 DEF Begin, GoTo, TypeOK, LedgerTypeOK
<1>3. CASE Look(w)
  BY <1>3 DEF Look, GoTo, TypeOK, LedgerTypeOK
<1>4. CASE Stop(w)
  BY <1>4 DEF Stop, Return, GoTo, TypeOK, LedgerTypeOK
<1>5. CASE Start(w)
  BY <1>5 DEF Start, GoTo, TypeOK, LedgerTypeOK
<1>6. CASE Silence(w)
  BY <1>6 DEF Silence, Return, GoTo, TypeOK, LedgerTypeOK
<1>7. CASE Reset(w)
  BY <1>7 DEF Reset, GoTo, TypeOK, LedgerTypeOK
<1>8. CASE Compose(w)
  BY <1>8 DEF Compose, GoTo, TypeOK, LedgerTypeOK
<1>9. CASE Limit(w)
  BY <1>9 DEF Limit, GoTo, TypeOK, LedgerTypeOK
<1>10. CASE ComposeFails(w)
  BY <1>10 DEF ComposeFails, Return, GoTo, TypeOK, LedgerTypeOK
<1>11. CASE Answered(w)
  BY <1>11 DEF Answered, Return, GoTo, TypeOK, LedgerTypeOK
<1>12. CASE SkipSent(w)
  BY <1>12 DEF SkipSent, NextPart, TypeOK, LedgerTypeOK
<1>13. CASE RefuseUnclear(w)
  BY <1>13 DEF RefuseUnclear, Return, GoTo, TypeOK, LedgerTypeOK
<1>14. CASE Prepare(w)
  BY <1>14 DEF Prepare, GoTo, TypeOK, LedgerTypeOK
<1>15. CASE Mark(w)
  BY <1>15 DEF Mark, GoTo, TypeOK, LedgerTypeOK
<1>16. CASE Authorize(w)
  BY <1>16 DEF Authorize, Return, GoTo, TypeOK, LedgerTypeOK
<1>17. CASE Accept(w)
  BY <1>17 DEF Accept, GoTo, TypeOK, LedgerTypeOK
<1>18. CASE Decline(w)
  BY <1>18 DEF Decline, GoTo, TypeOK, LedgerTypeOK
<1>19. CASE Record(w)
  BY <1>19 DEF Record, NextPart, Return, GoTo, TypeOK, LedgerTypeOK
<1>20. CASE Finish(w)
  BY <1>20 DEF Finish, Decide, Release, Leave, Return, GoTo, TypeOK, LedgerTypeOK
<1>21. CASE GiveUp(w)
  BY <1>21 DEF GiveUp, Decide, Release, Leave, Return, GoTo, TypeOK, LedgerTypeOK
<1>22. CASE Overtaken(w)
  BY <1>22 DEF Overtaken, Abandon, Release, Leave, Return, GoTo, TypeOK, LedgerTypeOK
<1>23. CASE Crash(w)
  BY <1>23 DEF Crash, Abandon, Release, Leave, Return, GoTo, TypeOK, LedgerTypeOK
<1>. QED
  BY <1>1, <1>2, <1>3, <1>4, <1>5, <1>6, <1>7, <1>8, <1>9, <1>10, <1>11, <1>12, <1>13, <1>14,
     <1>15, <1>16, <1>17, <1>18, <1>19, <1>20, <1>21, <1>22, <1>23
    DEF Execution

-----------------------------------------------------------------------------
(* The conjuncts of the invariant. *)

\* Taking, holding and losing a job follows the ledger.
LEMMA OneHolderStep == ASSUME TypeOK, OneHolder, [Next]_vars PROVE OneHolder'
<1>1. CASE UNCHANGED jobVars
  BY <1>1 DEF OneHolder
<1>2. ASSUME NEW r \in Receipt, Receive(r) \/ Replay(r) PROVE OneHolder'
  <2>1. Open(r)
    BY <1>2 DEF Receive, Replay
  <2>. QED
    BY <2>1 DEF Open, OneHolder, TypeOK, LedgerTypeOK
<1>3. ASSUME NEW r \in Receipt, Recover(r) PROVE OneHolder'
  BY <1>3 DEF Recover, Revoke, OneHolder, TypeOK, LedgerTypeOK
<1>4. ASSUME NEW w \in Worker, Take(w) PROVE OneHolder'
  BY <1>4 DEF Take, Grant, OneHolder, TypeOK, LedgerTypeOK
<1>5. ASSUME NEW w \in Worker, End(w) PROVE OneHolder'
  <2>1. \/ \E end : Decide(w, end)
        \/ Abandon(w)
    BY <1>5 DEF End, Finish, GiveUp, Overtaken, Crash
  <2>2. CASE Abandon(w)
    BY <2>2 DEF Abandon, Release, OneHolder, TypeOK, LedgerTypeOK
  <2>3. ASSUME NEW end, Decide(w, end) PROVE OneHolder'
    BY <2>3 DEF Decide, Release, OneHolder, TypeOK, LedgerTypeOK
  <2>. QED
    BY <2>1, <2>2, <2>3
<1>. QED
  BY <1>1, <1>2, <1>3, <1>4, <1>5, FewChange

\* An execution starts at its first part, and aims at a part of its receipt.
LEMMA PlacesStep == ASSUME TypeOK, PlacesFit, [Next]_vars PROVE PlacesFit'
<1>. SUFFICES ASSUME NEW w \in Worker PROVE PlaceFits(w)'
  BY DEF PlacesFit
<1>. USE DEF PlaceFits, Aiming, Settling, Replying, TypeOK, LedgerTypeOK
<1>0. PlaceFits(w)
  BY DEF PlacesFit
<1>1. CASE UNCHANGED <<at[w], part[w], seen[w], locked[w], holds[w]>>
  BY <1>0, <1>1
<1>2. CASE Take(w)
  BY <1>0, <1>2 DEF Take, Grant, GoTo
<1>3. CASE Begin(w) \/ Look(w) \/ Start(w) \/ Reset(w) \/ Compose(w) \/ Limit(w)
  <2>1. CASE Begin(w) \/ Look(w)
    BY <1>0, <2>1 DEF Begin, Look, GoTo
  <2>2. CASE Start(w) \/ Reset(w)
    BY <1>0, <2>2 DEF Start, Reset, GoTo
  <2>3. CASE Compose(w) \/ Limit(w)
    BY <1>0, <2>3 DEF Compose, Limit, GoTo
  <2>. QED
    BY <1>3, <2>1, <2>2, <2>3
<1>4. CASE Stop(w) \/ Silence(w) \/ ComposeFails(w) \/ Answered(w) \/ RefuseUnclear(w)
  <2>1. CASE Stop(w) \/ Silence(w)
    BY <1>0, <2>1 DEF Stop, Silence, Return, GoTo
  <2>2. CASE ComposeFails(w) \/ RefuseUnclear(w)
    BY <1>0, <2>2 DEF ComposeFails, RefuseUnclear, Return, GoTo, Raised
  <2>3. CASE Answered(w)
    BY <1>0, <2>3 DEF Answered, Return, GoTo
  <2>. QED
    BY <1>4, <2>1, <2>2, <2>3
<1>5. CASE SkipSent(w) \/ Mark(w) \/ Accept(w) \/ Decline(w)
  <2>1. CASE SkipSent(w) \/ Mark(w)
    BY <1>0, <2>1 DEF SkipSent, Mark, NextPart, GoTo
  <2>2. CASE Accept(w) \/ Decline(w)
    BY <1>0, <2>2 DEF Accept, Decline, NextPart, GoTo
  <2>. QED
    BY <1>5, <2>1, <2>2
<1>6. CASE Prepare(w)
  BY <1>0, <1>6, HasReceipt DEF Prepare, Effects, GoTo
<1>7. CASE Authorize(w)
  BY <1>0, <1>7 DEF Authorize, Return, GoTo
<1>8. CASE Record(w)
  BY <1>0, <1>8 DEF Record, Return, GoTo
<1>9. CASE End(w)
  BY <1>0, <1>9
    DEF End, Finish, GiveUp, Overtaken, Crash, Decide, Abandon, Release, Leave, Return, GoTo
<1>. QED
  BY <1>1, <1>2, <1>3, <1>4, <1>5, <1>6, <1>7, <1>8, <1>9, OwnStep DEF Execution, End

\* The rows are locked by the execution that settles a send, and by no other.
LEMMA LocksStep ==
  ASSUME TypeOK, PlacesFit, LocksFit, [Next]_vars
  PROVE  LocksFit'
<1>1. ASSUME NEW w \in Worker PROVE locked'[w] <=> at'[w] \in Settling
  <2>. USE DEF Settling, TypeOK, LedgerTypeOK
  <2>0. locked[w] <=> at[w] \in Settling
    BY DEF LocksFit
  <2>1. CASE UNCHANGED <<at[w], part[w], seen[w], locked[w], holds[w]>>
    BY <2>0, <2>1
  <2>2. CASE Take(w) \/ Begin(w) \/ Look(w) \/ Start(w) \/ Reset(w) \/ Compose(w) \/ Limit(w)
    <3>1. CASE Take(w)
      BY <2>0, <3>1 DEF Take, Grant, GoTo, PlacesFit, PlaceFits
    <3>2. CASE Begin(w) \/ Look(w)
      BY <2>0, <3>2 DEF Begin, Look, GoTo
    <3>3. CASE Start(w) \/ Reset(w)
      BY <2>0, <3>3 DEF Start, Reset, GoTo
    <3>4. CASE Compose(w) \/ Limit(w)
      BY <2>0, <3>4 DEF Compose, Limit, GoTo
    <3>. QED
      BY <2>2, <3>1, <3>2, <3>3, <3>4
  <2>3. CASE Stop(w) \/ Silence(w) \/ ComposeFails(w) \/ Answered(w) \/ RefuseUnclear(w)
    BY <2>3 DEF Stop, Silence, ComposeFails, Answered, RefuseUnclear, Return, GoTo, Raised
  <2>4. CASE SkipSent(w) \/ Prepare(w) \/ Mark(w) \/ Accept(w) \/ Decline(w)
    BY <2>0, <2>4 DEF SkipSent, Prepare, Mark, Accept, Decline, GoTo
  <2>5. CASE Authorize(w) \/ Record(w)
    BY <2>5 DEF Authorize, Record, Return, GoTo
  <2>6. CASE End(w)
    BY <2>6 DEF End, Finish, GiveUp, Overtaken, Crash, Leave, Return, GoTo
  <2>. QED
    BY <2>1, <2>2, <2>3, <2>4, <2>5, <2>6, OwnStep DEF Execution, End
<1>2. ASSUME NEW w \in Worker, locked'[w], at[w] \notin Settling
      PROVE  Authorize(w) /\ Permitted(w)
  <2>. USE DEF Settling, TypeOK, LedgerTypeOK
  <2>0. at'[w] \in Settling
    BY <1>1, <1>2
  <2>1. CASE UNCHANGED <<at[w], part[w], seen[w], locked[w], holds[w]>>
    BY <1>2, <2>0, <2>1
  <2>2. CASE Accept(w) \/ Decline(w)
    BY <1>2, <2>2 DEF Accept, Decline
  <2>3. CASE Authorize(w)
    BY <1>2, <2>0, <2>3 DEF Authorize, Return, GoTo
  <2>4. CASE Take(w) \/ Begin(w) \/ Look(w) \/ Start(w) \/ Reset(w) \/ Compose(w) \/ Limit(w)
    <3>1. CASE Take(w)
      BY <1>2, <2>0, <3>1 DEF Take, Grant, GoTo, PlacesFit, PlaceFits
    <3>2. CASE Begin(w) \/ Look(w)
      BY <1>2, <2>0, <3>2 DEF Begin, Look, GoTo
    <3>3. CASE Start(w) \/ Reset(w)
      BY <1>2, <2>0, <3>3 DEF Start, Reset, GoTo
    <3>4. CASE Compose(w) \/ Limit(w)
      BY <1>2, <2>0, <3>4 DEF Compose, Limit, GoTo
    <3>. QED
      BY <2>4, <3>1, <3>2, <3>3, <3>4
  <2>5. CASE Stop(w) \/ Silence(w) \/ ComposeFails(w) \/ Answered(w) \/ RefuseUnclear(w)
    BY <1>2, <2>0, <2>5
      DEF Stop, Silence, ComposeFails, Answered, RefuseUnclear, Return, GoTo, Raised
  <2>6. CASE SkipSent(w) \/ Prepare(w) \/ Mark(w) \/ Record(w)
    BY <1>2, <2>0, <2>6 DEF SkipSent, Prepare, Mark, Record, Return, GoTo
  <2>7. CASE End(w)
    BY <1>2, <2>0, <2>7 DEF End, Finish, GiveUp, Overtaken, Crash, Leave, Return, GoTo
  <2>. QED
    BY <2>1, <2>2, <2>3, <2>4, <2>5, <2>6, <2>7, OwnStep DEF Execution, End
<1>3. ASSUME NEW w \in Worker, locked'[w] PROVE current'[w]
  <2>. USE DEF TypeOK, LedgerTypeOK
  <2>1. current[w]
    BY <1>2, <1>3 DEF LocksFit, Authorize
  <2>2. CASE UNCHANGED jobVars
    BY <2>1, <2>2
  <2>3. ASSUME NEW r \in Receipt, Receive(r) \/ Replay(r) PROVE current'[w]
    BY <2>1, <2>3 DEF Receive, Replay, Open
  <2>4. ASSUME NEW r \in Receipt, Recover(r) PROVE current'[w]
    BY <1>3, <2>1, <2>4 DEF Recover, Revoke
  <2>5. ASSUME NEW u \in Worker, Take(u) PROVE current'[w]
    BY <2>1, <2>5 DEF Take, Grant
  <2>6. ASSUME NEW u \in Worker, End(u) PROVE current'[w]
    <3>1. u # w
      BY <1>3, <2>6 DEF End, Finish, GiveUp, Overtaken, Crash, Leave, Return
    <3>. QED
      BY <2>1, <2>6, <3>1
        DEF End, Finish, GiveUp, Overtaken, Crash, Decide, Abandon, Release
  <2>. QED
    BY <2>2, <2>3, <2>4, <2>5, <2>6, FewChange
<1>4. ASSUME NEW w \in Worker, locked'[w] PROVE ~optOut'
  <2>1. CASE Authorize(w) /\ Permitted(w)
    BY <2>1 DEF Authorize, Permitted
  <2>2. CASE locked[w]
    <3>1. ~IdentityFree /\ ~optOut
      BY <2>2 DEF LocksFit, IdentityFree
    <3>2. ASSUME NEW u \in Worker, Stop(u) \/ Start(u) PROVE ~optOut'
      BY <3>1, <3>2 DEF Stop, Start, SetOptOut
    <3>. QED
      BY <3>1, <3>2, FewChange
  <2>. QED
    BY <1>2, <1>4, <2>1, <2>2 DEF LocksFit
<1>5. ASSUME NEW v \in Worker, NEW w \in Worker, locked'[v], locked'[w] PROVE v = w
  <2>1. CASE locked[v] /\ locked[w]
    BY <2>1 DEF LocksFit
  <2>2. CASE Authorize(v) \/ Authorize(w)
    BY <1>5, <2>2 DEF Authorize, Return, IdentityFree, TypeOK
  <2>. QED
    BY <1>2, <1>5, <2>1, <2>2 DEF LocksFit
<1>. QED
  BY <1>1, <1>3, <1>4, <1>5 DEF LocksFit

\* The rows say how often an effect was accepted.
LEMMA RowsStep ==
  ASSUME TypeOK, PlacesFit, RowsCount, AimIsKnown, [Next]_vars
  PROVE  RowsCount'
<1>. SUFFICES ASSUME NEW e \in Effect PROVE RowCounts(e)'
  BY DEF RowsCount
<1>. USE DEF RowCounts, TypeOK, Delivered, Unclear
<1>0. RowCounts(e)
  BY DEF RowsCount
<1>1. CASE UNCHANGED <<row, copies>>
  BY <1>0, <1>1
<1>2. ASSUME NEW w \in Worker, Accept(w) PROVE RowCounts(e)'
  <2>1. row[Aim(w)] = "sending" /\ copies[Aim(w)] = 0 /\ UNCHANGED row
    BY <1>2 DEF Accept, AimIsKnown, AimKnown, Settling
  <2>2. copies'[e] = IF e = Aim(w) THEN copies[e] + 1 ELSE copies[e]
    BY <1>2 DEF Accept
  <2>. QED
    BY <1>0, <2>1, <2>2
<1>3. ASSUME NEW w \in Worker, Entry(w) PROVE RowCounts(e)'
  <2>1. UNCHANGED copies
    BY <1>3 DEF Entry, Prepare, Mark, Record
  <2>2. CASE Prepare(w)
    BY <1>0, <2>1, <2>2 DEF Prepare
  <2>3. CASE Mark(w)
    BY <1>0, <2>1, <2>3 DEF Mark
  <2>4. CASE Record(w)
    <3>1. /\ row'[e] = IF e = Aim(w) THEN Outcome(at[w]) ELSE row[e]
          /\ at[w] \in {"acknowledged", "unanswered", "throttled", "refused"}
      BY <2>4 DEF Record
    <3>2. AimKnown(w)
      BY DEF AimIsKnown
    <3>. QED
      BY <1>0, <2>1, <3>1, <3>2 DEF Outcome, AimKnown
  <2>. QED
    BY <1>3, <2>2, <2>3, <2>4 DEF Entry
<1>. QED
  BY <1>1, <1>2, <1>3, FewChange

\* Two current executions never aim at the same effect.
LEMMA OneAims ==
  ASSUME TypeOK, OneHolder, NEW v \in Worker, NEW w \in Worker, current[v], current[w],
         Aim(v) = Aim(w)
  PROVE  v = w
BY DEF OneHolder, Aim

\* What a current execution found out about the effect it aims at stays true.
LEMMA AimStep ==
  ASSUME TypeOK, OneHolder, PlacesFit, LocksFit, RowsCount, AimIsKnown, [Next]_vars
  PROVE  AimIsKnown'
<1>. SUFFICES ASSUME NEW w \in Worker PROVE AimKnown(w)'
  BY DEF AimIsKnown
<1>. USE DEF Settling
<1>0. AimKnown(w)
  BY DEF AimIsKnown
<1>1. CASE UNCHANGED <<at[w], part[w], seen[w], locked[w], holds[w]>>
  <2>1. UNCHANGED Aim(w)
    BY <1>1 DEF Aim
  <2>2. current'[w] => current[w] \/ at[w] = "idle"
    <3>1. ASSUME NEW r \in Receipt, Receive(r) \/ Replay(r) \/ Recover(r), current'[w]
          PROVE  current[w]
      BY <3>1 DEF Receive, Replay, Recover, Open, Revoke, TypeOK, LedgerTypeOK
    <3>2. ASSUME NEW u \in Worker, Take(u), current'[w] PROVE current[w] \/ at[w] = "idle"
      BY <1>1, <3>2 DEF Take, Grant, GoTo, PlacesFit, PlaceFits, TypeOK, LedgerTypeOK
    <3>3. ASSUME NEW u \in Worker, End(u), current'[w] PROVE current[w]
      BY <3>3
        DEF End, Finish, GiveUp, Overtaken, Crash, Decide, Abandon, Release, TypeOK,
          LedgerTypeOK
    <3>. QED
      BY <3>1, <3>2, <3>3, FewChange DEF TypeOK, LedgerTypeOK
  <2>3. CASE (at[w] \in {"prepared", "marked"} /\ current[w]) \/ at[w] \in Settling
    <3>1. current[w]
      BY <2>3 DEF LocksFit
    <3>2. ASSUME NEW u \in Worker, Mark(u) \/ Record(u) \/ Accept(u), Aim(u) = Aim(w) PROVE FALSE
      <4>1. current[u] /\ at[u] \in {"prepared"} \cup Settling /\ at'[u] # at[u]
        BY <3>2 DEF Mark, Record, Accept, GoTo, Return, LocksFit, TypeOK
      <4>2. u = w
        BY <3>1, <3>2, <4>1, OneAims
      <4>. QED
        BY <1>1, <4>1, <4>2
    <3>3. Aim(w) \in Effect
      BY <2>3, AimsAtEffect DEF PlacesFit, PlaceFits, Aiming
    <3>4. copies'[Aim(w)] = copies[Aim(w)]
      BY <3>2, <3>3, FewChange DEF Accept, TypeOK
    <3>5. row'[Aim(w)] = row[Aim(w)] \/ row[Aim(w)] = "none"
      <4>1. ASSUME NEW u \in Worker, Prepare(u)
            PROVE  row'[Aim(w)] = row[Aim(w)] \/ row[Aim(w)] = "none"
        BY <3>3, <4>1 DEF Prepare, TypeOK
      <4>2. ASSUME NEW u \in Worker, Mark(u) \/ Record(u) PROVE row'[Aim(w)] = row[Aim(w)]
        BY <3>2, <3>3, <4>2 DEF Mark, Record, TypeOK
      <4>. QED
        BY <4>1, <4>2, FewChange DEF Entry
    <3>. QED
      BY <1>0, <1>1, <2>1, <2>2, <3>4, <3>5 DEF AimKnown
  <2>. QED
    BY <1>1, <2>2, <2>3 DEF AimKnown
<1>2. CASE Prepare(w)
  <2>1. Aim(w) \in Effect /\ Aim(w)' = Aim(w)
    <3>1. Effects(holds[w]) \in 0..Parts
      BY <1>2, HasReceipt DEF Prepare, Effects, TypeOK
    <3>2. part[w] \in 0..Parts
      BY <1>2, <3>1 DEF Prepare, TypeOK
    <3>. QED
      BY <1>2, <3>2, AimsAtEffect DEF Prepare, Aim
  <2>2. row'[Aim(w)] \in {"prepared", "failed"}
    BY <1>2, <2>1 DEF Prepare, Settled, TypeOK, Unclear, Delivered
  <2>. QED
    BY <1>2, <2>1, <2>2 DEF Prepare, GoTo, AimKnown, TypeOK
<1>3. CASE Mark(w) \/ Authorize(w) \/ Accept(w) \/ Decline(w)
  <2>1. Aim(w) \in Effect
    BY <1>3, AimsAtEffect
      DEF Mark, Authorize, Accept, Decline, PlacesFit, PlaceFits, Aiming
  <2>2. RowCounts(Aim(w))
    BY <2>1 DEF RowsCount
  <2>3. CASE Mark(w)
    BY <1>0, <2>1, <2>2, <2>3 DEF Mark, GoTo, AimKnown, RowCounts, Aim, TypeOK
  <2>4. CASE Authorize(w)
    BY <1>0, <2>4 DEF Authorize, GoTo, Return, AimKnown, Aim, TypeOK
  <2>5. CASE Accept(w)
    BY <1>0, <2>1, <2>5 DEF Accept, GoTo, AimKnown, Aim, TypeOK
  <2>6. CASE Decline(w)
    BY <1>0, <2>6 DEF Decline, GoTo, AimKnown, Aim, TypeOK
  <2>. QED
    BY <1>3, <2>3, <2>4, <2>5, <2>6
<1>4. CASE Take(w) \/ Begin(w) \/ Look(w) \/ Start(w) \/ Reset(w) \/ Compose(w) \/ Limit(w)
  <2>1. CASE Take(w) \/ Begin(w) \/ Look(w)
    BY <2>1 DEF Take, Begin, Look, GoTo, AimKnown, TypeOK
  <2>2. CASE Start(w) \/ Reset(w)
    BY <2>2 DEF Start, Reset, GoTo, AimKnown, TypeOK
  <2>3. CASE Compose(w) \/ Limit(w)
    BY <2>3 DEF Compose, Limit, GoTo, AimKnown, TypeOK
  <2>. QED
    BY <1>4, <2>1, <2>2, <2>3
<1>5. CASE Stop(w) \/ Silence(w) \/ ComposeFails(w) \/ Answered(w) \/ RefuseUnclear(w)
  <2>1. CASE Stop(w) \/ Silence(w)
    BY <2>1 DEF Stop, Silence, Return, GoTo, Raised, AimKnown, TypeOK
  <2>2. CASE ComposeFails(w) \/ Answered(w)
    BY <2>2 DEF ComposeFails, Answered, Return, GoTo, Raised, AimKnown, TypeOK
  <2>3. CASE RefuseUnclear(w)
    BY <2>3 DEF RefuseUnclear, Return, GoTo, Raised, AimKnown, TypeOK
  <2>. QED
    BY <1>5, <2>1, <2>2, <2>3
<1>6. CASE SkipSent(w) \/ Record(w)
  BY <1>6 DEF SkipSent, Record, Return, GoTo, AimKnown, TypeOK
<1>7. CASE End(w)
  BY <1>7 DEF End, Finish, GiveUp, Overtaken, Crash, Leave, Return, GoTo, AimKnown, TypeOK
<1>. QED
  BY <1>1, <1>2, <1>3, <1>4, <1>5, <1>6, <1>7, OwnStep DEF Execution, End

\* What is received stays what it is, and what is resolved stays resolved.
LEMMA EventsStay ==
  ASSUME TypeOK, [Next]_vars, NEW r \in Receipt
  PROVE  /\ event[r] = "processed" => event'[r] = "processed"
         /\ event[r] # "absent" => event'[r] # "absent" /\ kind'[r] = kind[r]
         /\ planned[r] > 0 => planned'[r] > 0
<1>1. ASSUME NEW q \in Receipt, Receive(q)
      PROVE  event[r] # "absent" => event'[r] = event[r] /\ kind'[r] = kind[r]
  <2>1. event[q] = "absent" /\ event' = [event EXCEPT ![q] = "received"]
    BY <1>1 DEF Receive
  <2>2. PICK k \in Kinds : kind' = [kind EXCEPT ![q] = k]
    BY <1>1 DEF Receive
  <2>. QED
    BY <2>1, <2>2 DEF TypeOK
<1>2. ASSUME NEW w \in Worker, Stop(w) \/ Silence(w) \/ Reset(w) \/ Answered(w)
      PROVE  event'[r] = event[r] \/ event'[r] = "processed"
  BY <1>2 DEF Stop, Silence, Reset, Answered, SetEvent, TypeOK
<1>3. ASSUME NEW w \in Worker, Compose(w), planned[r] > 0 PROVE planned'[r] > 0
  BY <1>3 DEF Compose, TypeOK
<1>. QED
  BY <1>1, <1>2, <1>3, FewChange

\* What is recorded as sent stays so.
LEMMA SentStays ==
  ASSUME TypeOK, AimIsKnown, [Next]_vars, NEW e \in Effect, row[e] = "sent"
  PROVE  row'[e] = "sent"
<1>1. ASSUME NEW w \in Worker, Entry(w) PROVE row'[e] = "sent"
  <2>1. AimKnown(w)
    BY DEF AimIsKnown
  <2>2. Aim(w) # e \/ row' = row
    BY <1>1, <2>1 DEF Entry, Prepare, Mark, Record, AimKnown, Settling, Delivered
  <2>. QED
    BY <1>1, <2>2 DEF Entry, Prepare, Mark, Record, TypeOK
<1>. QED
  BY <1>1, FewChange

\* The kind a receipt was received with decides what its executions do.
LEMMA KindsStep ==
  ASSUME TypeOK, OneHolder, PlacesFit, KindsFit, [Next]_vars
  PROVE  KindsFit'
<1>. USE DEF TypeOK, LedgerTypeOK
<1>1. ASSUME NEW r \in Receipt PROVE phase'[r] = "absent" <=> event'[r] = "absent"
  <2>0. phase[r] = "absent" <=> event[r] = "absent"
    BY DEF KindsFit
  <2>1. ASSUME NEW q \in Receipt, Receive(q) PROVE phase'[r] = "absent" <=> event'[r] = "absent"
    BY <2>0, <2>1 DEF Receive, Open
  <2>2. ASSUME NEW q \in Receipt, Replay(q) \/ Recover(q)
        PROVE  UNCHANGED event /\ (phase'[r] = "absent" <=> phase[r] = "absent")
    BY <2>2 DEF Replay, Recover, Open, Revoke, Ending
  <2>3. ASSUME NEW w \in Worker, Take(w)
        PROVE  UNCHANGED event /\ (phase'[r] = "absent" <=> phase[r] = "absent")
    BY <2>3 DEF Take, Grant
  <2>4. ASSUME NEW w \in Worker, End(w)
        PROVE  UNCHANGED event /\ (phase'[r] = "absent" <=> phase[r] = "absent")
    <3>1. \/ Abandon(w)
          \/ \E end \in Ending : Decide(w, end)
      BY <2>4 DEF End, Finish, GiveUp, Overtaken, Crash, Ending
    <3>2. phase'[r] = "absent" <=> phase[r] = "absent"
      BY <3>1 DEF Abandon, Decide, Ending, OneHolder
    <3>3. UNCHANGED event
      BY <2>4 DEF End, Finish, GiveUp, Overtaken, Crash
    <3>. QED
      BY <3>2, <3>3
  <2>5. ASSUME NEW w \in Worker, Stop(w) \/ Silence(w) \/ Reset(w) \/ Answered(w)
        PROVE  UNCHANGED phase /\ (event'[r] = "absent" <=> event[r] = "absent")
    <3>1. holds[w] # None /\ event[holds[w]] # "absent"
      BY <2>5 DEF Stop, Silence, Reset, Answered, PlacesFit, PlaceFits, KindsFit
    <3>. QED
      BY <2>5, <3>1 DEF Stop, Silence, Reset, Answered, SetEvent
  <2>. QED
    BY <2>0, <2>1, <2>2, <2>3, <2>4, <2>5, FewChange
<1>2. ASSUME NEW w \in Worker, holds'[w] # None
      PROVE  /\ event'[holds'[w]] # "absent"
             /\ at'[w] \in {"stop", "start", "reset"} => kind'[holds'[w]] = at'[w]
  <2>1. CASE UNCHANGED <<at[w], part[w], seen[w], locked[w], holds[w]>>
    BY <1>2, <2>1, EventsStay DEF KindsFit
  <2>2. CASE Take(w)
    <3>1. PICK r \in Receipt : Grant(w, r)
      BY <2>2 DEF Take
    <3>2. holds'[w] = r /\ event[r] # "absent" /\ at'[w] = "begin"
      BY <2>2, <3>1 DEF Take, Grant, GoTo, KindsFit
    <3>. QED
      BY <3>2, EventsStay
  <2>3. CASE Execution(w) /\ ~End(w)
    <3>1. UNCHANGED holds
      <4>1. CASE Begin(w) \/ Look(w) \/ Stop(w) \/ Start(w) \/ Silence(w) \/ Reset(w) \/ Compose(w)
        BY <4>1 DEF Begin, Look, Stop, Start, Silence, Reset, Compose
      <4>2. CASE Limit(w) \/ ComposeFails(w) \/ Answered(w) \/ SkipSent(w) \/ RefuseUnclear(w)
        BY <4>2 DEF Limit, ComposeFails, Answered, SkipSent, RefuseUnclear
      <4>3. CASE \/ Prepare(w) \/ Mark(w) \/ Authorize(w) \/ Accept(w) \/ Decline(w)
                 \/ Record(w)
        BY <4>3 DEF Prepare, Mark, Authorize, Accept, Decline, Record
      <4>. QED
        BY <2>3, <4>1, <4>2, <4>3 DEF Execution, End
    <3>2. event'[holds'[w]] # "absent" /\ kind'[holds'[w]] = kind[holds[w]]
      BY <1>2, <3>1, EventsStay DEF KindsFit
    <3>3. ASSUME at'[w] \in {"stop", "start", "reset"} PROVE kind[holds[w]] = at'[w]
      <4>1. CASE Look(w)
        BY <3>3, <4>1 DEF Look, GoTo
      <4>2. CASE Begin(w) \/ Start(w) \/ Reset(w) \/ Compose(w) \/ Limit(w)
        BY <3>3, <4>2 DEF Begin, Start, Reset, Compose, Limit, GoTo
      <4>3. CASE Stop(w) \/ Silence(w) \/ ComposeFails(w) \/ Answered(w) \/ RefuseUnclear(w)
        BY <3>3, <4>3
          DEF Stop, Silence, ComposeFails, Answered, RefuseUnclear, Return, GoTo, Raised
      <4>4. CASE SkipSent(w) \/ Prepare(w) \/ Mark(w) \/ Authorize(w)
        BY <3>3, <4>4 DEF SkipSent, Prepare, Mark, Authorize, Return, GoTo
      <4>5. CASE Accept(w) \/ Decline(w) \/ Record(w)
        BY <3>3, <4>5 DEF Accept, Decline, Record, Return, GoTo
      <4>. QED
        BY <2>3, <4>1, <4>2, <4>3, <4>4, <4>5 DEF Execution, End
    <3>. QED
      BY <3>2, <3>3
  <2>4. CASE End(w)
    BY <1>2, <2>4 DEF End, Finish, GiveUp, Overtaken, Crash, Decide, Abandon, Release
  <2>. QED
    BY <2>1, <2>2, <2>3, <2>4, OwnStep DEF End
<1>. QED
  <2>1. ASSUME NEW w \in Worker, at'[w] \in {"stop", "start", "reset"} PROVE holds'[w] # None
    BY <2>1, PlacesStep DEF PlacesFit, PlaceFits
  <2>. QED
    BY <1>1, <1>2, <2>1 DEF KindsFit

\* An execution leaves the head check behind it only at the head.
LEMMA HeadsStep ==
  ASSUME TypeOK, PlacesFit, AimIsKnown, HeadsFit, [Next]_vars
  PROVE  HeadsFit'
<1>. USE DEF Headed, Replying, TypeOK, LedgerTypeOK
<1>1. ASSUME NEW r \in Receipt, IsHead(r) PROVE IsHead(r)'
  BY <1>1, EventsStay DEF IsHead
<1>2. ASSUME NEW w \in Worker, at'[w] \in Headed PROVE holds'[w] \in Receipt /\ IsHead(holds[w])
  <2>0. at[w] \in Headed => holds[w] \in Receipt /\ IsHead(holds[w])
    BY HasReceipt DEF HeadsFit
  <2>1. CASE UNCHANGED <<at[w], part[w], seen[w], locked[w], holds[w]>>
    BY <1>2, <2>0, <2>1
  <2>2. CASE Take(w)
    BY <1>2, <2>2 DEF Take, GoTo
  <2>3. CASE Begin(w)
    BY <1>2, <2>3, HasReceipt DEF Begin, GoTo
  <2>4. CASE Execution(w) /\ ~Begin(w) /\ ~End(w)
    <3>1. UNCHANGED holds /\ at[w] \in Headed
      BY <2>4
        DEF Execution, End, Look, Stop, Start, Silence, Reset, Compose, Limit,
          ComposeFails, Answered, SkipSent, RefuseUnclear, Prepare, Mark, Authorize, Accept,
          Decline, Record
    <3>. QED
      BY <2>0, <3>1
  <2>5. CASE End(w)
    BY <1>2, <2>5 DEF End, Finish, GiveUp, Overtaken, Crash, Leave, Return, GoTo
  <2>. QED
    BY <2>1, <2>2, <2>3, <2>4, <2>5, OwnStep DEF End
<1>3. ASSUME NEW w \in Worker, at'[w] \in Headed PROVE holds'[w] = holds[w]
  <2>1. CASE Take(w)
    BY <1>3, <2>1 DEF Take, GoTo
  <2>2. CASE End(w)
    BY <1>3, <2>2 DEF End, Finish, GiveUp, Overtaken, Crash, Leave, Return, GoTo
  <2>3. CASE Execution(w) /\ ~End(w)
    BY <2>3
      DEF Execution, End, Begin, Look, Stop, Start, Silence, Reset, Compose, Limit,
        ComposeFails, Answered, SkipSent, RefuseUnclear, Prepare, Mark, Authorize, Accept,
        Decline, Record
  <2>. QED
    BY <2>1, <2>2, <2>3, OwnStep DEF End
<1>4. ASSUME NEW e \in Effect, row'[e] # "none" PROVE IsHead(e[1])
  <2>1. CASE row[e] # "none"
    BY <2>1 DEF HeadsFit
  <2>2. ASSUME NEW w \in Worker, Entry(w), e = Aim(w) PROVE IsHead(e[1])
    BY <2>2 DEF Entry, Prepare, Mark, Record, HeadsFit, Aim
  <2>. QED
    BY <1>4, <2>1, <2>2, FewChange DEF Entry, Prepare, Mark, Record
<1>5. \A e \in Effect : e[1] \in Receipt
  BY DEF Effect
<1>. QED
  BY <1>1, <1>2, <1>3, <1>4, <1>5 DEF HeadsFit

\* An execution goes on to a part when the parts before it are sent.
LEMMA PartsStep ==
  ASSUME TypeOK, PlacesFit, AimIsKnown, KindsFit, PartsFit, [Next]_vars
  PROVE  PartsFit'
<1>. SUFFICES ASSUME NEW w \in Worker, at'[w] \in Replying PROVE PartFits(w)'
  BY DEF PartsFit
<1>. USE DEF Replying, TypeOK, LedgerTypeOK
<1>. DEFINE r == holds[w]
<1>1. ASSUME at[w] # "idle"
      PROVE  /\ r \in Receipt
             /\ kind'[r] = kind[r]
             /\ planned[r] > 0 => planned'[r] > 0
             /\ \A p \in 0..Parts : row[<<r, p>>] = "sent" => row'[<<r, p>>] = "sent"
  <2>1. r \in Receipt /\ event[r] # "absent"
    BY <1>1, HasReceipt DEF KindsFit, PlacesFit, PlaceFits
  <2>. QED
    BY <2>1, EventsStay, SentStays DEF Effect
<1>2. CASE UNCHANGED <<at[w], part[w], seen[w], locked[w], holds[w]>>
  BY <1>1, <1>2 DEF PartsFit, PartFits
<1>3. CASE Prepare(w) \/ Mark(w) \/ Accept(w) \/ Decline(w)
  <2>1. UNCHANGED <<part, holds>> /\ at[w] \in Replying
    BY <1>3 DEF Prepare, Mark, Accept, Decline
  <2>. QED
    BY <1>1, <2>1 DEF PartsFit, PartFits
<1>4. CASE Authorize(w)
  <2>1. UNCHANGED <<part, holds>> /\ at[w] \in Replying
    BY <1>4 DEF Authorize, Return, GoTo
  <2>. QED
    BY <1>1, <2>1 DEF PartsFit, PartFits
<1>5. CASE Start(w) \/ Reset(w)
  <2>1. UNCHANGED <<part, holds>> /\ part[w] = 1 /\ kind[r] # "chat" /\ at[w] # "idle"
    BY <1>5 DEF Start, Reset, KindsFit, PlacesFit, PlaceFits
  <2>. QED
    BY <1>1, <2>1 DEF PartFits
<1>6. CASE Compose(w)
  <2>1. UNCHANGED <<part, holds>> /\ part[w] = 1 /\ at[w] # "idle"
    BY <1>6 DEF Compose, PlacesFit, PlaceFits
  <2>2. planned'[r] > 0
    BY <1>1, <1>6, <2>1 DEF Compose
  <2>. QED
    BY <1>1, <2>1, <2>2 DEF PartFits
<1>7. CASE Limit(w)
  BY <1>7 DEF Limit, PartFits
<1>8. CASE SkipSent(w) \/ Record(w)
  <2>1. UNCHANGED holds /\ at[w] \in Replying /\ part[w] \in 0..Parts /\ NextPart(w)
    <3>1. CASE SkipSent(w)
      <4>1. Effects(r) \in 0..Parts
        BY <1>1, <3>1 DEF SkipSent, Effects
      <4>. QED
        BY <3>1, <4>1 DEF SkipSent
    <3>2. CASE Record(w)
      BY <3>2 DEF Record, Return, GoTo, PlacesFit, PlaceFits, Aiming, Settling
    <3>. QED
      BY <1>8, <3>1, <3>2
  <2>2. row'[<<r, part[w]>>] = "sent"
    <3>1. CASE SkipSent(w)
      BY <1>1, <2>1, <3>1 DEF SkipSent, Aim, Delivered
    <3>2. CASE Record(w)
      <4>1. Outcome(at[w]) = "sent"
        BY <3>2 DEF Record, Outcome, Return, GoTo
      <4>2. <<r, part[w]>> \in Effect
        BY <1>1, <2>1 DEF Effect
      <4>. QED
        BY <3>2, <4>1, <4>2 DEF Record, Aim
    <3>. QED
      BY <1>8, <3>1, <3>2
  <2>3. PartFits(w)
    BY <2>1 DEF PartsFit
  <2>4. CASE part[w] = 0
    <3>1. part'[w] = Parts + 1
      BY <2>1, <2>4 DEF NextPart
    <3>. QED
      BY <2>1, <2>2, <2>4, <3>1 DEF PartFits
  <2>5. CASE part[w] # 0
    <3>1. part'[w] = part[w] + 1
      BY <2>1, <2>5 DEF NextPart
    <3>2. \A p \in 1..Parts : p < part'[w] => row'[<<r, p>>] = "sent"
      BY <1>1, <2>1, <2>2, <2>3, <2>5, <3>1 DEF PartFits
    <3>. QED
      BY <1>1, <2>1, <2>3, <2>5, <3>1, <3>2 DEF PartFits
  <2>. QED
    BY <2>4, <2>5
<1>9. CASE Take(w) \/ Begin(w) \/ Look(w)
  BY <1>9 DEF Take, Begin, Look, GoTo
<1>10. CASE Stop(w) \/ Silence(w) \/ ComposeFails(w) \/ Answered(w) \/ RefuseUnclear(w) \/ End(w)
  <2>1. \E place \in {"idle", "done"} \cup Raised : Return(w, place)
    BY <1>10
      DEF Stop, Silence, ComposeFails, Answered, RefuseUnclear, End, Finish, GiveUp, Overtaken,
        Crash, Leave, Raised
  <2>. QED
    BY <2>1 DEF Return, GoTo, Raised
<1>. QED
  BY <1>2, <1>3, <1>4, <1>5, <1>6, <1>7, <1>8, <1>9, <1>10, OwnStep DEF Execution, End

\* Nothing is accepted before the parts in front of it are sent.
LEMMA OrderStep ==
  ASSUME TypeOK, PlacesFit, AimIsKnown, PartsFit, PartsInOrder, [Next]_vars
  PROVE  PartsInOrder'
<1>. SUFFICES ASSUME NEW r \in Receipt, NEW p \in 1..Parts, NEW q \in 1..Parts,
                     p < q, copies'[<<r, q>>] > 0
              PROVE  row'[<<r, p>>] = "sent"
  BY DEF PartsInOrder
<1>1. <<r, p>> \in Effect
  BY DEF Effect
<1>2. CASE copies[<<r, q>>] > 0
  BY <1>1, <1>2, SentStays DEF PartsInOrder
<1>3. ASSUME NEW w \in Worker, Accept(w), Aim(w) = <<r, q>> PROVE row'[<<r, p>>] = "sent"
  <2>1. at[w] \in Replying /\ part[w] = q /\ holds[w] = r
    BY <1>3 DEF Accept, Replying, Aim
  <2>2. PartFits(w)
    BY <2>1 DEF PartsFit
  <2>3. row[<<r, p>>] = "sent"
    BY <2>1, <2>2 DEF PartFits
  <2>. QED
    BY <1>1, <2>3, SentStays
<1>4. <<r, q>> \in Effect
  BY DEF Effect
<1>. QED
  BY <1>2, <1>3, <1>4, FewChange DEF Accept, TypeOK

-----------------------------------------------------------------------------
(* The invariant *)

\* Every initial state satisfies the invariant.
LEMMA InitOK == Init => TypeOK /\ IInv
<1>. SUFFICES ASSUME Init PROVE TypeOK /\ IInv
  OBVIOUS
<1>. USE DEF Init, LedgerInit
<1>1. TypeOK
  BY DEF TypeOK, LedgerTypeOK, Place, Ending
<1>2. OneHolder /\ PlacesFit /\ LocksFit /\ RowsCount /\ AimIsKnown
  BY DEF OneHolder, PlacesFit, PlaceFits, LocksFit, RowsCount, RowCounts, AimIsKnown, AimKnown,
    Aiming, Settling, Replying
<1>3. KindsFit /\ HeadsFit /\ PartsFit /\ PartsInOrder
  <2>1. \A r \in Receipt, q \in 1..Parts : <<r, q>> \in Effect
    BY DEF Effect
  <2>. QED
    BY <2>1 DEF KindsFit, HeadsFit, PartsFit, PartsInOrder, Headed, Replying
<1>. QED
  BY <1>1, <1>2, <1>3 DEF IInv

\* Every step preserves it.
LEMMA Inductive == TypeOK /\ IInv /\ [Next]_vars => TypeOK' /\ IInv'
<1>. SUFFICES ASSUME TypeOK, IInv, [Next]_vars PROVE TypeOK' /\ IInv'
  OBVIOUS
<1>. USE DEF IInv
<1>1. TypeOK' /\ OneHolder' /\ PlacesFit' /\ LocksFit'
  BY TypeStep, OneHolderStep, PlacesStep, LocksStep
<1>2. RowsCount' /\ AimIsKnown' /\ KindsFit'
  BY RowsStep, AimStep, KindsStep
<1>3. HeadsFit' /\ PartsFit' /\ PartsInOrder'
  BY HeadsStep, PartsStep, OrderStep
<1>. QED
  BY <1>1, <1>2, <1>3

\* So every reachable state satisfies it.
LEMMA Invariance == Spec => [](TypeOK /\ IInv)
BY InitOK, Inductive, PTL DEF Spec

\* Only an authorized execution makes Meta accept anything, of an effect it has marked.
LEMMA SendsStep ==
  ASSUME TypeOK, IInv, [Next]_vars, NEW e \in Effect, Sends(e)
  PROVE  \E w \in Worker : locked[w] /\ at[w] = "calling" /\ Aim(w) = e /\ row[e] = "sending"
<1>1. PICK w \in Worker : Accept(w)
  BY FewChange DEF Sends, TypeOK
<1>2. Aim(w) = e
  BY <1>1 DEF Accept, Sends, TypeOK
<1>3. locked[w] /\ row[e] = "sending"
  BY <1>1, <1>2 DEF Accept, IInv, LocksFit, AimIsKnown, AimKnown, Settling
<1>. QED
  BY <1>1, <1>2, <1>3 DEF Accept

\* The variables of the inbox keep their types.
THEOREM TypeCorrect == Spec => []TypeOK
BY Invariance, PTL

\* AtMostOneCopy: whatever is lost, overtaken, retried or replayed, Meta accepts no effect of
\* a reply a second time.
THEOREM NothingTwice == Spec => []AtMostOneCopy
<1>1. TypeOK /\ IInv => AtMostOneCopy
  BY DEF IInv, RowsCount, RowCounts, AtMostOneCopy
<1>. QED
  BY <1>1, Invariance, PTL

\* NoSendAfterOptOut: nothing is accepted while the opt-out is set.
THEOREM OptOutIsHonoured == Spec => NoSendAfterOptOut
<1>1. TypeOK /\ IInv /\ [Next]_vars => [SendIsPermitted]_vars
  <2>. SUFFICES ASSUME TypeOK, IInv, [Next]_vars, NEW e \in Effect, Sends(e) PROVE ~optOut
    BY DEF SendIsPermitted
  <2>. QED
    BY SendsStep DEF IInv, LocksFit
<1>. QED
  BY <1>1, Invariance, PTL DEF Spec, NoSendAfterOptOut

\* RepliesInOrder: while a receipt is unresolved its replies precede those of later receipts,
\* and its parts follow each other.
THEOREM OrderIsKept == Spec => RepliesInOrder
<1>1. TypeOK /\ IInv /\ [Next]_vars => [SendIsInOrder]_vars
  <2>. SUFFICES ASSUME TypeOK, IInv, [Next]_vars, NEW e \in Effect, Sends(e),
                       event[e[1]] = "received", NEW f \in Effect, Later(e, f)
                PROVE  copies[f] = 0
    BY DEF SendIsInOrder
  <2>1. row[e] = "sending"
    BY SendsStep
  <2>2. e[1] \in Receipt /\ f[1] \in Receipt /\ e[2] \in 0..Parts /\ f[2] \in 0..Parts
        /\ e = <<e[1], e[2]>> /\ f = <<f[1], f[2]>>
    BY DEF Effect
  <2>3. RowCounts(f)
    BY DEF IInv, RowsCount
  <2>4. CASE Earlier(e[1], f[1])
    <3>1. ~IsHead(f[1])
      BY <2>2, <2>4 DEF IsHead
    <3>. QED
      BY <2>3, <3>1 DEF IInv, HeadsFit, RowCounts
  <2>5. CASE e[1] = f[1] /\ 0 < e[2] /\ e[2] < f[2]
    <3>1. copies[<<e[1], f[2]>>] > 0 => row[<<e[1], e[2]>>] = "sent"
      BY <2>2, <2>5 DEF IInv, PartsInOrder
    <3>. QED
      BY <2>1, <2>2, <2>3, <2>5, <3>1 DEF RowCounts
  <2>. QED
    BY <2>4, <2>5 DEF Later
<1>. QED
  BY <1>1, Invariance, PTL DEF Spec, RepliesInOrder

\* ResolvedIsAnswered: a chat or START is resolved by an execution that found every part of
\* its reply, or the notice that the limit is reached, sent; or by silence.
THEOREM ResolutionAnswers == Spec => ResolvedIsAnswered
<1>1. TypeOK /\ IInv /\ [Next]_vars => [ResolutionIsAnswer]_vars
  <2>. SUFFICES ASSUME TypeOK, IInv, [Next]_vars, NEW r \in Receipt, Resolves(r),
                       kind[r] \in {"chat", "start"}, ~Silences(r)
                PROVE  \E reply \in {{0}, 1..Effects(r)} \ {{}} :
                         \A p \in reply : row[<<r, p>>] = "sent" /\ copies[<<r, p>>] = 1
    BY DEF ResolutionIsAnswer
  <2>1. PICK w \in Worker : Stop(w) \/ Silence(w) \/ Reset(w) \/ Answered(w)
    BY FewChange DEF Resolves, Receive, TypeOK
  <2>2. holds[w] = r
    BY <2>1 DEF Resolves, Stop, Silence, Reset, Answered, SetEvent, TypeOK
  <2>3. Answered(w)
    BY <2>1, <2>2
      DEF Stop, Silence, Silences, Reset, Return, GoTo, TypeOK, IInv, KindsFit
  <2>4. part[w] > Effects(r) /\ PartFits(w)
    BY <2>2, <2>3 DEF Answered, IInv, PartsFit, Replying
  <2>5. Effects(r) \in 0..Parts /\ part[w] \in 0..Parts + 1
    BY DEF Effects, TypeOK
  <2>6. ASSUME NEW p \in 0..Parts, row[<<r, p>>] = "sent" PROVE copies[<<r, p>>] = 1
    <3>1. <<r, p>> \in Effect
      BY DEF Effect
    <3>. QED
      BY <2>6, <3>1 DEF IInv, RowsCount, RowCounts
  <2>7. CASE part[w] = Parts + 1 /\ row[<<r, 0>>] = "sent"
    <3>1. \A p \in {0} : row[<<r, p>>] = "sent" /\ copies[<<r, p>>] = 1
      BY <2>6, <2>7
    <3>. QED
      BY <3>1
  <2>8. CASE /\ part[w] >= 1
             /\ kind[r] = "chat" => planned[r] > 0
             /\ \A p \in 1..Parts : p < part[w] => row[<<r, p>>] = "sent"
    <3>1. \A p \in 1..Effects(r) : row[<<r, p>>] = "sent" /\ copies[<<r, p>>] = 1
      BY <2>4, <2>5, <2>6, <2>8
    <3>2. 1 \in 1..Effects(r)
      BY <2>5, <2>8 DEF Effects, TypeOK
    <3>. QED
      BY <3>1, <3>2
  <2>. QED
    BY <2>2, <2>4, <2>5, <2>7, <2>8 DEF PartFits
<1>. QED
  BY <1>1, Invariance, PTL DEF Spec, ResolvedIsAnswered

=============================================================================
