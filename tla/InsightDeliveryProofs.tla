------------------------- MODULE InsightDeliveryProofs -------------------------
(***************************************************************************)
(* What holds of InsightDelivery for any number of workers, slots,         *)
(* revisions and publications: a slot brings at most one summary, and it   *)
(* goes out as its subscriber wants it when it is sent.                    *)
(*                                                                         *)
(* IInv says what makes it so.  The row of a slot reads "sending" while an *)
(* execution is past its claim, of one execution at a time, and only that  *)
(* execution can change the row again: one that is overtaken or dies       *)
(* leaves the slot closed for good.                                        *)
(***************************************************************************)
EXTENDS InsightDelivery, TLAPS

\* The bounds are numbers, and None is no job.
Parameters ==
  /\ MaxSlot \in Nat /\ MaxRevision \in Nat /\ MaxGeneration \in Nat
  /\ None \notin JobKey

USE DEF jobVars

\* Past the claim of the row and before its outcome.
Settling == {"marked", "calling", "accepted", "unanswered", "throttled", "refused"}

\* An execution is under way exactly while its worker holds a job.
PlacesFit == \A w \in Worker : at[w] = "idle" <=> holds[w] = None

\* A claimed row reads so, and is claimed by one execution.
ClaimsAreApart ==
  \A w \in Worker : at[w] \in Settling =>
    /\ StatusOf(w) = "sending"
    /\ \A v \in Worker : at[v] \in Settling /\ SlotOf(v) = SlotOf(w) => v = w

\* What Meta accepted is not sent again: the row tells, or the execution that is at it.
CopiesAreTold ==
  /\ \A s \in Slot :
       /\ copies[s] \in {0, 1}
       /\ copies[s] = 1 => row[s].status \in {"sending", "sent", "ambiguous"}
  /\ \A w \in Worker :
       at[w] \in {"marked", "calling", "throttled", "refused"} => copies[SlotOf(w)] = 0

\* The row of an execution keeps the intent it was prepared with.
IntentsStand ==
  \A w \in Worker : at[w] \in {"prepared"} \cup Settling =>
    /\ StatusOf(w) # "none"
    /\ row[SlotOf(w)].envelope = [revision |-> RevisionOf(w), generation |-> source[w]]

\* Whatever would withdraw a message that may be sent waits for its outcome.
WantedWhileCalling == \A w \in Worker : at[w] = "calling" => StillWanted(w)

IInv ==
  /\ PlacesFit
  /\ ClaimsAreApart
  /\ CopiesAreTold
  /\ IntentsStand
  /\ WantedWhileCalling

USE DEF StatusOf, SlotOf, RevisionOf

-----------------------------------------------------------------------------
(* Types *)

\* The slot and the revision of a job.
LEMMA KeyOfHeld ==
  ASSUME TypeOK, IInv, NEW w \in Worker, at[w] # "idle"
  PROVE  holds[w] \in JobKey /\ SlotOf(w) \in Slot /\ RevisionOf(w) \in 1..MaxRevision
<1>1. holds[w] \in JobKey
  BY DEF TypeOK, LedgerTypeOK, IInv, PlacesFit
<1>. QED
  BY <1>1 DEF JobKey

\* Changing the status of a row keeps its type.
LEMMA RowTypes ==
  ASSUME TypeOK, NEW s \in Slot,
         NEW status \in
           {"prepared", "sending", "sent", "failed", "cancelled", "ambiguous", "rejected"}
  PROVE  [row EXCEPT ![s].status = status] \in
           [Slot -> [status : {"none", "prepared", "sending", "sent", "failed", "cancelled",
                               "ambiguous", "rejected"},
                     envelope : Envelope]]
BY DEF TypeOK

\* An execution that ends, or was ended, leaves the ledger in its types.
LEMMA EndTypes ==
  ASSUME Parameters, TypeOK, NEW w \in Worker, NEW end \in Ending,
         (Decide(w, end) \/ Abandon(w)), Leave(w)
  PROVE  /\ LedgerTypeOK'
         /\ at' = [at EXCEPT ![w] = "idle"] /\ holds' = [holds EXCEPT ![w] = None]
         /\ source' = [source EXCEPT ![w] = 0]
         /\ source' \in [Worker -> 0..MaxGeneration]
<1>1. phase' \in [JobKey -> {"absent", "held"} \cup Ending]
  BY DEF Decide, Abandon, TypeOK, LedgerTypeOK
<1>2. holds' = [holds EXCEPT ![w] = None] /\ current' = [current EXCEPT ![w] = FALSE]
  BY DEF Decide, Abandon, Release
<1>. QED
  BY <1>1, <1>2 DEF Leave, GoTo, TypeOK, LedgerTypeOK, Parameters

\* Every step keeps every variable in its type.
LEMMA TypeStep == ASSUME Parameters, TypeOK, IInv, [Next]_vars PROVE TypeOK'
<1>. USE DEF GoTo
<1>1. ASSUME NEW status \in {"active", "paused"}, Save(status) PROVE TypeOK'
  BY <1>1 DEF Save, TypeOK, LedgerTypeOK, Parameters
<1>2. CASE SetReachable
  BY <1>2 DEF SetReachable, TypeOK, LedgerTypeOK
<1>3. CASE NextSlot \/ Publish
  BY <1>3 DEF NextSlot, Publish, TypeOK, LedgerTypeOK, Parameters
<1>4. CASE Schedule
  <2>1. phase' \in [JobKey -> {"absent", "held"} \cup Ending] /\ UNCHANGED <<holds, current>>
    BY <1>4 DEF Schedule, Open, TypeOK, LedgerTypeOK, Ending
  <2>. QED
    BY <1>4, <2>1 DEF Schedule, TypeOK, LedgerTypeOK
<1>5. ASSUME NEW w \in Worker, Take(w) PROVE TypeOK'
  BY <1>5 DEF Take, Grant, TypeOK, LedgerTypeOK
<1>6. ASSUME NEW w \in Worker, Prepare(w) PROVE TypeOK'
  <2>1. SlotOf(w) \in Slot /\ RevisionOf(w) \in 1..MaxRevision
    BY <1>6, KeyOfHeld DEF Prepare, Composes, MayCompose
  <2>2. [status |-> "prepared", envelope |-> Intent(w)] \in
          [status : {"none", "prepared", "sending", "sent", "failed", "cancelled", "ambiguous",
                     "rejected"}, envelope : Envelope]
    BY <2>1 DEF Intent, Envelope, TypeOK, Parameters
  <2>. QED
    BY <1>6, <2>1, <2>2 DEF Prepare, Composes, TypeOK, LedgerTypeOK
<1>7. ASSUME NEW w \in Worker, Resume(w) \/ Claim(w) PROVE TypeOK'
  <2>1. SlotOf(w) \in Slot
    BY <1>7, KeyOfHeld DEF Resume, Composes, MayCompose, Claim
  <2>2. row' = [row EXCEPT ![SlotOf(w)].status = "sending"] /\ at' = [at EXCEPT ![w] = "marked"]
    BY <1>7 DEF Resume, Claim, SetStatus
  <2>3. UNCHANGED <<jobVars, sub, reachable, due, published, copies>>
    BY <1>7 DEF Resume, Claim, Composes
  <2>4. source' \in [Worker -> 0..MaxGeneration]
    BY <1>7 DEF Resume, Claim, Composes, TypeOK
  <2>. QED
    BY <2>1, <2>2, <2>3, <2>4, RowTypes DEF TypeOK, LedgerTypeOK
<1>8. ASSUME NEW w \in Worker, Skip(w) \/ Refuse(w) \/ Overtaken(w) PROVE TypeOK'
  <2>1. PICK end \in Ending : (Decide(w, end) \/ Abandon(w)) /\ Leave(w)
    BY <1>8 DEF Skip, Refuse, End, Overtaken, Ending
  <2>. QED
    BY <1>8, <2>1, EndTypes DEF Skip, Refuse, Overtaken, TypeOK
<1>9. ASSUME NEW w \in Worker, Authorize(w) \/ Decline(w) PROVE TypeOK'
  BY <1>9 DEF Authorize, Decline, TypeOK, LedgerTypeOK
<1>10. ASSUME NEW w \in Worker, Accept(w) PROVE TypeOK'
  <2>1. SlotOf(w) \in Slot
    BY <1>10, KeyOfHeld DEF Accept
  <2>. QED
    BY <1>10, <2>1 DEF Accept, TypeOK, LedgerTypeOK
<1>11. ASSUME NEW w \in Worker, Cancel(w) \/ Record(w) PROVE TypeOK'
  <2>1. SlotOf(w) \in Slot
    BY <1>11, KeyOfHeld DEF Cancel, Record
  <2>2. PICK status \in {"sent", "failed", "cancelled", "ambiguous", "rejected"} :
          SetStatus(w, status)
    BY <1>11 DEF Cancel, Record, Outcome
  <2>3. PICK end \in Ending : (Decide(w, end) \/ Abandon(w)) /\ Leave(w)
    BY <1>11 DEF Cancel, Record, End, Ending
  <2>4. /\ row' \in [Slot -> [status : {"none", "prepared", "sending", "sent", "failed",
                                     "cancelled", "ambiguous", "rejected"},
                           envelope : Envelope]]
        /\ UNCHANGED <<sub, reachable, due, published, copies>>
    BY <1>11, <2>1, <2>2, RowTypes DEF Cancel, Record, SetStatus
  <2>5. /\ LedgerTypeOK' /\ at' = [at EXCEPT ![w] = "idle"]
        /\ source' \in [Worker -> 0..MaxGeneration]
    BY <2>3, EndTypes
  <2>. QED
    BY <2>4, <2>5 DEF TypeOK
<1>12. ASSUME NEW j \in JobKey, Recover(j) PROVE TypeOK'
  BY <1>12 DEF Recover, Revoke, TypeOK, LedgerTypeOK, Ending
<1>13. CASE UNCHANGED vars
  BY <1>13 DEF vars, TypeOK, LedgerTypeOK
<1>. QED
  BY <1>1, <1>2, <1>3, <1>4, <1>5, <1>6, <1>7, <1>8, <1>9, <1>10, <1>11, <1>12, <1>13 DEF Next

-----------------------------------------------------------------------------
(* The inductive invariant, by what a step does to the executions of a slot *)

\* No execution moves: what a send waits on does not change under it.
LEMMA OutsideStep ==
  ASSUME TypeOK, IInv, UNCHANGED <<holds, at, source, row, copies>>,
         RowsFree \/ UNCHANGED <<sub, reachable, published>>
  PROVE  IInv'
<1>1. (PlacesFit /\ ClaimsAreApart /\ CopiesAreTold /\ IntentsStand)'
  BY DEF IInv, PlacesFit, ClaimsAreApart, CopiesAreTold, IntentsStand
<1>2. WantedWhileCalling'
  BY DEF IInv, WantedWhileCalling, RowsFree, Locking, StillWanted, Eligible
<1>. QED
  BY <1>1, <1>2 DEF IInv

\* An execution begins or is over, and nothing else happens.
LEMMA ComesOrGoes ==
  ASSUME TypeOK, IInv, UNCHANGED <<sub, reachable, published, row, copies>>,
         NEW w \in Worker, NEW place \in {"idle", "begin"}, NEW key,
         at' = [at EXCEPT ![w] = place], holds' = [holds EXCEPT ![w] = key],
         place = "idle" <=> key = None,
         \A v \in Worker \ {w} : source'[v] = source[v]
  PROVE  IInv'
<1>1. \A v \in Worker : v # w =>
        at'[v] = at[v] /\ holds'[v] = holds[v] /\ source'[v] = source[v]
  BY DEF TypeOK, LedgerTypeOK
<1>2. at'[w] = place /\ holds'[w] = key
  BY DEF TypeOK, LedgerTypeOK
<1>3. PlacesFit'
  BY <1>1, <1>2 DEF IInv, PlacesFit
<1>4. ClaimsAreApart'
  BY <1>1, <1>2 DEF IInv, ClaimsAreApart, Settling
<1>5. CopiesAreTold'
  BY <1>1, <1>2 DEF IInv, CopiesAreTold
<1>6. IntentsStand'
  BY <1>1, <1>2 DEF IInv, IntentsStand, Settling
<1>7. WantedWhileCalling'
  BY <1>1, <1>2 DEF IInv, WantedWhileCalling, StillWanted, Eligible
<1>. QED
  BY <1>3, <1>4, <1>5, <1>6, <1>7 DEF IInv

\* The intent of a slot that had none.
LEMMA PrepareStep == ASSUME Parameters, TypeOK, IInv, NEW w \in Worker, Prepare(w) PROVE IInv'
<1>. DEFINE k == SlotOf(w)
<1>1. /\ at[w] = "begin" /\ at'[w] = "prepared" /\ k \in Slot /\ row[k].status = "none"
      /\ UNCHANGED <<holds, sub, reachable, published, copies>>
      /\ source'[w] = published /\ at[w] # "idle"
  BY KeyOfHeld DEF Prepare, Composes, MayCompose, GoTo, TypeOK
<1>2. \A v \in Worker : v # w => at'[v] = at[v] /\ source'[v] = source[v]
  BY DEF Prepare, Composes, GoTo, TypeOK
<1>3. /\ row'[k] = [status |-> "prepared", envelope |-> Intent(w)]
      /\ \A s \in Slot : s # k => row'[s] = row[s]
  BY <1>1 DEF Prepare, TypeOK
<1>4. \A v \in Worker : at[v] \in {"prepared"} \cup Settling => SlotOf(v) # k
  BY <1>1 DEF IInv, IntentsStand
<1>5. \A v \in Worker : at[v] # "idle" => SlotOf(v) \in Slot
  BY KeyOfHeld
<1>6. PlacesFit'
  BY <1>1, <1>2 DEF IInv, PlacesFit
<1>7. ClaimsAreApart'
  BY <1>1, <1>2, <1>3, <1>4, <1>5 DEF IInv, ClaimsAreApart, Settling
<1>8. CopiesAreTold'
  <2>1. copies[k] = 0
    BY <1>1 DEF IInv, CopiesAreTold
  <2>. QED
    BY <1>1, <1>2, <1>3, <2>1 DEF IInv, CopiesAreTold
<1>9. IntentsStand'
  BY <1>1, <1>2, <1>3, <1>4, <1>5 DEF IInv, IntentsStand, Settling, Intent
<1>10. WantedWhileCalling'
  BY <1>1, <1>2 DEF IInv, WantedWhileCalling, StillWanted, Eligible
<1>. QED
  BY <1>6, <1>7, <1>8, <1>9, <1>10 DEF IInv

\* A row that nobody is at and that has brought nothing is claimed.
LEMMA ClaimStep ==
  ASSUME Parameters, TypeOK, IInv, NEW w \in Worker, Resume(w) \/ Claim(w) PROVE IInv'
<1>. DEFINE k == SlotOf(w)
<1>1. /\ at[w] \in {"begin", "prepared"} /\ at'[w] = "marked" /\ k \in Slot
      /\ row[k].status \in {"prepared", "failed"}
      /\ UNCHANGED <<holds, sub, reachable, published, copies>>
  BY KeyOfHeld DEF Resume, Claim, Composes, MayCompose, GoTo, TypeOK, Claimable
<1>2. \A v \in Worker : v # w => at'[v] = at[v] /\ source'[v] = source[v]
  BY DEF Resume, Claim, Composes, GoTo, TypeOK
<1>3. /\ row'[k].status = "sending" /\ row'[k].envelope = row[k].envelope
      /\ \A s \in Slot : s # k => row'[s] = row[s]
  BY <1>1 DEF Resume, Claim, SetStatus, TypeOK
<1>4. row[k].envelope = [revision |-> RevisionOf(w), generation |-> source'[w]]
  <2>1. CASE Resume(w)
    BY <2>1 DEF Resume, Composes, Intent, TypeOK
  <2>2. CASE Claim(w)
    BY <2>2 DEF Claim, IInv, IntentsStand
  <2>. QED
    BY <2>1, <2>2
<1>5. \A v \in Worker : at[v] \in Settling => SlotOf(v) # k
  BY <1>1 DEF IInv, ClaimsAreApart
<1>6. \A v \in Worker : at[v] # "idle" => SlotOf(v) \in Slot
  BY KeyOfHeld
<1>7. PlacesFit'
  BY <1>1, <1>2 DEF IInv, PlacesFit
<1>8. ClaimsAreApart'
  BY <1>1, <1>2, <1>3, <1>5, <1>6 DEF IInv, ClaimsAreApart, Settling
<1>9. CopiesAreTold'
  <2>1. copies[k] = 0
    BY <1>1 DEF IInv, CopiesAreTold
  <2>. QED
    BY <1>1, <1>2, <1>3, <2>1 DEF IInv, CopiesAreTold
<1>10. IntentsStand'
  <2>1. ASSUME NEW v \in Worker, v # w, at[v] \in {"prepared"} \cup Settling
        PROVE  /\ row'[SlotOf(v)].status # "none"
               /\ row'[SlotOf(v)].envelope = row[SlotOf(v)].envelope
    BY <1>3, <1>6, <2>1 DEF IInv, IntentsStand, Settling
  <2>. QED
    BY <1>1, <1>2, <1>3, <1>4, <2>1 DEF IInv, IntentsStand
<1>11. WantedWhileCalling'
  BY <1>1, <1>2 DEF IInv, WantedWhileCalling, StillWanted, Eligible
<1>. QED
  BY <1>7, <1>8, <1>9, <1>10, <1>11 DEF IInv

\* The send, from the last check to the answer of Meta.
LEMMA SendStep ==
  ASSUME Parameters, TypeOK, IInv, NEW w \in Worker, Authorize(w) \/ Accept(w) \/ Decline(w)
  PROVE  IInv'
<1>. DEFINE k == SlotOf(w)
<1>1. /\ at[w] \in {"marked", "calling"} /\ k \in Slot
      /\ UNCHANGED <<holds, sub, reachable, published, row, source>>
  BY KeyOfHeld DEF Authorize, Accept, Decline
<1>2. /\ at'[w] \in {"calling", "accepted", "unanswered", "throttled", "refused"}
      /\ \A v \in Worker : v # w => at'[v] = at[v]
  BY DEF Authorize, Accept, Decline, GoTo, TypeOK
<1>3. /\ copies'[k] = copies[k] \/ copies'[k] = copies[k] + 1
      /\ copies'[k] # copies[k] => at'[w] \in {"accepted", "unanswered"}
      /\ \A s \in Slot : s # k => copies'[s] = copies[s]
  BY <1>1 DEF Authorize, Accept, Decline, GoTo, TypeOK
<1>4. copies[k] = 0 /\ row[k].status = "sending"
  BY <1>1 DEF IInv, CopiesAreTold, ClaimsAreApart, Settling
<1>5. \A v \in Worker : at[v] # "idle" => SlotOf(v) \in Slot
  BY KeyOfHeld
<1>6. PlacesFit'
  BY <1>1, <1>2 DEF IInv, PlacesFit
<1>7. ClaimsAreApart'
  BY <1>1, <1>2 DEF IInv, ClaimsAreApart, Settling
<1>8. CopiesAreTold'
  <2>1. ASSUME NEW s \in Slot
        PROVE  /\ copies'[s] \in {0, 1}
               /\ copies'[s] = 1 => row'[s].status \in {"sending", "sent", "ambiguous"}
    BY <1>1, <1>3, <1>4 DEF IInv, CopiesAreTold
  <2>2. ASSUME NEW v \in Worker, at'[v] \in {"marked", "calling", "throttled", "refused"}
        PROVE  copies'[SlotOf(v)] = 0
    <3>1. CASE v = w
      BY <1>3, <1>4, <2>2, <3>1
    <3>2. CASE v # w
      <4>1. SlotOf(v) # k
        BY <1>1, <1>2, <2>2, <3>2 DEF IInv, ClaimsAreApart, Settling
      <4>. QED
        BY <1>2, <1>3, <1>5, <2>2, <3>2, <4>1 DEF IInv, CopiesAreTold
    <3>. QED
      BY <3>1, <3>2
  <2>. QED
    BY <1>1, <2>1, <2>2 DEF CopiesAreTold
<1>9. IntentsStand'
  BY <1>1, <1>2 DEF IInv, IntentsStand, Settling
<1>10. WantedWhileCalling'
  <2>1. at'[w] = "calling" => StillWanted(w)
    BY DEF Authorize, Accept, Decline, GoTo, TypeOK
  <2>. QED
    BY <1>1, <1>2, <2>1 DEF IInv, WantedWhileCalling, StillWanted, Eligible
<1>. QED
  BY <1>6, <1>7, <1>8, <1>9, <1>10 DEF IInv

\* The outcome, recorded by the execution whose claim it is.
LEMMA OutcomeStep ==
  ASSUME Parameters, TypeOK, IInv, NEW w \in Worker, Cancel(w) \/ Record(w) PROVE IInv'
<1>. DEFINE k == SlotOf(w)
<1>1. at[w] \in Settling /\ at[w] # "calling" /\ k \in Slot
  BY KeyOfHeld DEF Cancel, Record, Settling
<1>2. UNCHANGED <<sub, reachable, published, copies>>
  BY DEF Cancel, Record
<1>3. /\ at'[w] = "idle" /\ holds'[w] = None
      /\ \A v \in Worker : v # w =>
           at'[v] = at[v] /\ holds'[v] = holds[v] /\ source'[v] = source[v]
  <2>1. PICK end \in Ending : (Decide(w, end) \/ Abandon(w)) /\ Leave(w)
    BY DEF Cancel, Record, End, Ending
  <2>. QED
    BY <2>1, EndTypes DEF TypeOK, LedgerTypeOK
<1>4. PICK status \in {"sent", "failed", "cancelled", "ambiguous", "rejected"} :
        /\ SetStatus(w, status)
        /\ at[w] \in {"accepted", "unanswered"} => status \in {"sent", "ambiguous"}
  BY DEF Cancel, Record, Outcome
<1>5. /\ row'[k].status = status /\ row'[k].envelope = row[k].envelope
      /\ \A s \in Slot : s # k => row'[s] = row[s]
  BY <1>1, <1>4 DEF SetStatus, TypeOK
<1>6. \A v \in Worker : at[v] \in Settling /\ v # w => SlotOf(v) # k
  BY <1>1 DEF IInv, ClaimsAreApart
<1>7. \A v \in Worker : at[v] # "idle" => SlotOf(v) \in Slot
  BY KeyOfHeld
<1>8. PlacesFit'
  BY <1>3 DEF IInv, PlacesFit
<1>9. ClaimsAreApart'
  BY <1>3, <1>5, <1>6, <1>7 DEF IInv, ClaimsAreApart, Settling
<1>10. CopiesAreTold'
  <2>1. copies[k] = 1 => status \in {"sent", "ambiguous"}
    BY <1>1, <1>4 DEF IInv, CopiesAreTold, Settling
  <2>. QED
    BY <1>2, <1>3, <1>5, <2>1 DEF IInv, CopiesAreTold
<1>11. IntentsStand'
  <2>1. ASSUME NEW v \in Worker, v # w, at[v] \in {"prepared"} \cup Settling
        PROVE  /\ row'[SlotOf(v)].status # "none"
               /\ row'[SlotOf(v)].envelope = row[SlotOf(v)].envelope
    BY <1>5, <1>7, <2>1 DEF IInv, IntentsStand, Settling
  <2>. QED
    BY <1>3, <2>1 DEF IInv, IntentsStand, Settling
<1>12. WantedWhileCalling'
  BY <1>2, <1>3 DEF IInv, WantedWhileCalling, StillWanted, Eligible
<1>. QED
  BY <1>8, <1>9, <1>10, <1>11, <1>12 DEF IInv

\* Every step keeps the invariant.
LEMMA Step == ASSUME Parameters, TypeOK, IInv, [Next]_vars PROVE IInv'
<1>1. ASSUME NEW status \in {"active", "paused"}, Save(status) PROVE IInv'
  BY <1>1, OutsideStep DEF Save
<1>2. CASE SetReachable \/ NextSlot \/ Publish
  BY <1>2, OutsideStep DEF SetReachable, NextSlot, Publish
<1>3. CASE Schedule \/ \E j \in JobKey : Recover(j)
  BY <1>3, OutsideStep DEF Schedule, Open, Recover, Revoke
<1>4. ASSUME NEW w \in Worker, Take(w) PROVE IInv'
  <2>1. PICK j \in JobKey : Grant(w, j)
    BY <1>4 DEF Take
  <2>2. j # None
    BY DEF Parameters
  <2>. QED
    BY <1>4, <2>1, <2>2, ComesOrGoes DEF Take, Grant, GoTo
<1>5. ASSUME NEW w \in Worker, Skip(w) \/ Refuse(w) \/ Overtaken(w) PROVE IInv'
  <2>1. PICK end \in Ending : (Decide(w, end) \/ Abandon(w)) /\ Leave(w)
    BY <1>5 DEF Skip, Refuse, End, Overtaken, Ending
  <2>2. /\ at' = [at EXCEPT ![w] = "idle"] /\ holds' = [holds EXCEPT ![w] = None]
        /\ source' = [source EXCEPT ![w] = 0]
    BY <2>1, EndTypes
  <2>3. UNCHANGED <<sub, reachable, published, row, copies>>
    BY <1>5 DEF Skip, Refuse, Overtaken
  <2>4. \A v \in Worker \ {w} : source'[v] = source[v]
    BY <2>2 DEF TypeOK
  <2>. QED
    BY <2>2, <2>3, <2>4, ComesOrGoes
<1>6. ASSUME NEW w \in Worker, Prepare(w) \/ Resume(w) \/ Claim(w) \/ Authorize(w) \/ Accept(w)
               \/ Decline(w) \/ Cancel(w) \/ Record(w)
      PROVE  IInv'
  BY <1>6, PrepareStep, ClaimStep, SendStep, OutcomeStep
<1>7. CASE UNCHANGED vars
  BY <1>7, OutsideStep DEF vars
<1>. QED
  BY <1>1, <1>2, <1>3, <1>4, <1>5, <1>6, <1>7 DEF Next

\* Nothing is subscribed to, and no worker holds a job.
LEMMA InitOK == ASSUME Parameters, Init PROVE TypeOK /\ IInv
<1>1. TypeOK
  BY DEF Init, LedgerInit, TypeOK, LedgerTypeOK, Ending, Parameters, NoRow, Envelope, Slot
<1>2. IInv
  BY DEF Init, LedgerInit, IInv, PlacesFit, ClaimsAreApart, CopiesAreTold, IntentsStand,
    WantedWhileCalling, Settling
<1>. QED
  BY <1>1, <1>2

\* The two are inductive together.
LEMMA Invariance == ASSUME Parameters PROVE Spec => [](TypeOK /\ IInv)
<1>1. Init => TypeOK /\ IInv
  BY InitOK
<1>2. TypeOK /\ IInv /\ [Next]_vars => (TypeOK /\ IInv)'
  BY TypeStep, Step
<1>. QED
  BY <1>1, <1>2, PTL DEF Spec

-----------------------------------------------------------------------------
(* The theorems *)

\* Every variable keeps its type.
THEOREM TypeCorrect == ASSUME Parameters PROVE Spec => []TypeOK
BY Invariance, PTL

\* However often the subscription is changed and its jobs are retried, overtaken or
\* interrupted, and the answers of Meta lost, a slot brings at most one summary.
THEOREM OneSummary == ASSUME Parameters PROVE Spec => []OneSummaryPerSlot
<1>1. IInv => OneSummaryPerSlot
  BY DEF IInv, CopiesAreTold, OneSummaryPerSlot
<1>. QED
  BY <1>1, Invariance, PTL

\* A summary goes out while its revision is the active one, its owner may and wants to be
\* reached and its numbers are the published ones.
THEOREM WantedSummaries == ASSUME Parameters PROVE Spec => SentAsWanted
<1>1. ASSUME TypeOK, IInv, [Next]_vars, NEW s \in Slot, copies'[s] > copies[s]
      PROVE  /\ sub.status = "active" /\ sub.revision = row[s].envelope.revision
             /\ reachable
             /\ published = row[s].envelope.generation
  <2>1. PICK w \in Worker : Accept(w)
    <3>1. copies' # copies
      BY <1>1 DEF TypeOK
    <3>2. ASSUME NEW w \in Worker, Cancel(w) \/ Record(w) PROVE UNCHANGED copies
      BY <3>2 DEF Cancel, Record
    <3>. QED
      BY <1>1, <3>1, <3>2
        DEF Next, vars, Save, SetReachable, NextSlot, Publish, Schedule, Take, Skip, Prepare,
          Resume, Composes, Claim, Refuse, Authorize, Decline, Overtaken, Recover
  <2>2. at[w] = "calling" /\ copies' = [copies EXCEPT ![SlotOf(w)] = @ + 1]
    BY <2>1 DEF Accept
  <2>3. SlotOf(w) = s
    BY <1>1, <2>2 DEF TypeOK
  <2>4. row[s].envelope = [revision |-> RevisionOf(w), generation |-> source[w]]
    BY <1>1, <2>2, <2>3 DEF IInv, IntentsStand, Settling
  <2>5. Eligible(w) /\ published = source[w]
    BY <1>1, <2>2 DEF IInv, WantedWhileCalling, StillWanted
  <2>. QED
    BY <2>4, <2>5 DEF Eligible
<1>2. TypeOK /\ IInv /\ [Next]_vars =>
        [\A s \in Slot : copies'[s] > copies[s] =>
          /\ sub.status = "active" /\ sub.revision = row[s].envelope.revision
          /\ reachable
          /\ published = row[s].envelope.generation]_vars
  BY <1>1
<1>. QED
  BY <1>2, Invariance, PTL DEF Spec, SentAsWanted

=============================================================================
