---------------------------- MODULE DeliveryReceipts ----------------------------
(***************************************************************************)
(* What becomes of one outbound message after it was handed to Meta: the   *)
(* sender records the outcome, Meta's delivery callbacks come in any order *)
(* and are processed by jobs (services/whatsapp.py), and the scheduler     *)
(* turns failures into alert jobs (services/operational_alerts.py).        *)
(*                                                                         *)
(* A job that is taken from its execution may be executed twice at once.   *)
(***************************************************************************)
EXTENDS Integers

CONSTANTS
  Worker  \* executions that process callbacks

VARIABLES
  accepted,  \* Meta has accepted the message
  message,   \* the row of the message: status and status_rank, known: it has Meta's id
  inbox,     \* of each callback: the job that processes it
  evidence,  \* of each callback: its row of whatsapp_delivery_events
  reading,   \* what each execution has read
  alert      \* of each source of failure: its alert job

vars == <<accepted, message, inbox, evidence, reading, alert>>

Callback == {"sent", "delivered", "read", "failed"}
Source == {"message", "failed"}

\* DELIVERY_STATUS_RANK.
Ranked == {"sending", "sent", "delivered", "read"}
Rank(status) == CASE status = "sending" -> 2 [] status = "sent" -> 3
                  [] status = "delivered" -> 4 [] status = "read" -> 5

FailedStatus == {"failed", "rejected", "ambiguous"}

Nothing == [callback |-> "none", found |-> FALSE, rank |-> 0, recorded |-> FALSE]

TypeOK ==
  /\ accepted \in BOOLEAN
  /\ message \in [status : Ranked \cup FailedStatus, rank : 2..5, known : BOOLEAN]
  /\ inbox \in [Callback -> {"absent", "received", "processed"}]
  /\ evidence \in [Callback -> {"none", "linked", "unlinked"}]
  /\ reading \in [Worker -> [callback : Callback \cup {"none"}, found : BOOLEAN, rank : 0..5,
                             recorded : BOOLEAN]]
  /\ alert \in [Source -> {"none", "queued", "delivered", "dead"}]

Init ==
  /\ accepted = FALSE
  /\ message = [status |-> "sending", rank |-> 2, known |-> FALSE]
  /\ inbox = [c \in Callback |-> "absent"]
  /\ evidence = [c \in Callback |-> "none"]
  /\ reading = [w \in Worker |-> Nothing]
  /\ alert = [s \in Source |-> "none"]

-----------------------------------------------------------------------------
(* The message. *)

MetaAccepts ==
  /\ message.status = "sending" /\ ~accepted
  /\ accepted' = TRUE
  /\ UNCHANGED <<message, inbox, evidence, reading, alert>>

\* _deliver_once commits Meta's id with the status.
RecordSent ==
  /\ message.status = "sending" /\ accepted
  /\ message' = [status |-> "sent", rank |-> 3, known |-> TRUE]
  /\ UNCHANGED <<accepted, inbox, evidence, reading, alert>>

\* No answer, or an error: the id is never known.
RecordFailure(status) ==
  /\ message.status = "sending"
  /\ status \in {"failed", "rejected"} => ~accepted
  /\ message' = [message EXCEPT !.status = status]
  /\ UNCHANGED <<accepted, inbox, evidence, reading, alert>>

\* A throttled message is sent again by the next attempt of its job.
Resend ==
  /\ message.status = "failed"
  /\ message' = [message EXCEPT !.status = "sending"]
  /\ UNCHANGED <<accepted, inbox, evidence, reading, alert>>

-----------------------------------------------------------------------------
(* The callbacks: _process_delivery. *)

Receive(c) ==
  /\ accepted
  /\ inbox[c] = "absent"
  /\ inbox' = [inbox EXCEPT ![c] = "received"]
  /\ UNCHANGED <<accepted, message, evidence, reading, alert>>

\* It looks for the message and for its own evidence, and locks neither.
Read(w, c) ==
  /\ reading[w] = Nothing
  /\ inbox[c] = "received"
  /\ reading' = [reading EXCEPT ![w] =
       [callback |-> c, found |-> message.known, rank |-> message.rank,
        recorded |-> evidence[c] # "none"]]
  /\ UNCHANGED <<accepted, message, inbox, evidence, alert>>

\* What it decides on what it read; the status it read is not written again.
Shown(c, seen) ==
  IF seen.found /\ c # "failed" /\ Rank(c) > seen.rank
  THEN [message EXCEPT !.status = c, !.rank = Rank(c)]
  ELSE message

\* The unique constraint lets one execution insert the evidence; the other rolls back.
Write(w) ==
  LET seen == reading[w]
      c == seen.callback
  IN /\ seen # Nothing
     /\ reading' = [reading EXCEPT ![w] = Nothing]
     /\ IF ~seen.recorded /\ evidence[c] # "none"
        THEN UNCHANGED <<message, inbox, evidence>>
        ELSE /\ message' = Shown(c, seen)
             /\ inbox' = [inbox EXCEPT ![c] = "processed"]
             /\ evidence' = [evidence EXCEPT ![c] =
                  IF seen.recorded THEN @ ELSE IF seen.found THEN "linked" ELSE "unlinked"]
     /\ UNCHANGED <<accepted, alert>>

\* The worker dies; its job is recovered.
Crash(w) ==
  /\ reading[w] # Nothing
  /\ reading' = [reading EXCEPT ![w] = Nothing]
  /\ UNCHANGED <<accepted, message, inbox, evidence, alert>>

-----------------------------------------------------------------------------
(* The alerts. *)

\* Mutant of Failed: the evidence is joined with its message.
FailedAndLinked(s) ==
  IF s = "message" THEN message.status \in FailedStatus ELSE evidence[s] = "linked"

\* The failures a scan of the scheduler finds: rows of messages, and evidence
\* whether or not a message is known to it.
Failed(s) ==
  IF s = "message" THEN message.status \in FailedStatus ELSE evidence[s] # "none"

\* discover_operational_alerts: one job per source, for ever.
Discover(s) ==
  /\ Failed(s)
  /\ alert[s] = "none"
  /\ alert' = [alert EXCEPT ![s] = "queued"]
  /\ UNCHANGED <<accepted, message, inbox, evidence, reading>>

\* deliver_operational_alert succeeds, or the last attempt fails.
DeliverAlert(s) ==
  /\ alert[s] = "queued"
  /\ \E end \in {"delivered", "dead"} : alert' = [alert EXCEPT ![s] = end]
  /\ UNCHANGED <<accepted, message, inbox, evidence, reading>>

Next ==
  \/ MetaAccepts \/ RecordSent \/ Resend
  \/ \E status \in FailedStatus : RecordFailure(status)
  \/ \E c \in Callback : Receive(c)
  \/ \E w \in Worker, c \in Callback : Read(w, c)
  \/ \E w \in Worker : Write(w) \/ Crash(w)
  \/ \E s \in Source : Discover(s) \/ DeliverAlert(s)

Spec == Init /\ [][Next]_vars

\* The scheduler keeps scanning, within the window it looks back over.
Scans == \A s \in Source : WF_vars(Discover(s))

-----------------------------------------------------------------------------
\* Delivery status is monotonic: a message that was shown as read, or delivered,
\* never shows less again, in whichever order its callbacks are processed.
StatusIsMonotonic ==
  [][message.status \in Ranked \ {"sending"} =>
       message'.status \in Ranked /\ Rank(message'.status) >= Rank(message.status)]_vars

\* A failed delivery is reported, even when its callback was processed before the id
\* of the message was known; so is a message that failed for good.
FailureIsAlerted ==
  /\ inbox["failed"] = "processed" ~> alert["failed"] # "none"
  /\ message.status \in {"rejected", "ambiguous"} ~> alert["message"] # "none"

=============================================================================
