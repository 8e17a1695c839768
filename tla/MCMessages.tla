----------------------------- MODULE MCMessages -----------------------------
(***************************************************************************)
(* What becomes of a message received and of a message sent, for TLC: a    *)
(* behaviour follows the receipts of WhatsAppInbox or one outbound message *)
(* of DeliveryReceipts.                                                    *)
(***************************************************************************)
EXTENDS WhatsAppInbox

CONSTANT Executor  \* executions that process delivery callbacks

VARIABLES
  direction,
  accepted, message, inbox, evidence, reading, alert

receiptVars == <<accepted, message, inbox, evidence, reading, alert>>

Sent == INSTANCE DeliveryReceipts WITH Worker <- Executor

MessagesInit ==
  /\ direction \in {"received", "sent"}
  /\ Init
  /\ Sent!Init

ReceivedStep == direction = "received" /\ Next /\ UNCHANGED <<direction, receiptVars>>
SentStep == direction = "sent" /\ Sent!Next /\ UNCHANGED <<direction, vars>>

MessagesNext == ReceivedStep \/ SentStep

\* The fairness of each, where it runs.
MessagesSpec ==
  /\ MessagesInit /\ [][MessagesNext]_<<direction, vars, receiptVars>>
  /\ direction = "received" => Fairness
  /\ Sent!Scans

-----------------------------------------------------------------------------
\* Every variable has its type.
MessagesTypeOK == TypeOK /\ Sent!TypeOK

\* Every receipt is resolved, unless a dead letter of its stream holds it up.
EveryReceivedResolves == EveryReceiptResolves

\* Every failed delivery is reported to the operators.
FailureIsAlerted == Sent!FailureIsAlerted

=============================================================================
