--------------------------- MODULE MCConversations ---------------------------
(***************************************************************************)
(* What a person does with the assistant, for TLC: a behaviour follows the *)
(* turns of AgentRun, the calls of VoiceCalls, the turns of one call, one  *)
(* memory or one research report.                                          *)
(* They share no state.                                                    *)
(***************************************************************************)
EXTENDS AgentRun, FiniteSets, TLC

CONSTANTS
  Fact,      \* what a memory may say
  MaxWrites, \* bound: writes of the memory
  Format,    \* the formats a report is asked for
  MaxTime,   \* bound: decisions on consent and the creation of the report
  MaxBegun,  \* bound: attempts to generate the report
  MaxFailures, \* bound: restarts of the voice gateway, and calls of others that fail
  MaxReplies,  \* bound: answers of the assistant in a call
  MaxOnsets    \* bound: how often the caller begins to speak

ASSUME BoundsAssumption ==
  /\ MaxWrites \in Nat /\ MaxTime \in Nat /\ MaxBegun \in Nat
  /\ MaxFailures \in Nat /\ MaxReplies \in Nat /\ MaxOnsets \in Nat

\* The values of the turns also stand for two calls, chats or participants.
Peer == Turn

VARIABLES
  part,
  places, phone, remote, mark, admission, hangups, session, answers, failures, lost,
  generation, speaking, onsets, turn, assistant, track, heard, updates, receipt, pending,
  over, failed,
  scope, mayShare, row, command, previews, typed, replaced,
  time, granted, deciding, withdrawn, report, rows, files, gen, begun, visit, torn

Calls   == INSTANCE VoiceCalls WITH Call <- Peer
Speech  == INSTANCE VoiceTurns WITH worker <- assistant, closed <- over
Memory  == INSTANCE ScopedMemory WITH Chat <- Peer
Reports == INSTANCE ResearchReports WITH Person <- Peer

\* None is no row of a report, no visit, no session and no output.
ASSUME NoReportAssumption ==
  None # Reports!Gone /\ None \notin Reports!Report /\ None \notin Reports!Visitor
ASSUME NoSessionAssumption ==
  None \notin Calls!Session /\ None \notin Calls!Admission /\ None \notin Speech!Output

callVars   == <<places, phone, remote, mark, admission, hangups, session, answers, failures, lost>>
speechVars == <<generation, speaking, onsets, turn, assistant, track, heard, updates, receipt,
                pending, over, failed>>
memoryVars == <<scope, mayShare, row, command, previews, typed, replaced>>
reportVars == <<time, granted, deciding, withdrawn, report, rows, files, gen, begun, visit, torn>>
allVars    == <<part, vars, callVars, speechVars, memoryVars, reportVars>>

-----------------------------------------------------------------------------
ConversationsInit ==
  /\ part \in {"turns", "calls", "speech", "memory", "report"}
  /\ Init /\ Calls!Init /\ Speech!Init /\ Memory!Init /\ Reports!Init
  /\ part # "calls" => places = 1 /\ phone = [c \in Peer |-> c]
  /\ part # "memory" => scope = "private"

TurnStep ==
  /\ part = "turns" /\ Next
  /\ UNCHANGED <<part, callVars, speechVars, memoryVars, reportVars>>

CallStep ==
  /\ part = "calls" /\ Calls!Next
  /\ UNCHANGED <<part, vars, speechVars, memoryVars, reportVars>>

SpeechStep ==
  /\ part = "speech" /\ Speech!Next
  /\ UNCHANGED <<part, vars, callVars, memoryVars, reportVars>>

MemoryStep ==
  /\ part = "memory" /\ Memory!Next
  /\ UNCHANGED <<part, vars, callVars, speechVars, reportVars>>

ReportStep ==
  /\ part = "report" /\ Reports!Next
  /\ UNCHANGED <<part, vars, callVars, speechVars, memoryVars>>

ConversationsNext ==
  TurnStep \/ CallStep \/ SpeechStep \/ MemoryStep \/ ReportStep

ConversationsSpec == ConversationsInit /\ [][ConversationsNext]_allVars

\* The turns alone, with their fairness.
TurnsInit == ConversationsInit /\ part = "turns"
TurnsSpec == TurnsInit /\ [][ConversationsNext]_allVars /\ Fairness

Symmetry == Permutations(Worker) \cup Permutations(Turn)

-----------------------------------------------------------------------------
\* Every variable has its type.
ConversationsTypeOK ==
  /\ part = "turns" => TypeOK
  /\ part = "calls" => Calls!TypeOK
  /\ part = "speech" => Speech!TypeOK
  /\ part = "memory" => Memory!TypeOK
  /\ part = "report" => Reports!TypeOK

\* Every call is answered once, within the limits, and no answered call is left to itself; what
\* is said in it answers the caller, and what the database says of it is what was heard.
CallsAreKept ==
  /\ part = "calls" => Calls!AnsweredOnce /\ Calls!NoCallIsForgotten
  /\ part = "speech" =>
       Speech!RequestKnowsWhatWasHeard /\ Speech!NoStaleAnswer /\ Speech!SettledAtEnd

\* What is shared was reviewed, and nothing is replaced that its author has not seen.
MemoryIsReviewed ==
  part = "memory" => Memory!SharedIsReviewed /\ Memory!NothingUnseenIsReplaced

\* Withdrawn data is not served, and no file is left that nobody will find.
ReportsAreKept ==
  part = "report" => Reports!NobodyWithdrawnIsServed /\ Reports!NoFileIsForgotten

=============================================================================
