------------------------ MODULE MCConversationsProofs ------------------------
(***************************************************************************)
(* What holds of AgentRun for any set of turns, of web turns, sweeps,      *)
(* workers and conversations: the invariant IInv is inductive together     *)
(* with TypeOK, and the safety properties of the turns follow from it.     *)
(* FewChange and OwnStep say which actions can disturb what.               *)
(***************************************************************************)
EXTENDS MCConversations, FiniteSetTheorems, SequenceTheorems, TLAPS

USE TurnAssumption, NoneAssumption, BoundsAssumption
USE DEF jobVars, runVars, convVars, productVars, reconcileVars

\* An execution is under way exactly while its worker holds a job.
PlacesFit == \A w \in Worker : at[w] = "idle" <=> holds[w] = None

\* A turn without a conversation has no run and no answer, and is not reconciled.
BegunHasConversation ==
  /\ \A t \in Turn : conv[t] = None => status[t] = "absent" /\ replies[t] = 0
  /\ \A w \in Worker : subject[w] # None => conv[subject[w]] # None
  /\ \A w \in Worker : \A t \in batch[w] : conv[t] # None

\* Whoever asks for the outcome of a turn without an answer claimed it while it was active.
ClaimedWhileActive ==
  \A w \in Worker :
    at[w] = "polling" /\ replies[subject[w]] = 0 => anchor[w] = subject[w]

\* The active run of a conversation is that of the turn that began last in it.
ActiveIsLatest == \A c \in Conversation : active[c] # None => latest[c] = active[c]

IInv ==
  /\ PlacesFit
  /\ BegunHasConversation
  /\ PinnedByOpenRun
  /\ AnsweredOnce
  /\ ClaimedWhileActive
  /\ ActiveIsLatest

\* What TypeOK says of the executions.
PlacesTypeOK ==
  /\ at \in [Worker -> Place]
  /\ subject \in [Worker -> Turn \cup {None}]
  /\ batch \in [Worker -> SUBSET Turn]
  /\ anchor \in [Worker -> Turn \cup {None}]
  /\ \A w \in Worker :
       /\ at[w] \in {"receive", "deliver", "sending"} \cup Chatting => holds[w] \in Turn
       /\ at[w] \in {"reconcile", "polling"} <=> subject[w] # None
       /\ batch[w] # {} => holds[w] \in Sweep

-----------------------------------------------------------------------------
(* Which actions move what *)

Accepts(w) == AcceptAnswer(w) \/ AcceptFallback(w)
Settles(w) == ClaimRun(w) \/ RefuseRun(w) \/ Apply(w)
End(w)     ==
  \/ Finish(w) \/ Raise(w) \/ Overtaken(w) \/ Crash(w)
  \/ \E c \in Conversation : BeginRefused(w, c)

\* Runs, pointers, answers and conversations are changed by few of the actions.
LEMMA FewChange ==
  ASSUME [Next]_vars
  PROVE  \/ UNCHANGED <<status, conv, active, replies, latest, closed>>
         \/ \E w \in Worker, c \in Conversation : Begin(w, c)
         \/ \E w \in Worker : Accepts(w) \/ Abort(w) \/ Settles(w)
         \/ \E c \in Conversation : Reset(c)
<1>1. ASSUME NEW w \in Worker, ChatStep(w) \/ RecoveryStep(w) \/ JobStep(w),
             \A c \in Conversation : ~Begin(w, c),
             ~(Accepts(w) \/ Abort(w) \/ Settles(w))
      PROVE  UNCHANGED <<status, conv, active, replies, latest, closed>>
  BY <1>1
    DEF ChatStep, RecoveryStep, JobStep, Accepts, Settles, BeginRefused, Resume, Prepare, Submit,
      RecordAdmission, NextRun, Wait, ClaimLost, Take, Send, SendEnds, SkipSend, Finish, Raise,
      Overtaken, Crash
<1>2. ASSUME NEW t \in Turn, Arrive(t) \/ Replay(t) \/ ProviderEnds(t) \/ GenerateImage(t)
               \/ QueueFile(t) \/ Expire(t)
      PROVE  UNCHANGED <<status, conv, active, replies, latest, closed>>
  BY <1>2 DEF Arrive, Replay, ProviderEnds, GenerateImage, QueueFile, Store, Expire
<1>3. ASSUME NEW j \in Task, Recover(j) \/ EnqueueSweep(j)
      PROVE  UNCHANGED <<status, conv, active, replies, latest, closed>>
  BY <1>3 DEF Recover, EnqueueSweep
<1>. QED
  BY <1>1, <1>2, <1>3 DEF Next, vars, Task

\* An execution is moved by its own steps only.
LEMMA OwnStep ==
  ASSUME TypeOK, [Next]_vars, NEW v \in Worker
  PROVE  \/ UNCHANGED <<at[v], holds[v], subject[v], batch[v], anchor[v]>>
         \/ ChatStep(v) \/ RecoveryStep(v) \/ JobStep(v)
<1>. SUFFICES ASSUME NEW w \in Worker, w # v, ChatStep(w) \/ RecoveryStep(w) \/ JobStep(w)
              PROVE  UNCHANGED <<at[v], holds[v], subject[v], batch[v], anchor[v]>>
  BY DEF Next, vars, Arrive, Replay, ProviderEnds, GenerateImage, QueueFile, Store, Expire,
    EnqueueSweep, Recover, Reset, Open, Revoke
<1>. USE DEF GoTo, TypeOK, LedgerTypeOK
<1>1. ASSUME NEW c \in Conversation, Begin(w, c)
      PROVE  UNCHANGED <<at[v], holds[v], subject[v], batch[v], anchor[v]>>
  BY <1>1 DEF Begin, Deliver
<1>2. CASE Resume(w) \/ Prepare(w) \/ Submit(w) \/ RecordAdmission(w)
  BY <1>2 DEF Resume, Prepare, Submit, RecordAdmission, Deliver
<1>3. CASE Accepts(w) \/ Abort(w)
  <2>1. UNCHANGED <<holds, reconcileVars>> /\ \E place \in Place : GoTo(w, place)
    BY <1>3
      DEF Accepts, AcceptAnswer, AcceptFallback, Accept, Abort, Deliver, Place, Ends
  <2>. QED
    BY <2>1
<1>4. CASE NextRun(w) \/ Wait(w) \/ ClaimRun(w) \/ RefuseRun(w) \/ ClaimLost(w)
  BY <1>4 DEF NextRun, Wait, ClaimRun, RefuseRun, ClaimLost, Review, Decided
<1>5. CASE Apply(w)
  <2>1. UNCHANGED holds /\ \E place \in {"dead", "deliver", "defer"} : Decided(w, place)
    <3>. DEFINE t == subject[w]
    <3>1. ASSUME Review(w, t) \/ Conclude(w, t) \/ PollLater(w, t) \/ Persist(w, t) \/ FailRun(w, t)
          PROVE  \E place \in {"dead", "deliver", "defer"} : Decided(w, place)
      BY <3>1 DEF Review, Conclude, PollLater, Persist, FailRun
    <3>. QED
      BY <1>5, <3>1 DEF Apply
  <2>. QED
    BY <2>1 DEF Decided
<1>6. CASE Take(w)
  BY <1>6 DEF Take, Grant
<1>7. CASE Send(w) \/ SendEnds(w) \/ SkipSend(w)
  BY <1>7 DEF Send, SendEnds, SkipSend
<1>8. CASE End(w)
  <2>1. Forget(w) /\ Release(w)
    BY <1>8
      DEF End, Finish, Raise, Overtaken, Crash, BeginRefused, Fail, Decide, Abandon
  <2>. QED
    BY <2>1 DEF Forget, Release
<1>. QED
  BY <1>1, <1>2, <1>3, <1>4, <1>5, <1>6, <1>7, <1>8
    DEF ChatStep, RecoveryStep, JobStep, Accepts, End

\* What an application decides, of a claim that stands.
LEMMA ApplyCases ==
  ASSUME TypeOK, PlacesFit, IInv, NEW w \in Worker, Apply(w)
  PROVE  LET t == subject[w] IN
         /\ t \in Turn /\ conv[t] \in Conversation /\ status[t] = "reconciling"
         /\ \/ Review(w, t) \/ Conclude(w, t)
            \/ /\ replies[t] = 0 /\ active[conv[t]] = t /\ ~closed[conv[t]]
               /\ PollLater(w, t) \/ Persist(w, t) \/ FailRun(w, t)
<1>1. subject[w] \in Turn /\ conv[subject[w]] \in Conversation
  BY DEF Apply, TypeOK, IInv, BegunHasConversation
<1>2. status[subject[w]] = "reconciling" /\ active[conv[subject[w]]] = anchor[w]
  BY DEF Apply, OwnsRun
<1>3. CASE Answered(subject[w]) \/ ~Authorized(subject[w])
  BY <1>1, <1>2, <1>3 DEF Apply
<1>4. CASE ~Answered(subject[w]) /\ Authorized(subject[w])
  <2>1. replies[subject[w]] = 0
    BY <1>1, <1>4 DEF Answered, TypeOK
  <2>2. anchor[w] = subject[w] /\ ~closed[conv[subject[w]]]
    BY <1>4, <2>1 DEF Apply, Authorized, IInv, ClaimedWhileActive
  <2>. QED
    BY <1>1, <1>2, <1>4, <2>1, <2>2 DEF Apply
<1>. QED
  BY <1>3, <1>4

\* The operators that end and decide runs keep the types of what they change.
LEMMA RunTypes ==
  ASSUME TypeOK, NEW t \in Turn
  PROVE  /\ \A s \in Status, due \in BOOLEAN : SetStatus(t, s, due) =>
              /\ status' \in [Turn -> Status] /\ expired' \in [Turn -> BOOLEAN]
              /\ claimant' \in [Turn -> Worker \cup {None}]
         /\ Unpin(t) => active' \in [Conversation -> Turn \cup {None}]
         /\ FailMedia(t) => media' \in [Turn -> {"none", "pending", "delivered", "failed"}]
<1>1. ASSUME NEW s \in Status, NEW due \in BOOLEAN, SetStatus(t, s, due)
      PROVE  /\ status' \in [Turn -> Status] /\ expired' \in [Turn -> BOOLEAN]
             /\ claimant' \in [Turn -> Worker \cup {None}]
  BY <1>1 DEF SetStatus, TypeOK
<1>2. ASSUME Unpin(t) PROVE active' \in [Conversation -> Turn \cup {None}]
  BY <1>2 DEF Unpin, TypeOK
<1>3. ASSUME FailMedia(t) PROVE media' \in [Turn -> {"none", "pending", "delivered", "failed"}]
  BY <1>3 DEF FailMedia, TypeOK
<1>. QED
  BY <1>1, <1>2, <1>3

\* An execution that goes to a place of its own keeps what it is in.
LEMMA PlaceTypes ==
  ASSUME TypeOK, NEW w \in Worker, NEW place \in Place, GoTo(w, place),
         UNCHANGED <<holds, subject, batch, anchor>>,
         place \in {"reconcile", "polling"} <=> subject[w] # None,
         place \in {"receive", "deliver", "sending"} \cup Chatting => holds[w] \in Turn
  PROVE  PlacesTypeOK'
BY DEF GoTo, PlacesTypeOK, TypeOK, LedgerTypeOK

\* So does one whose reconciliation is decided.
LEMMA DecidedTypes ==
  ASSUME TypeOK, PlacesFit, NEW w \in Worker, at[w] \in {"reconcile", "polling"},
         NEW place \in {"defer", "dead", "deliver"}, Decided(w, place), UNCHANGED holds
  PROVE  PlacesTypeOK'
<1>1. holds[w] \in Task
  BY DEF PlacesFit, TypeOK, LedgerTypeOK
<1>2. ASSUME NEW p \in {"sweep", "defer", "dead", "deliver"}, at' = [at EXCEPT ![w] = p],
             p = "deliver" => holds[w] \in Turn
      PROVE  PlacesTypeOK'
  BY <1>2 DEF Decided, PlacesTypeOK, TypeOK, LedgerTypeOK, Place, Chatting, Ends
<1>3. CASE holds[w] \in Sweep
  BY <1>2, <1>3 DEF Decided, GoTo
<1>4. CASE holds[w] \notin Sweep
  BY <1>1, <1>2, <1>4 DEF Decided, GoTo, Task
<1>. QED
  BY <1>3, <1>4

\* An execution that is over lets go of its job and of all it knew.
LEMMA EndTypes ==
  ASSUME TypeOK, NEW w \in Worker, End(w)
  PROVE  LedgerTypeOK' /\ PlacesTypeOK'
<1>1. Forget(w) /\ Release(w)
  BY DEF End, Finish, Raise, Overtaken, Crash, BeginRefused, Fail, Decide, Abandon
<1>2. UNCHANGED phase \/ \E end \in Ending : phase' = [phase EXCEPT ![holds[w]] = end]
  BY DEF End, Finish, Raise, Overtaken, Crash, BeginRefused, Fail, Decide, Abandon, Endings,
    Ends, EndingsOfFailed, Ending
<1>3. LedgerTypeOK'
  <2>1. phase' \in [Task -> {"absent", "held"} \cup Ending]
    BY <1>2 DEF TypeOK, LedgerTypeOK
  <2>. QED
    BY <1>1, <2>1 DEF Release, TypeOK, LedgerTypeOK
<1>4. PlacesTypeOK'
  BY <1>1 DEF Forget, GoTo, Release, PlacesTypeOK, TypeOK, LedgerTypeOK, Place, Chatting
<1>. QED
  BY <1>3, <1>4

\* Every step keeps every variable in its type.
LEMMA TypeStep == ASSUME TypeOK, IInv, [Next]_vars PROVE TypeOK'
<1>. USE DEF GoTo
<1>1. ASSUME NEW t \in Turn, Arrive(t) \/ Replay(t) PROVE TypeOK'
  <2>1. CASE Arrive(t)
    BY <2>1 DEF Arrive, Open, Task, Ending, TypeOK, LedgerTypeOK
  <2>2. CASE Replay(t)
    BY <2>2 DEF Replay, Open, Task, Ending, TypeOK, LedgerTypeOK
  <2>. QED
    BY <1>1, <2>1, <2>2
<1>2. ASSUME NEW t \in Turn, ProviderEnds(t) \/ GenerateImage(t) \/ QueueFile(t) \/ Expire(t)
      PROVE  TypeOK'
  <2>1. CASE ProviderEnds(t)
    BY <2>1 DEF ProviderEnds, TypeOK, LedgerTypeOK
  <2>2. CASE Store(t)
    BY <2>2 DEF Store, TypeOK, LedgerTypeOK
  <2>3. CASE Expire(t)
    BY <2>3 DEF Expire, TypeOK, LedgerTypeOK
  <2>. QED
    BY <1>2, <2>1, <2>2, <2>3 DEF GenerateImage, QueueFile
<1>3. ASSUME NEW j \in Task, Recover(j) PROVE TypeOK'
  BY <1>3 DEF Recover, Revoke, Ending, TypeOK, LedgerTypeOK
<1>4. ASSUME NEW s \in Sweep, EnqueueSweep(s) PROVE TypeOK'
  BY <1>4 DEF EnqueueSweep, Task, Ending, TypeOK, LedgerTypeOK
<1>5. ASSUME NEW c \in Conversation, Reset(c) PROVE TypeOK'
  <2>1. CASE active[c] = None
    BY <1>5, <2>1 DEF Reset, TypeOK, LedgerTypeOK
  <2>2. CASE active[c] # None
    <3>1. active[c] \in Turn /\ FinishRun(active[c], "failed") /\ "failed" \in Status
      BY <1>5, <2>2 DEF Reset, TypeOK, Status, Retired
    <3>. QED
      BY <1>5, <3>1, RunTypes DEF Reset, FinishRun, TypeOK, LedgerTypeOK
  <2>. QED
    BY <2>1, <2>2
<1>6. ASSUME NEW w \in Worker, NEW c \in Conversation, Begin(w, c) PROVE TypeOK'
  <2>. DEFINE t == holds[w]
  <2>1. t \in Turn /\ replies[t] = 0 /\ subject[w] = None
    BY <1>6 DEF Begin, TypeOK, IInv, BegunHasConversation
  <2>2. /\ status' \in [Turn -> Status] /\ expired' \in [Turn -> BOOLEAN]
        /\ claimant' \in [Turn -> Worker \cup {None}]
    BY <1>6, <2>1, RunTypes DEF Begin, Status, Unsettled, Retired
  <2>3. PlacesTypeOK'
    <3>1. \E p \in {"prepare", "done", "deliver"} : GoTo(w, p)
      BY <1>6 DEF Begin, Deliver
    <3>. QED
      BY <1>6, <2>1, <3>1, PlaceTypes DEF Begin, Place, Chatting, Ends
  <2>4. active' \in [Conversation -> Turn \cup {None}] /\ replies' \in [Turn -> {0, 1, 2}]
    <3>1. CASE active' = [active EXCEPT ![c] = t] /\ UNCHANGED replies
      BY <2>1, <3>1 DEF TypeOK
    <3>2. CASE replies' = [replies EXCEPT ![t] = @ + 1] /\ UNCHANGED active
      BY <2>1, <3>2 DEF TypeOK
    <3>. QED
      BY <1>6, <3>1, <3>2 DEF Begin
  <2>. QED
    BY <1>6, <2>1, <2>2, <2>3, <2>4 DEF Begin, TypeOK, PlacesTypeOK, LedgerTypeOK
<1>7. ASSUME NEW w \in Worker, Resume(w) PROVE TypeOK'
  <2>1. holds[w] \in Turn /\ subject[w] = None
    BY <1>7 DEF Resume, TypeOK
  <2>2. PlacesTypeOK'
    <3>1. CASE replies[holds[w]] > 0
      <4>1. PICK p \in {"done", "deliver"} : GoTo(w, p)
        BY <1>7, <3>1 DEF Resume, Deliver
      <4>2. UNCHANGED <<holds, subject, batch, anchor>>
        BY <1>7, <3>1 DEF Resume
      <4>. QED
        BY <2>1, <4>1, <4>2, PlaceTypes DEF Place, Chatting, Ends
    <3>2. CASE ~(replies[holds[w]] > 0)
      <4>1. /\ GoTo(w, "reconcile") /\ subject' = [subject EXCEPT ![w] = holds[w]]
            /\ UNCHANGED <<holds, batch, anchor>>
        BY <1>7, <3>2 DEF Resume
      <4>. QED
        BY <2>1, <4>1 DEF PlacesTypeOK, TypeOK, LedgerTypeOK, Place, Chatting, Task
    <3>. QED
      BY <3>1, <3>2
  <2>. QED
    BY <1>7, <2>2 DEF Resume, TypeOK, PlacesTypeOK, LedgerTypeOK
<1>8. ASSUME NEW w \in Worker, Prepare(w) \/ Submit(w) \/ RecordAdmission(w) PROVE TypeOK'
  <2>1. holds[w] \in Turn /\ subject[w] = None
    BY <1>8 DEF Prepare, Submit, RecordAdmission, TypeOK, Chatting
  <2>2. PlacesTypeOK'
    BY <1>8, <2>1, PlaceTypes DEF Prepare, Submit, RecordAdmission, Place, Chatting
  <2>3. /\ frozen' \in [Turn -> {"none", "kept", "dropped"}] /\ admitted' \in [Turn -> BOOLEAN]
        /\ provider' \in [Turn -> {"none", "running", "completed", "failed"}]
    <3>1. CASE Prepare(w)
      BY <2>1, <3>1 DEF Prepare, TypeOK
    <3>2. CASE Submit(w)
      BY <2>1, <3>2 DEF Submit, TypeOK
    <3>3. CASE RecordAdmission(w)
      BY <2>1, <3>3 DEF RecordAdmission, TypeOK
    <3>. QED
      BY <1>8, <3>1, <3>2, <3>3
  <2>. QED
    BY <1>8, <2>2, <2>3 DEF Prepare, Submit, RecordAdmission, TypeOK, PlacesTypeOK, LedgerTypeOK
<1>9. ASSUME NEW w \in Worker, Accepts(w) PROVE TypeOK'
  <2>. DEFINE t == holds[w]
  <2>1. PICK s \in {"completed", "failed"} : Accept(w, s) /\ at[w] \in Chatting
    BY <1>9 DEF Accepts, AcceptAnswer, AcceptFallback, Chatting
  <2>2. t \in Turn /\ subject[w] = None /\ s \in Status
    BY <2>1 DEF TypeOK, Chatting, Status, Retired
  <2>3. /\ status' \in [Turn -> Status] /\ expired' \in [Turn -> BOOLEAN]
        /\ claimant' \in [Turn -> Worker \cup {None}]
        /\ active' \in [Conversation -> Turn \cup {None}]
        /\ media' \in [Turn -> {"none", "pending", "delivered", "failed"}]
    BY <2>1, <2>2, RunTypes DEF Accept, FinishRun, TypeOK
  <2>4. PlacesTypeOK'
    <3>1. \E p \in {"done", "deliver"} : GoTo(w, p)
      BY <2>1 DEF Accept, Deliver
    <3>. QED
      BY <2>1, <2>2, <3>1, PlaceTypes DEF Accept, Place, Chatting, Ends
  <2>5. replies' \in [Turn -> {0, 1, 2}] /\ apology' \in [Turn -> BOOLEAN]
    BY <2>1, <2>2 DEF Accept, TypeOK
  <2>. QED
    BY <2>1, <2>3, <2>4, <2>5 DEF Accept, TypeOK, PlacesTypeOK, LedgerTypeOK
<1>10. ASSUME NEW w \in Worker, Abort(w) PROVE TypeOK'
  <2>. DEFINE t == holds[w]
  <2>1. t \in Turn /\ subject[w] = None /\ {"failed", "expired"} \subseteq Status
    BY <1>10 DEF Abort, TypeOK, Chatting, Status, Retired, Unsettled
  <2>2. /\ status' \in [Turn -> Status] /\ expired' \in [Turn -> BOOLEAN]
        /\ claimant' \in [Turn -> Worker \cup {None}]
        /\ active' \in [Conversation -> Turn \cup {None}]
        /\ media' \in [Turn -> {"none", "pending", "delivered", "failed"}]
    <3>1. CASE UNCHANGED <<status, expired, claimant, active, media>>
      BY <3>1 DEF TypeOK
    <3>2. CASE FinishRun(t, "failed")
      BY <2>1, <3>2, RunTypes DEF FinishRun
    <3>3. CASE SetStatus(t, "expired", TRUE) /\ UNCHANGED <<active, media>>
      BY <2>1, <3>3, RunTypes DEF TypeOK
    <3>. QED
      BY <1>10, <3>1, <3>2, <3>3 DEF Abort
  <2>3. PlacesTypeOK'
    BY <1>10, <2>1, PlaceTypes DEF Abort, Place, Chatting, Ends
  <2>. QED
    BY <1>10, <2>2, <2>3 DEF Abort, TypeOK, PlacesTypeOK, LedgerTypeOK
<1>11. ASSUME NEW w \in Worker, NextRun(w) PROVE TypeOK'
  <2>1. PICK t \in batch[w] : /\ subject' = [subject EXCEPT ![w] = t]
                               /\ batch' = [batch EXCEPT ![w] = @ \ {t}]
    BY <1>11 DEF NextRun
  <2>2. t \in Turn /\ holds[w] \in Sweep
    BY <2>1 DEF TypeOK
  <2>3. at' = [at EXCEPT ![w] = "reconcile"] /\ UNCHANGED <<holds, anchor>>
    BY <1>11 DEF NextRun
  <2>4. at' \in [Worker -> Place] /\ subject' \in [Worker -> Turn \cup {None}]
    BY <2>1, <2>2, <2>3 DEF TypeOK, Place
  <2>5. batch' \in [Worker -> SUBSET Turn]
    BY <2>1 DEF TypeOK
  <2>6. ASSUME NEW v \in Worker
        PROVE  /\ at'[v] \in {"receive", "deliver", "sending"} \cup Chatting => holds'[v] \in Turn
               /\ at'[v] \in {"reconcile", "polling"} <=> subject'[v] # None
               /\ batch'[v] # {} => holds'[v] \in Sweep
    BY <2>1, <2>2, <2>3 DEF TypeOK, Chatting, Task
  <2>7. PlacesTypeOK'
    BY <2>3, <2>4, <2>5, <2>6 DEF PlacesTypeOK, TypeOK
  <2>. QED
    BY <1>11, <2>7 DEF NextRun, TypeOK, PlacesTypeOK, LedgerTypeOK
<1>12. ASSUME NEW w \in Worker, Wait(w) \/ ClaimLost(w) PROVE TypeOK'
  <2>1. PlacesTypeOK'
    BY <1>12, DecidedTypes DEF Wait, ClaimLost, IInv
  <2>. QED
    BY <1>12, <2>1 DEF Wait, ClaimLost, TypeOK, PlacesTypeOK, LedgerTypeOK
<1>13. ASSUME NEW w \in Worker, ClaimRun(w) PROVE TypeOK'
  <2>1. subject[w] \in Turn /\ conv[subject[w]] \in Conversation
    BY <1>13 DEF ClaimRun, TypeOK, IInv, BegunHasConversation
  <2>2. PlacesTypeOK'
    BY <1>13, <2>1 DEF ClaimRun, PlacesTypeOK, TypeOK, LedgerTypeOK, Place, Chatting
  <2>. QED
    BY <1>13, <2>1, <2>2 DEF ClaimRun, TypeOK, PlacesTypeOK, LedgerTypeOK, Status, Unsettled
<1>14. ASSUME NEW w \in Worker, RefuseRun(w) \/ Apply(w) PROVE TypeOK'
  <2>. DEFINE t == subject[w]
  <2>1. /\ t \in Turn
        /\ Status = {"absent", "running", "expired", "reconciling", "completed", "failed",
                     "unknown"}
    BY <1>14 DEF RefuseRun, Apply, TypeOK, Status, Unsettled, Retired
  <2>2. \/ Review(w, t) \/ Conclude(w, t) \/ PollLater(w, t) \/ FailRun(w, t)
        \/ replies[t] = 0 /\ Persist(w, t)
    BY <1>14, ApplyCases DEF RefuseRun, IInv
  <2>3. /\ status' \in [Turn -> Status] /\ expired' \in [Turn -> BOOLEAN]
        /\ claimant' \in [Turn -> Worker \cup {None}]
        /\ active' \in [Conversation -> Turn \cup {None}]
        /\ media' \in [Turn -> {"none", "pending", "delivered", "failed"}]
    <3>1. \E s \in Status : SetStatus(t, s, FALSE)
      BY <2>1, <2>2 DEF Review, Conclude, PollLater, FailRun, Persist, Retire
    <3>2. Unpin(t) \/ UNCHANGED active
      BY <2>2 DEF Review, Conclude, PollLater, FailRun, Persist, Retire
    <3>3. FailMedia(t) \/ UNCHANGED media
      BY <2>2 DEF Review, Conclude, PollLater, FailRun, Persist
    <3>4. t \in Turn /\ FALSE \in BOOLEAN
      BY <2>1
    <3>. HIDE DEF t
    <3>5. /\ status' \in [Turn -> Status] /\ expired' \in [Turn -> BOOLEAN]
          /\ claimant' \in [Turn -> Worker \cup {None}]
      BY <3>1, <3>4, RunTypes
    <3>6. active' \in [Conversation -> Turn \cup {None}]
      <4>1. CASE Unpin(t)
        BY <3>4, <4>1, RunTypes
      <4>2. CASE UNCHANGED active
        BY <4>2 DEF TypeOK
      <4>. QED
        BY <3>2, <4>1, <4>2
    <3>7. media' \in [Turn -> {"none", "pending", "delivered", "failed"}]
      <4>1. CASE FailMedia(t)
        BY <3>4, <4>1, RunTypes
      <4>2. CASE UNCHANGED media
        BY <4>2 DEF TypeOK
      <4>. QED
        BY <3>3, <4>1, <4>2
    <3>. QED
      BY <3>5, <3>6, <3>7
  <2>4. PlacesTypeOK'
    BY <1>14, <2>2, DecidedTypes
      DEF RefuseRun, Apply, Review, Conclude, PollLater, FailRun, Persist, IInv
  <2>5. replies' \in [Turn -> {0, 1, 2}]
    <3>1. CASE UNCHANGED replies
      BY <3>1 DEF TypeOK
    <3>2. CASE replies[t] = 0 /\ replies' = [replies EXCEPT ![t] = @ + 1]
      BY <2>1, <3>2 DEF TypeOK
    <3>. QED
      BY <2>2, <3>1, <3>2 DEF Review, Conclude, PollLater, FailRun, Persist
  <2>. QED
    BY <1>14, <2>3, <2>4, <2>5 DEF RefuseRun, Apply, TypeOK, PlacesTypeOK, LedgerTypeOK
<1>15. ASSUME NEW w \in Worker, Take(w) PROVE TypeOK'
  <2>1. PICK j \in Task : /\ Grant(w, j)
                          /\ GoTo(w, IF j \in Sweep THEN "sweep" ELSE "receive")
                          /\ batch' = [batch EXCEPT ![w] = IF j \in Sweep THEN Due ELSE {}]
    BY <1>15 DEF Take
  <2>2. LedgerTypeOK' /\ holds'[w] = j
    BY <2>1 DEF Grant, TypeOK, LedgerTypeOK
  <2>3. at[w] = "idle" /\ subject[w] = None
    BY <2>1 DEF Grant, IInv, PlacesFit, TypeOK
  <2>4. PlacesTypeOK'
    BY <1>15, <2>1, <2>2, <2>3
      DEF Take, Grant, PlacesTypeOK, TypeOK, LedgerTypeOK, Place, Chatting, Due, Task
  <2>. QED
    BY <1>15, <2>2, <2>4 DEF Take, TypeOK, PlacesTypeOK
<1>16. ASSUME NEW w \in Worker, Send(w) \/ SendEnds(w) \/ SkipSend(w) PROVE TypeOK'
  <2>1. holds[w] \in Turn /\ subject[w] = None
    BY <1>16 DEF Send, SendEnds, SkipSend, TypeOK
  <2>2. PlacesTypeOK'
    <3>1. \E p \in {"sending", "done", "defer", "dead"} : GoTo(w, p)
      BY <1>16 DEF Send, SendEnds, SkipSend
    <3>. QED
      BY <1>16, <2>1, <3>1, PlaceTypes DEF Send, SendEnds, SkipSend, Place, Chatting, Ends
  <2>3. /\ delivery' \in [Turn -> {"pending", "sending", "sent"}]
        /\ media' \in [Turn -> {"none", "pending", "delivered", "failed"}]
    <3>1. CASE Send(w)
      BY <3>1 DEF Send, TypeOK
    <3>2. CASE SendEnds(w)
      <4>1. \/ UNCHANGED delivery
            \/ \E d \in {"sent", "pending"} : delivery' = [delivery EXCEPT ![holds[w]] = d]
        BY <3>2 DEF SendEnds
      <4>2. \/ UNCHANGED media
            \/ media' = [media EXCEPT ![holds[w]] = IF @ = "pending" THEN "delivered" ELSE @]
        BY <3>2 DEF SendEnds
      <4>3. delivery' \in [Turn -> {"pending", "sending", "sent"}]
        BY <4>1 DEF TypeOK
      <4>4. media' \in [Turn -> {"none", "pending", "delivered", "failed"}]
        BY <4>2 DEF TypeOK
      <4>. QED
        BY <4>3, <4>4
    <3>3. CASE SkipSend(w)
      BY <3>3 DEF SkipSend, TypeOK
    <3>. QED
      BY <1>16, <3>1, <3>2, <3>3
  <2>. QED
    BY <1>16, <2>2, <2>3 DEF Send, SendEnds, SkipSend, TypeOK, PlacesTypeOK, LedgerTypeOK
<1>17. ASSUME NEW w \in Worker, End(w) PROVE TypeOK'
  BY <1>17, EndTypes
    DEF End, Finish, Raise, Overtaken, Crash, BeginRefused, TypeOK, PlacesTypeOK
<1>18. CASE UNCHANGED vars
  BY <1>18 DEF vars, TypeOK, LedgerTypeOK
<1>. QED
  BY <1>1, <1>2, <1>3, <1>4, <1>5, <1>6, <1>7, <1>8, <1>9, <1>10, <1>11, <1>12, <1>13, <1>14,
     <1>15, <1>16, <1>17, <1>18 DEF Next, ChatStep, RecoveryStep, JobStep, Accepts, End

-----------------------------------------------------------------------------
(* The same steps by what they do to runs, pointers and answers *)

\* A turn begins, with a run that pins its conversation or with a fixed response.
Begins(t, c) ==
  /\ conv[t] = None /\ active[c] = None
  /\ conv' = [conv EXCEPT ![t] = c] /\ latest' = [latest EXCEPT ![c] = t] /\ UNCHANGED closed
  /\ \/ /\ status' = [status EXCEPT ![t] = "running"]
        /\ active' = [active EXCEPT ![c] = t] /\ UNCHANGED replies
     \/ /\ status' = [status EXCEPT ![t] = "completed"]
        /\ replies' = [replies EXCEPT ![t] = @ + 1] /\ UNCHANGED active /\ ~closed[c]

\* A run is over without an answer, or after one.
RunEnds(t) ==
  /\ \E s \in Retired : status' = [status EXCEPT ![t] = s]
  /\ Unpin(t) /\ UNCHANGED <<conv, latest, replies>>

\* A run is over with its answer.
RunAnswers(t) ==
  /\ \E s \in Retired : status' = [status EXCEPT ![t] = s]
  /\ Unpin(t) /\ UNCHANGED <<conv, latest, closed>>
  /\ replies[t] = 0 /\ replies' = [replies EXCEPT ![t] = 1]
  /\ active[conv[t]] = t /\ ~closed[conv[t]]

\* A run that pins its conversation is left to a reconciliation.
RunWaits(t) ==
  /\ replies[t] = 0 /\ active[conv[t]] = t
  /\ status' = [status EXCEPT ![t] = "expired"]
  /\ UNCHANGED <<conv, active, replies, latest, closed>>

RunIsClaimed(t) ==
  /\ status' = [status EXCEPT ![t] = "reconciling"]
  /\ UNCHANGED <<conv, active, replies, latest, closed>>

\* Every step does one of these to one turn, or closes a conversation at most.
LEMMA RunSteps ==
  ASSUME TypeOK, IInv, [Next]_vars
  PROVE  \/ UNCHANGED <<status, conv, active, replies, latest>>
         \/ \E t \in Turn, c \in Conversation : Begins(t, c)
         \/ \E t \in Turn :
              /\ conv[t] \in Conversation
              /\ RunEnds(t) \/ RunAnswers(t) \/ RunWaits(t) \/ RunIsClaimed(t)
<1>1. ASSUME NEW w \in Worker, NEW c \in Conversation, Begin(w, c)
      PROVE  holds[w] \in Turn /\ Begins(holds[w], c)
  <2>1. holds[w] \in Turn
    BY <1>1 DEF Begin, TypeOK
  <2>2. /\ conv[holds[w]] = None /\ active[c] = None
        /\ conv' = [conv EXCEPT ![holds[w]] = c] /\ latest' = [latest EXCEPT ![c] = holds[w]]
        /\ UNCHANGED closed
    BY <1>1 DEF Begin, Unpinned
  <2>3. \/ /\ SetStatus(holds[w], "running", FALSE)
           /\ active' = [active EXCEPT ![c] = holds[w]] /\ UNCHANGED replies
        \/ /\ SetStatus(holds[w], "completed", FALSE)
           /\ replies' = [replies EXCEPT ![holds[w]] = @ + 1] /\ UNCHANGED active /\ ~closed[c]
    BY <1>1 DEF Begin
  <2>. QED
    BY <2>1, <2>2, <2>3 DEF Begins, SetStatus
<1>2. ASSUME NEW w \in Worker, Accepts(w)
      PROVE  holds[w] \in Turn /\ conv[holds[w]] \in Conversation /\ RunAnswers(holds[w])
  <2>1. PICK s \in {"completed", "failed"} : Accept(w, s) /\ at[w] \in Chatting
    BY <1>2 DEF Accepts, AcceptAnswer, AcceptFallback, Chatting
  <2>2. holds[w] \in Turn /\ s \in Retired
    BY <2>1 DEF TypeOK, Chatting, Retired
  <2>3. IsActive(holds[w]) /\ conv[holds[w]] \in Conversation
    BY <2>1, <2>2 DEF Accept, IsActive, TypeOK
  <2>. QED
    <3>1. replies[holds[w]] = 0 /\ replies' = [replies EXCEPT ![holds[w]] = 1]
      BY <2>1, <2>2 DEF Accept, TypeOK
    <3>2. active[conv[holds[w]]] = holds[w] /\ ~closed[conv[holds[w]]]
      BY <2>3 DEF IsActive
    <3>3. /\ status' = [status EXCEPT ![holds[w]] = s] /\ Unpin(holds[w])
          /\ UNCHANGED <<conv, latest, closed>>
      BY <2>1 DEF Accept, FinishRun, SetStatus
    <3>. QED
      BY <2>2, <2>3, <3>1, <3>2, <3>3 DEF RunAnswers
<1>3. ASSUME NEW w \in Worker, Abort(w)
      PROVE  \/ UNCHANGED <<status, conv, active, replies, latest>>
             \/ /\ holds[w] \in Turn /\ conv[holds[w]] \in Conversation
                /\ RunEnds(holds[w]) \/ RunWaits(holds[w])
  <2>. DEFINE t == holds[w]
  <2>1. t \in Turn
    BY <1>3 DEF Abort, TypeOK, Chatting
  <2>2. UNCHANGED <<conv, replies, latest, closed>>
    BY <1>3 DEF Abort
  <2>3. CASE status[t] # "running" \/ active[conv[t]] # t
    BY <1>3, <2>2, <2>3 DEF Abort
  <2>4. CASE status[t] = "running" /\ active[conv[t]] = t
    <3>1. conv[t] \in Conversation /\ replies[t] = 0
      BY <2>1, <2>4 DEF IInv, BegunHasConversation, AnsweredOnce, TypeOK
    <3>2. FinishRun(t, "failed") \/ (SetStatus(t, "expired", TRUE) /\ UNCHANGED active)
      BY <1>3, <2>4 DEF Abort
    <3>. QED
      BY <2>1, <2>2, <2>4, <3>1, <3>2 DEF FinishRun, SetStatus, RunEnds, RunWaits, Retired
  <2>. QED
    BY <2>3, <2>4
<1>4. ASSUME NEW w \in Worker, Settles(w)
      PROVE  /\ subject[w] \in Turn /\ conv[subject[w]] \in Conversation
             /\ \/ RunEnds(subject[w]) \/ RunAnswers(subject[w])
                \/ RunWaits(subject[w]) \/ RunIsClaimed(subject[w])
  <2>. DEFINE t == subject[w]
  <2>1. t \in Turn /\ conv[t] \in Conversation
    BY <1>4 DEF Settles, ClaimRun, RefuseRun, Apply, TypeOK, IInv, BegunHasConversation
  <2>2. CASE ClaimRun(w)
    BY <2>1, <2>2 DEF ClaimRun, RunIsClaimed
  <2>3. CASE RefuseRun(w)
    BY <2>1, <2>3 DEF RefuseRun, Review, Retire, SetStatus, RunEnds, Retired
  <2>4. CASE Apply(w)
    <3>1. UNCHANGED <<conv, closed, latest>>
      BY <2>4 DEF Apply
    <3>2. CASE Review(w, t) \/ Conclude(w, t) \/ FailRun(w, t)
      BY <2>1, <3>1, <3>2 DEF Review, Conclude, FailRun, Retire, SetStatus, RunEnds, Retired
    <3>3. CASE /\ replies[t] = 0 /\ active[conv[t]] = t /\ ~closed[conv[t]]
               /\ PollLater(w, t) \/ Persist(w, t)
      BY <2>1, <3>1, <3>3
        DEF PollLater, Persist, Retire, SetStatus, RunWaits, RunAnswers, Retired, TypeOK
    <3>. QED
      BY <2>1, <2>4, <3>2, <3>3, ApplyCases DEF IInv
  <2>. QED
    BY <1>4, <2>2, <2>3, <2>4, <2>1 DEF Settles
<1>5. ASSUME NEW c \in Conversation, Reset(c)
      PROVE  \/ UNCHANGED <<status, conv, active, replies, latest>>
             \/ \E t \in Turn : conv[t] \in Conversation /\ RunEnds(t)
  <2>1. CASE active[c] = None
    BY <1>5, <2>1 DEF Reset
  <2>2. CASE active[c] # None
    <3>1. active[c] \in Turn /\ conv[active[c]] = c /\ FinishRun(active[c], "failed")
      BY <1>5, <2>2 DEF Reset, TypeOK, IInv, PinnedByOpenRun
    <3>. QED
      BY <1>5, <3>1 DEF Reset, FinishRun, SetStatus, RunEnds, Retired
  <2>. QED
    BY <2>1, <2>2
<1>. QED
  BY <1>1, <1>2, <1>3, <1>4, <1>5, FewChange

-----------------------------------------------------------------------------
(* The inductive invariant *)

\* What a step makes of an execution: nothing, the first or the last of its job, the
\* claim of a run, or another place with a subject that has a conversation.
LEMMA ExecutionStep ==
  ASSUME TypeOK, IInv, [Next]_vars, NEW w \in Worker
  PROVE  \/ UNCHANGED <<at[w], holds[w], subject[w], batch[w], anchor[w]>>
         \/ /\ at[w] = "idle" /\ at'[w] \notin {"idle", "polling"} /\ holds'[w] # None
            /\ UNCHANGED subject[w] /\ batch'[w] \subseteq Due
         \/ at'[w] = "idle" /\ holds'[w] = None /\ subject'[w] = None /\ batch'[w] = {}
         \/ /\ ClaimRun(w) /\ at[w] # "idle" /\ at'[w] = "polling"
            /\ UNCHANGED <<holds[w], subject[w], batch[w]>>
         \/ /\ at[w] # "idle" /\ at'[w] \notin {"idle", "polling"} /\ UNCHANGED holds[w]
            /\ batch'[w] \subseteq batch[w]
            /\ \/ subject'[w] \in {None, subject[w]} \cup batch[w]
               \/ subject'[w] = holds[w] /\ conv[holds[w]] # None
<1>. SUFFICES ASSUME ChatStep(w) \/ RecoveryStep(w) \/ JobStep(w)
              PROVE  \/ /\ at[w] = "idle" /\ at'[w] \notin {"idle", "polling"}
                        /\ holds'[w] # None
                        /\ UNCHANGED subject[w] /\ batch'[w] \subseteq Due
                     \/ /\ at'[w] = "idle" /\ holds'[w] = None
                        /\ subject'[w] = None /\ batch'[w] = {}
                     \/ /\ ClaimRun(w) /\ at[w] # "idle" /\ at'[w] = "polling"
                        /\ UNCHANGED <<holds[w], subject[w], batch[w]>>
                     \/ /\ at[w] # "idle" /\ at'[w] \notin {"idle", "polling"}
                        /\ UNCHANGED holds[w] /\ batch'[w] \subseteq batch[w]
                        /\ \/ subject'[w] \in {None, subject[w]} \cup batch[w]
                           \/ subject'[w] = holds[w] /\ conv[holds[w]] # None
  BY OwnStep
<1>. USE DEF GoTo, TypeOK, LedgerTypeOK
<1>1. CASE Take(w)
  <2>1. PICK j \in Task : /\ Grant(w, j)
                          /\ GoTo(w, IF j \in Sweep THEN "sweep" ELSE "receive")
                          /\ batch' = [batch EXCEPT ![w] = IF j \in Sweep THEN Due ELSE {}]
    BY <1>1 DEF Take
  <2>. QED
    BY <1>1, <2>1 DEF Take, Grant, IInv, PlacesFit
<1>2. CASE End(w)
  <2>1. Forget(w) /\ Release(w)
    BY <1>2
      DEF End, Finish, Raise, Overtaken, Crash, BeginRefused, Fail, Decide, Abandon
  <2>. QED
    BY <2>1 DEF Forget, Release
<1>3. CASE ClaimRun(w)
  BY <1>3 DEF ClaimRun
<1>4. ASSUME NEW c \in Conversation, Begin(w, c)
      PROVE  /\ at[w] # "idle" /\ at'[w] \notin {"idle", "polling"}
             /\ UNCHANGED <<holds, subject, batch>>
  BY <1>4 DEF Begin, Deliver
<1>5. CASE Resume(w)
  BY <1>5 DEF Resume, Deliver
<1>6. CASE Prepare(w) \/ Submit(w) \/ RecordAdmission(w) \/ Send(w) \/ SendEnds(w) \/ SkipSend(w)
  <2>1. /\ at[w] # "idle" /\ at'[w] \notin {"idle", "polling"}
        /\ UNCHANGED <<holds, subject, batch>>
    BY <1>6 DEF Prepare, Submit, RecordAdmission, Send, SendEnds, SkipSend
  <2>. QED
    BY <2>1
<1>7. CASE Accepts(w) \/ Abort(w)
  <2>1. at[w] # "idle" /\ UNCHANGED <<holds, subject, batch>>
    BY <1>7 DEF Accepts, AcceptAnswer, AcceptFallback, Accept, Abort, Chatting
  <2>2. PICK place \in {"done", "deliver", "raised"} : GoTo(w, place)
    BY <1>7 DEF Accepts, AcceptAnswer, AcceptFallback, Accept, Abort, Deliver
  <2>. QED
    BY <2>1, <2>2
<1>8. CASE NextRun(w)
  BY <1>8 DEF NextRun
<1>9. CASE Wait(w) \/ RefuseRun(w) \/ ClaimLost(w) \/ Apply(w)
  <2>1. PICK place \in {"defer", "dead", "deliver"} : Decided(w, place)
    BY <1>9 DEF Wait, RefuseRun, ClaimLost, Apply, Review, Conclude, PollLater, Persist, FailRun
  <2>2. at[w] \in {"reconcile", "polling"} /\ UNCHANGED holds
    BY <1>9 DEF Wait, RefuseRun, ClaimLost, Apply
  <2>. QED
    BY <2>1, <2>2 DEF Decided
<1>. QED
  BY <1>1, <1>2, <1>3, <1>4, <1>5, <1>6, <1>7, <1>8, <1>9
    DEF ChatStep, RecoveryStep, JobStep, Accepts, End

\* No step leaves an execution without its job, or a job with an execution that is over.
LEMMA PlacesStep == ASSUME TypeOK, IInv, [Next]_vars PROVE PlacesFit'
BY ExecutionStep DEF IInv, PlacesFit

\* Conversations are not taken from turns, nor answers.
LEMMA TurnsStay ==
  ASSUME TypeOK, IInv, [Next]_vars, NEW t \in Turn
  PROVE  /\ conv[t] # None => conv'[t] = conv[t]
         /\ replies[t] # 0 => replies'[t] # 0
<1>1. ASSUME NEW u \in Turn, NEW c \in Conversation, Begins(u, c)
      PROVE  (conv[t] # None => conv'[t] = conv[t]) /\ (replies[t] # 0 => replies'[t] # 0)
  BY <1>1 DEF Begins, TypeOK
<1>2. ASSUME NEW u \in Turn, RunEnds(u) \/ RunAnswers(u) \/ RunWaits(u) \/ RunIsClaimed(u)
      PROVE  conv'[t] = conv[t] /\ (replies[t] # 0 => replies'[t] # 0)
  BY <1>2 DEF RunEnds, RunAnswers, RunWaits, RunIsClaimed, TypeOK
<1>. QED
  BY <1>1, <1>2, RunSteps

\* Only a turn with a conversation gets a run or an answer, or is reconciled.
LEMMA BegunStep == ASSUME TypeOK, IInv, [Next]_vars PROVE BegunHasConversation'
<1>1. ASSUME NEW t \in Turn, conv'[t] = None PROVE status'[t] = "absent" /\ replies'[t] = 0
  <2>1. conv[t] = None /\ status[t] = "absent" /\ replies[t] = 0
    BY <1>1, TurnsStay DEF IInv, BegunHasConversation
  <2>2. ASSUME NEW u \in Turn, NEW c \in Conversation, Begins(u, c)
        PROVE  status'[t] = status[t] /\ replies'[t] = replies[t]
    <3>1. u # t
      BY <1>1, <2>2 DEF Begins, TypeOK
    <3>. QED
      BY <2>2, <3>1 DEF Begins, TypeOK
  <2>3. ASSUME NEW u \in Turn, conv[u] \in Conversation,
               RunEnds(u) \/ RunAnswers(u) \/ RunWaits(u) \/ RunIsClaimed(u)
        PROVE  status'[t] = status[t] /\ replies'[t] = replies[t]
    <3>1. u # t
      BY <2>1, <2>3
    <3>. QED
      BY <2>3, <3>1 DEF RunEnds, RunAnswers, RunWaits, RunIsClaimed, TypeOK
  <2>. QED
    BY <2>1, <2>2, <2>3, RunSteps
<1>2. ASSUME NEW w \in Worker
      PROVE  /\ subject'[w] # None => conv[subject'[w]] # None
             /\ \A t \in batch'[w] : conv[t] # None
  <2>1. \A t \in Due : conv[t] # None
    BY DEF Due, Unsettled, IInv, BegunHasConversation
  <2>2. /\ subject[w] # None => conv[subject[w]] # None
        /\ \A t \in batch[w] : conv[t] # None
    BY DEF IInv, BegunHasConversation
  <2>. QED
    BY <2>1, <2>2, ExecutionStep
<1>3. ASSUME NEW w \in Worker
      PROVE  /\ subject'[w] # None => conv'[subject'[w]] # None
             /\ \A t \in batch'[w] : conv'[t] # None
  <2>1. subject'[w] \in Turn \cup {None} /\ batch'[w] \subseteq Turn
    BY TypeStep DEF TypeOK
  <2>. QED
    BY <1>2, <2>1, TurnsStay
<1>. QED
  BY <1>1, <1>3 DEF BegunHasConversation

\* A step that unpins the run of a turn ends the run of that turn and pins no other.
LEMMA PinStep == ASSUME TypeOK, IInv, [Next]_vars PROVE PinnedByOpenRun'
<1>. USE DEF IInv, PinnedByOpenRun, BegunHasConversation, TypeOK
<1>1. CASE UNCHANGED <<status, conv, active, replies, latest>>
  BY <1>1
<1>2. ASSUME NEW t \in Turn, NEW c \in Conversation, Begins(t, c) PROVE PinnedByOpenRun'
  <2>1. \A d \in Conversation : active[d] # t
    BY <1>2 DEF Begins, Task
  <2>2. status[t] = "absent" /\ conv' = [conv EXCEPT ![t] = c]
    BY <1>2 DEF Begins
  <2>3. CASE /\ status' = [status EXCEPT ![t] = "running"]
             /\ active' = [active EXCEPT ![c] = t]
    <3>1. ASSUME NEW d \in Conversation, active'[d] # None
          PROVE  conv'[active'[d]] = d /\ status'[active'[d]] \in Unsettled
      BY <2>1, <2>2, <2>3, <3>1 DEF Unsettled
    <3>2. ASSUME NEW u \in Turn, status'[u] \in {"running", "expired"}
          PROVE  active'[conv'[u]] = u
      <4>1. CASE u = t
        BY <2>2, <2>3, <4>1
      <4>2. CASE u # t
        <5>1. active[conv[u]] = u /\ conv'[u] = conv[u]
          BY <2>2, <2>3, <3>2, <4>2
        <5>2. conv[u] # c
          BY <1>2, <5>1 DEF Begins, Task
        <5>. QED
          BY <2>3, <5>1, <5>2
      <4>. QED
        BY <4>1, <4>2
    <3>. QED
      BY <3>1, <3>2
  <2>4. CASE status' = [status EXCEPT ![t] = "completed"] /\ UNCHANGED active
    <3>1. ASSUME NEW d \in Conversation, active'[d] # None
          PROVE  conv'[active'[d]] = d /\ status'[active'[d]] \in Unsettled
      BY <2>1, <2>2, <2>4, <3>1
    <3>2. ASSUME NEW u \in Turn, status'[u] \in {"running", "expired"}
          PROVE  active'[conv'[u]] = u
      BY <2>2, <2>4, <3>2
    <3>. QED
      BY <3>1, <3>2
  <2>. QED
    BY <1>2, <2>3, <2>4 DEF Begins
<1>3. ASSUME NEW t \in Turn, conv[t] \in Conversation, RunEnds(t) \/ RunAnswers(t)
      PROVE  PinnedByOpenRun'
  <2>1. PICK s \in Retired : status' = [status EXCEPT ![t] = s]
    BY <1>3 DEF RunEnds, RunAnswers
  <2>2. Unpin(t) /\ UNCHANGED conv
    BY <1>3 DEF RunEnds, RunAnswers
  <2>3. ASSUME NEW d \in Conversation, active'[d] # None
        PROVE  conv'[active'[d]] = d /\ status'[active'[d]] \in Unsettled
    BY <2>1, <2>2, <2>3 DEF Unpin
  <2>4. ASSUME NEW u \in Turn, status'[u] \in {"running", "expired"}
        PROVE  active'[conv'[u]] = u
    <3>1. u # t /\ status[u] \in {"running", "expired"}
      BY <2>1, <2>4 DEF Retired
    <3>2. active[conv[u]] = u /\ conv[u] \in Conversation
      BY <3>1
    <3>. QED
      BY <2>2, <3>1, <3>2 DEF Unpin
  <2>. QED
    BY <2>3, <2>4
<1>4. ASSUME NEW t \in Turn, RunWaits(t) \/ RunIsClaimed(t) PROVE PinnedByOpenRun'
  BY <1>4 DEF RunWaits, RunIsClaimed, Unsettled
<1>. QED
  BY <1>1, <1>2, <1>3, <1>4, RunSteps

\* An answer is given to a turn without one, and its run is over.
LEMMA AnsweredStep == ASSUME TypeOK, IInv, [Next]_vars PROVE AnsweredOnce'
<1>. USE DEF IInv, AnsweredOnce, BegunHasConversation, TypeOK
<1>1. CASE UNCHANGED <<status, conv, active, replies, latest>>
  BY <1>1
<1>2. ASSUME NEW t \in Turn, NEW c \in Conversation, Begins(t, c) PROVE AnsweredOnce'
  <2>1. replies[t] = 0
    BY <1>2 DEF Begins
  <2>. QED
    BY <1>2, <2>1 DEF Begins
<1>3. ASSUME NEW t \in Turn, RunEnds(t) PROVE AnsweredOnce'
  BY <1>3 DEF RunEnds, Retired
<1>4. ASSUME NEW t \in Turn, RunAnswers(t) PROVE AnsweredOnce'
  BY <1>4 DEF RunAnswers, Retired
<1>5. ASSUME NEW t \in Turn, RunWaits(t) \/ RunIsClaimed(t) PROVE AnsweredOnce'
  BY <1>5 DEF RunWaits, RunIsClaimed
<1>. QED
  BY <1>1, <1>2, <1>3, <1>4, <1>5, RunSteps

\* A run without an answer is claimed while it is the active one.
LEMMA ClaimedStep == ASSUME TypeOK, IInv, [Next]_vars PROVE ClaimedWhileActive'
<1>. SUFFICES ASSUME NEW w \in Worker, at'[w] = "polling", replies'[subject'[w]] = 0
              PROVE  anchor'[w] = subject'[w]
  BY DEF ClaimedWhileActive
<1>1. subject'[w] \in Turn
  BY TypeStep DEF TypeOK
<1>2. replies[subject'[w]] = 0
  BY <1>1, TurnsStay
<1>3. CASE UNCHANGED <<at[w], holds[w], subject[w], batch[w], anchor[w]>>
  BY <1>2, <1>3 DEF IInv, ClaimedWhileActive
<1>4. CASE ClaimRun(w) /\ UNCHANGED subject[w]
  BY <1>1, <1>2, <1>4 DEF ClaimRun, Recoverable, Answered, TypeOK
<1>. QED
  BY <1>3, <1>4, ExecutionStep

\* Only the turn that begins becomes active.
LEMMA LatestStep == ASSUME TypeOK, IInv, [Next]_vars PROVE ActiveIsLatest'
<1>. USE DEF IInv, ActiveIsLatest, TypeOK
<1>1. CASE UNCHANGED <<status, conv, active, replies, latest>>
  BY <1>1
<1>2. ASSUME NEW t \in Turn, NEW c \in Conversation, Begins(t, c) PROVE ActiveIsLatest'
  BY <1>2 DEF Begins
<1>3. ASSUME NEW t \in Turn, RunEnds(t) \/ RunAnswers(t) PROVE ActiveIsLatest'
  BY <1>3 DEF RunEnds, RunAnswers, Unpin
<1>4. ASSUME NEW t \in Turn, RunWaits(t) \/ RunIsClaimed(t) PROVE ActiveIsLatest'
  BY <1>4 DEF RunWaits, RunIsClaimed
<1>. QED
  BY <1>1, <1>2, <1>3, <1>4, RunSteps

\* Nothing has begun, and no worker holds a job.
LEMMA InitOK == ASSUME Init PROVE TypeOK /\ IInv
<1>1. TypeOK
  BY DEF Init, LedgerInit, TypeOK, LedgerTypeOK, Ending, Status, Unsettled, Retired, Place,
    Chatting, Ends
<1>2. IInv
  BY DEF Init, LedgerInit, IInv, PlacesFit, BegunHasConversation, PinnedByOpenRun, AnsweredOnce,
    ClaimedWhileActive, ActiveIsLatest
<1>. QED
  BY <1>1, <1>2

\* The two are inductive together.
LEMMA Invariance == Spec => [](TypeOK /\ IInv)
<1>1. ASSUME TypeOK /\ IInv, [Next]_vars PROVE (TypeOK /\ IInv)'
  BY <1>1, TypeStep, PlacesStep, BegunStep, PinStep, AnsweredStep, ClaimedStep, LatestStep
    DEF IInv
<1>. QED
  BY <1>1, InitOK, PTL DEF Spec

-----------------------------------------------------------------------------
(* The theorems *)

\* Every variable keeps its type, and an execution the job and the subject its place needs.
THEOREM TypeCorrect == Spec => []TypeOK
BY Invariance, PTL

\* Whoever crashes, times out or is overtaken: a conversation is pinned by the open run of
\* one of its turns or by nothing, and a run that is running or waits pins its conversation.
THEOREM PinsAreOfOpenRuns == Spec => []PinnedByOpenRun
BY Invariance, PTL DEF IInv

\* The turn's own execution, retries of its job and sweeps give one answer among them.
THEOREM OneAnswer == Spec => []AnsweredOnce
BY Invariance, PTL DEF IInv

\* An answer, from the execution of the turn or recovered, is to the turn that began last
\* in its conversation, and the conversation is open.
THEOREM CurrentAnswers == Spec => AnswersAreCurrent
<1>1. ASSUME TypeOK, IInv, [Next]_vars, NEW t \in Turn, replies'[t] # replies[t]
      PROVE  latest'[conv'[t]] = t /\ ~closed[conv'[t]]
  <2>1. ASSUME NEW u \in Turn, NEW c \in Conversation, Begins(u, c)
        PROVE  latest'[conv'[t]] = t /\ ~closed[conv'[t]]
    BY <1>1, <2>1 DEF Begins, TypeOK
  <2>2. ASSUME NEW u \in Turn, conv[u] \in Conversation,
               RunEnds(u) \/ RunAnswers(u) \/ RunWaits(u) \/ RunIsClaimed(u)
        PROVE  latest'[conv'[t]] = t /\ ~closed[conv'[t]]
    <3>1. u = t /\ RunAnswers(t)
      BY <1>1, <2>2 DEF RunEnds, RunAnswers, RunWaits, RunIsClaimed, TypeOK
    <3>2. latest[conv[t]] = t
      <4>1. active[conv[t]] = t /\ conv[t] \in Conversation
        BY <2>2, <3>1 DEF RunAnswers
      <4>2. t # None
        BY DEF Task
      <4>. QED
        BY <1>1, <4>1, <4>2 DEF IInv, ActiveIsLatest
    <3>3. UNCHANGED <<conv, latest>> /\ ~closed[conv[t]]
      BY <3>1 DEF RunAnswers
    <3>. QED
      BY <3>2, <3>3
  <2>. QED
    BY <1>1, <2>1, <2>2, RunSteps
<1>2. TypeOK /\ IInv /\ [Next]_vars =>
        [\A t \in Turn :
          replies'[t] # replies[t] => latest'[conv'[t]] = t /\ ~closed[conv'[t]]]_vars
  BY <1>1
<1>. QED
  BY <1>2, Invariance, PTL DEF Spec, AnswersAreCurrent


-----------------------------------------------------------------------------
(* ScopedMemory *)

\* A command knows the revision it was written or read at, and what the row said then; a code
\* was typed by the owner where it is handled; private notes are saved of private memories.
CommandsKnow ==
  \A x \in Peer : command[x] # None =>
    /\ command[x].kind = "save" => scope = "private"
    /\ command[x].kind = "share" => [code |-> command[x].code, chat |-> x] \in typed
    /\ command[x].kind # "share" \/ command[x].at = "read" =>
         /\ command[x].revision <= row.revision
         /\ command[x].revision = row.revision => command[x].saw = row.fact

\* The newest proposal was shown in its chat.
PendingWasShown ==
  row.pending # None =>
    [code |-> row.pending.code, fact |-> row.pending.fact, chat |-> row.pending.chat] \in previews

MemoryInv ==
  /\ CommandsKnow /\ PendingWasShown
  /\ Memory!SharedIsReviewed /\ Memory!NothingUnseenIsReplaced

\* What a write makes of the row.
LEMMA WrittenRow ==
  ASSUME Memory!TypeOK, NEW new \in Memory!Row, NEW saw, Memory!Write(new, saw)
  PROVE  /\ row' \in Memory!Row /\ row'.revision = row.revision + 1
         /\ row'.status = new.status /\ row'.fact = new.fact /\ row'.pending = new.pending
         /\ replaced' \in Memory!Content /\ (saw = row.fact => replaced' = None)
<1>1. row \in Memory!Row /\ row.revision \in 0..MaxWrites /\ row.fact \in Memory!Content
  BY DEF Memory!TypeOK, Memory!Row
<1>2. row.revision + 1 \in 0..MaxWrites
  BY <1>1 DEF Memory!Write
<1>3. ASSUME NEW n \in 0..MaxWrites, row' = [new EXCEPT !.revision = n]
      PROVE  /\ row' \in Memory!Row /\ row'.revision = n
             /\ row'.status = new.status /\ row'.fact = new.fact /\ row'.pending = new.pending
  BY <1>3 DEF Memory!Row
<1>4. replaced' \in Memory!Content /\ (saw = row.fact => replaced' = None)
  BY <1>1 DEF Memory!Write, Memory!Content
<1>. QED
  BY <1>2, <1>3, <1>4 DEF Memory!Write

\* The rows that the commands write.
LEMMA CommandedRows ==
  /\ \A f \in Memory!Content :
       /\ [Memory!NoRow EXCEPT !.status = "active", !.fact = f] \in Memory!Row
       /\ [Memory!NoRow EXCEPT !.status = "active", !.fact = f].fact = f
       /\ [Memory!NoRow EXCEPT !.status = "active", !.fact = f].pending = None
  /\ [Memory!NoRow EXCEPT !.status = "deleted"] \in Memory!Row
  /\ [Memory!NoRow EXCEPT !.status = "deleted"].status = "deleted"
  /\ [Memory!NoRow EXCEPT !.status = "deleted"].pending = None
<1>. USE DEF Memory!NoRow, Memory!Row, Memory!Content
<1>1. ASSUME NEW f \in Memory!Content
      PROVE  /\ [Memory!NoRow EXCEPT !.status = "active", !.fact = f] \in Memory!Row
             /\ [Memory!NoRow EXCEPT !.status = "active", !.fact = f].fact = f
             /\ [Memory!NoRow EXCEPT !.status = "active", !.fact = f].pending = None
  <2>1. 0 \in 0..MaxWrites
    OBVIOUS
  <2>2. [status |-> "active", fact |-> f, revision |-> 0, pending |-> None] \in Memory!Row
    BY <2>1
  <2>. QED
    BY <2>2
<1>2. /\ [Memory!NoRow EXCEPT !.status = "deleted"] \in Memory!Row
      /\ [Memory!NoRow EXCEPT !.status = "deleted"].status = "deleted"
      /\ [Memory!NoRow EXCEPT !.status = "deleted"].pending = None
  <2>1. 0 \in 0..MaxWrites
    OBVIOUS
  <2>2. [status |-> "deleted", fact |-> None, revision |-> 0, pending |-> None] \in Memory!Row
    BY <2>1
  <2>. QED
    BY <2>2
<1>. QED
  BY <1>1, <1>2

\* What a command that saves or forgets carries, and one that shares.
LEMMA CommandParts ==
  ASSUME Memory!TypeOK, NEW x \in Peer, command[x] # None
  PROVE  /\ command[x] \in Memory!Command
         /\ command[x].kind \in {"save", "forget"} => command[x].fact \in Memory!Content
         /\ command[x].kind = "share" => command[x].code \in 1..MaxWrites
         /\ command[x].kind # "share" \/ command[x].at = "read" =>
              command[x].revision \in 0..MaxWrites /\ command[x].saw \in Memory!Content
BY DEF Memory!TypeOK, Memory!Command

\* Every step keeps every variable of the memory in its type.
LEMMA MemoryTypeStep ==
  ASSUME Memory!TypeOK, [Memory!Next]_(Memory!vars)
  PROVE  Memory!TypeOK'
<1>. USE DEF Memory!Sends
<1>1. row \in Memory!Row /\ row.revision \in 0..MaxWrites /\ row.fact \in Memory!Content
  BY DEF Memory!TypeOK, Memory!Row
<1>2. CASE Memory!SetRole
  BY <1>2 DEF Memory!SetRole, Memory!TypeOK
<1>3. CASE Memory!Expire
  <2>1. ASSUME NEW r \in Memory!Row PROVE [r EXCEPT !.pending = None] \in Memory!Row
    BY <2>1 DEF Memory!Row
  <2>. QED
    BY <1>1, <1>3, <2>1 DEF Memory!Expire, Memory!TypeOK
<1>4. ASSUME NEW x \in Peer, NEW kind \in {"save", "forget"}, NEW f \in Memory!Content,
             Memory!Send(x, kind, f)
      PROVE  Memory!TypeOK'
  <2>1. [kind |-> kind, at |-> "sent", fact |-> f, revision |-> row.revision, saw |-> row.fact]
          \in Memory!Command
    BY <1>1 DEF Memory!Command
  <2>. QED
    BY <1>4, <2>1 DEF Memory!Send, Memory!TypeOK
<1>5. ASSUME NEW x \in Peer, NEW f \in Fact, Memory!Propose(x, f) PROVE Memory!TypeOK'
  <2>. DEFINE next == row.revision + 1
              proposal == [fact |-> f, code |-> next, chat |-> x, revision |-> next]
  <2>1. next \in 1..MaxWrites
    BY <1>1, <1>5 DEF Memory!Propose, Memory!Write
  <2>2. proposal \in Memory!Proposal
    BY <2>1 DEF Memory!Proposal
  <2>3. ASSUME NEW p \in Memory!Proposal
        PROVE  [row EXCEPT !.status = IF @ = "none" THEN "pending_review" ELSE @,
                           !.pending = p] \in Memory!Row
    BY <1>1 DEF Memory!Row
  <2>4. row' \in Memory!Row /\ replaced' \in Memory!Content
    BY <1>5, <2>2, <2>3, WrittenRow DEF Memory!Propose
  <2>5. previews' \subseteq [code : 1..MaxWrites, fact : Fact, chat : Peer]
    BY <1>5, <2>1 DEF Memory!Propose, Memory!TypeOK
  <2>. QED
    BY <1>5, <2>4, <2>5 DEF Memory!Propose, Memory!TypeOK
<1>6. ASSUME NEW x \in Peer, NEW kind, Memory!Handles(x, kind),
             row' \in Memory!Row, replaced' \in Memory!Content
      PROVE  Memory!TypeOK'
  BY <1>6 DEF Memory!Handles, Memory!TypeOK
<1>7. ASSUME NEW x \in Peer, Memory!Save(x) \/ Memory!Forget(x) \/ Memory!Share(x)
      PROVE  Memory!TypeOK'
  <2>1. replaced \in Memory!Content
    BY DEF Memory!TypeOK
  <2>2. CASE Memory!Save(x)
    <3>1. command[x].fact \in Memory!Content
      BY <2>2, CommandParts DEF Memory!Save, Memory!Handles
    <3>2. row' \in Memory!Row /\ replaced' \in Memory!Content
      BY <1>1, <2>1, <2>2, <3>1, WrittenRow, CommandedRows DEF Memory!Save, Memory!Nothing
    <3>. QED
      BY <1>6, <2>2, <3>2 DEF Memory!Save
  <2>3. CASE Memory!Forget(x)
    <3>1. row' \in Memory!Row /\ replaced' \in Memory!Content
      BY <1>1, <2>1, <2>3, WrittenRow, CommandedRows DEF Memory!Forget, Memory!Nothing
    <3>. QED
      BY <1>6, <2>3, <3>1 DEF Memory!Forget
  <2>4. CASE Memory!Share(x)
    <3>1. row.pending # None => row.pending.fact \in Memory!Content
      BY <1>1 DEF Memory!Row, Memory!Proposal, Memory!Content
    <3>2. row' \in Memory!Row /\ replaced' \in Memory!Content
      BY <1>1, <2>1, <2>4, <3>1, WrittenRow, CommandedRows
        DEF Memory!Share, Memory!Reviewed, Memory!Nothing
    <3>. QED
      BY <1>6, <2>4, <3>2 DEF Memory!Share
  <2>. QED
    BY <1>7, <2>2, <2>3, <2>4
<1>8. ASSUME NEW x \in Peer, NEW p \in previews, Memory!SendShare(x, p) PROVE Memory!TypeOK'
  <2>1. p.code \in 1..MaxWrites
    BY DEF Memory!TypeOK
  <2>2. [kind |-> "share", at |-> "sent", code |-> p.code] \in Memory!Command
    BY <2>1 DEF Memory!Command
  <2>. QED
    BY <1>8, <2>1, <2>2 DEF Memory!SendShare, Memory!TypeOK
<1>9. ASSUME NEW x \in Peer, Memory!ReadShare(x) PROVE Memory!TypeOK'
  <2>1. command[x].code \in 1..MaxWrites
    BY <1>9, CommandParts DEF Memory!ReadShare
  <2>2. [kind |-> "share", at |-> "read", code |-> command[x].code, revision |-> row.revision,
         saw |-> row.fact] \in Memory!Command
    BY <1>1, <2>1 DEF Memory!Command
  <2>. QED
    BY <1>9, <2>2 DEF Memory!ReadShare, Memory!TypeOK
<1>10. CASE UNCHANGED Memory!vars
  BY <1>10 DEF Memory!vars, Memory!TypeOK
<1>11. Fact \subseteq Memory!Content /\ None \in Memory!Content
  BY DEF Memory!Content
<1>. QED
  BY <1>2, <1>3, <1>4, <1>5, <1>7, <1>8, <1>9, <1>10, <1>11 DEF Memory!Next

\* A command that is over leaves the others as they are, whether it wrote the row or not.
LEMMA CommandOver ==
  ASSUME Memory!TypeOK, CommandsKnow, NEW x \in Peer,
         command' = [command EXCEPT ![x] = None], UNCHANGED <<scope, typed>>,
         UNCHANGED row \/ row'.revision = row.revision + 1
  PROVE  CommandsKnow'
<1>1. row.revision \in Nat
  BY DEF Memory!TypeOK, Memory!Row
<1>2. SUFFICES ASSUME NEW y \in Peer, y # x, command[y] # None
               PROVE  /\ command[y].kind = "save" => scope = "private"
                      /\ command[y].kind = "share" => [code |-> command[y].code, chat |-> y] \in typed
                      /\ command[y].kind # "share" \/ command[y].at = "read" =>
                           /\ command[y].revision <= row'.revision
                           /\ command[y].revision = row'.revision => command[y].saw = row'.fact
  BY DEF CommandsKnow, Memory!TypeOK
<1>3. /\ command[y].kind = "save" => scope = "private"
      /\ command[y].kind = "share" => [code |-> command[y].code, chat |-> y] \in typed
      /\ command[y].kind # "share" \/ command[y].at = "read" =>
           /\ command[y].revision <= row.revision
           /\ command[y].revision = row.revision => command[y].saw = row.fact
  BY <1>2 DEF CommandsKnow
<1>4. command[y].kind # "share" \/ command[y].at = "read" => command[y].revision \in Nat
  BY <1>2, CommandParts
<1>5. CASE UNCHANGED row
  BY <1>3, <1>5
<1>6. CASE row'.revision = row.revision + 1
  BY <1>1, <1>3, <1>4, <1>6
<1>. QED
  BY <1>5, <1>6

\* A command that saves, forgets or shares writes what its author saw, or nothing.
LEMMA CommandWrites ==
  ASSUME Memory!TypeOK, MemoryInv, NEW x \in Peer, NEW new \in Memory!Row,
         command[x] # None, command[x].kind # "share" \/ command[x].at = "read",
         Memory!Owned(command[x].revision), Memory!Write(new, command[x].saw)
  PROVE  replaced' = None
<1>1. command[x].saw = row.fact
  BY DEF MemoryInv, CommandsKnow, Memory!Owned
<1>. QED
  BY <1>1, WrittenRow

\* Every step keeps the invariant of the memory.
LEMMA MemoryInvStep ==
  ASSUME Memory!TypeOK, MemoryInv, [Memory!Next]_(Memory!vars)
  PROVE  MemoryInv'
<1>. USE DEF Memory!Sends
<1>1. /\ row \in Memory!Row /\ row.revision \in 0..MaxWrites /\ row.fact \in Memory!Content
      /\ replaced = None
  BY DEF Memory!TypeOK, Memory!Row, MemoryInv, Memory!NothingUnseenIsReplaced
<1>2. CASE Memory!SetRole
  BY <1>2 DEF Memory!SetRole, MemoryInv, CommandsKnow, PendingWasShown, Memory!SharedIsReviewed,
    Memory!Recalled, Memory!NothingUnseenIsReplaced
<1>3. CASE Memory!Expire
  <2>1. /\ row'.revision = row.revision /\ row'.fact = row.fact /\ row'.status = row.status
        /\ row'.pending = None
    BY <1>1, <1>3 DEF Memory!Expire, Memory!Row
  <2>2. CommandsKnow'
    BY <1>3, <2>1 DEF Memory!Expire, MemoryInv, CommandsKnow
  <2>. QED
    BY <1>3, <2>1, <2>2 DEF Memory!Expire, MemoryInv, PendingWasShown, Memory!SharedIsReviewed,
      Memory!Recalled, Memory!NothingUnseenIsReplaced
<1>4. ASSUME NEW x \in Peer, NEW kind \in {"save", "forget"}, NEW f, Memory!Send(x, kind, f)
      PROVE  MemoryInv'
  <2>1. CommandsKnow'
    BY <1>1, <1>4 DEF Memory!Send, MemoryInv, CommandsKnow, Memory!TypeOK
  <2>. QED
    BY <1>4, <2>1 DEF Memory!Send, MemoryInv, PendingWasShown, Memory!SharedIsReviewed,
      Memory!Recalled, Memory!NothingUnseenIsReplaced
<1>5. ASSUME NEW x \in Peer, NEW f \in Fact, Memory!Propose(x, f) PROVE MemoryInv'
  <2>. DEFINE next == row.revision + 1
              proposal == [fact |-> f, code |-> next, chat |-> x, revision |-> next]
              new == [row EXCEPT !.status = IF @ = "none" THEN "pending_review" ELSE @,
                                 !.pending = proposal]
  <2>1. next \in 1..MaxWrites
    BY <1>1, <1>5 DEF Memory!Propose, Memory!Write
  <2>2. proposal \in Memory!Proposal
    BY <2>1 DEF Memory!Proposal
  <2>3. ASSUME NEW p \in Memory!Proposal
        PROVE  [row EXCEPT !.status = IF @ = "none" THEN "pending_review" ELSE @,
                           !.pending = p] \in Memory!Row
    BY <1>1 DEF Memory!Row
  <2>4. /\ new \in Memory!Row /\ new.fact = row.fact /\ new.pending = proposal
        /\ new.status = "active" => row.status = "active"
    <3>. HIDE DEF proposal
    <3>. QED
      BY <1>1, <2>2, <2>3 DEF Memory!Row
  <2>5. /\ row'.revision = row.revision + 1 /\ row'.fact = row.fact /\ row'.pending = proposal
        /\ row'.status = "active" => row.status = "active"
        /\ replaced' = None
    <3>1. Memory!Write(new, row.fact)
      BY <1>5 DEF Memory!Propose
    <3>. HIDE DEF new, proposal
    <3>. QED
      BY <2>4, <3>1, WrittenRow
  <2>6. /\ previews' = previews \cup {[code |-> next, fact |-> f, chat |-> x]}
        /\ UNCHANGED <<scope, mayShare, command, typed>>
    BY <1>5 DEF Memory!Propose
  <2>7. CommandsKnow'
    <3>1. ASSUME NEW y \in Peer, command[y] # None,
                 command[y].kind # "share" \/ command[y].at = "read"
          PROVE  command[y].revision \in Nat /\ command[y].revision <= row.revision
      <4>1. command[y].revision \in 0..MaxWrites
        BY <3>1, CommandParts
      <4>2. command[y].revision <= row.revision
        BY <3>1 DEF MemoryInv, CommandsKnow
      <4>. QED
        BY <4>1, <4>2
    <3>. QED
      BY <1>1, <2>5, <2>6, <3>1 DEF MemoryInv, CommandsKnow
  <2>8. PendingWasShown'
    BY <2>5, <2>6 DEF PendingWasShown
  <2>. QED
    BY <2>5, <2>6, <2>7, <2>8 DEF MemoryInv, Memory!SharedIsReviewed, Memory!Recalled,
      Memory!NothingUnseenIsReplaced
<1>6. ASSUME NEW x \in Peer, Memory!Save(x) PROVE MemoryInv'
  <2>. DEFINE new == [Memory!NoRow EXCEPT !.status = "active", !.fact = command[x].fact]
  <2>1. /\ command[x] # None /\ command[x].kind = "save" /\ scope = "private"
        /\ command' = [command EXCEPT ![x] = None]
        /\ UNCHANGED <<scope, mayShare, previews, typed>>
    BY <1>6 DEF Memory!Save, Memory!Handles, MemoryInv, CommandsKnow
  <2>2. new \in Memory!Row /\ new.pending = None
    BY <2>1, CommandParts, CommandedRows
  <2>3. CASE Memory!Owned(command[x].revision)
    <3>1. Memory!Write(new, command[x].saw)
      BY <1>6, <2>3 DEF Memory!Save
    <3>. HIDE DEF new
    <3>2. row'.revision = row.revision + 1 /\ row'.pending = None
      BY <2>2, <3>1, WrittenRow
    <3>3. replaced' = None
      BY <2>1, <2>2, <2>3, <3>1, CommandWrites
    <3>4. CommandsKnow'
      BY <2>1, <3>2, CommandOver DEF MemoryInv
    <3>. QED
      BY <2>1, <3>2, <3>3, <3>4 DEF MemoryInv, PendingWasShown, Memory!SharedIsReviewed,
        Memory!NothingUnseenIsReplaced
  <2>4. CASE UNCHANGED <<row, replaced>>
    <3>1. CommandsKnow'
      BY <2>1, <2>4, CommandOver DEF MemoryInv
    <3>. QED
      BY <2>1, <2>4, <3>1 DEF MemoryInv, PendingWasShown, Memory!SharedIsReviewed,
        Memory!Recalled, Memory!NothingUnseenIsReplaced
  <2>. QED
    BY <1>6, <2>3, <2>4 DEF Memory!Save, Memory!Nothing
<1>7. ASSUME NEW x \in Peer, Memory!Forget(x) PROVE MemoryInv'
  <2>. DEFINE new == [Memory!NoRow EXCEPT !.status = "deleted"]
  <2>1. /\ command[x] # None /\ command[x].kind = "forget"
        /\ command' = [command EXCEPT ![x] = None]
        /\ UNCHANGED <<scope, mayShare, previews, typed>>
    BY <1>7 DEF Memory!Forget, Memory!Handles
  <2>2. new \in Memory!Row /\ new.pending = None /\ new.status = "deleted"
    BY CommandedRows
  <2>3. CASE Memory!Owned(command[x].revision) /\ Memory!Write(new, command[x].saw)
    <3>. HIDE DEF new
    <3>1. row'.revision = row.revision + 1 /\ row'.pending = None /\ row'.status = "deleted"
      BY <2>2, <2>3, WrittenRow
    <3>2. replaced' = None
      BY <2>1, <2>2, <2>3, CommandWrites
    <3>3. CommandsKnow'
      BY <2>1, <3>1, CommandOver DEF MemoryInv
    <3>. QED
      BY <2>1, <3>1, <3>2, <3>3 DEF MemoryInv, PendingWasShown, Memory!SharedIsReviewed,
        Memory!Recalled, Memory!NothingUnseenIsReplaced
  <2>4. CASE UNCHANGED <<row, replaced>>
    <3>1. CommandsKnow'
      BY <2>1, <2>4, CommandOver DEF MemoryInv
    <3>. QED
      BY <2>1, <2>4, <3>1 DEF MemoryInv, PendingWasShown, Memory!SharedIsReviewed,
        Memory!Recalled, Memory!NothingUnseenIsReplaced
  <2>. QED
    BY <1>7, <2>3, <2>4 DEF Memory!Forget, Memory!Nothing
<1>8. ASSUME NEW x \in Peer, Memory!Share(x) PROVE MemoryInv'
  <2>. DEFINE new == [Memory!NoRow EXCEPT !.status = "active", !.fact = row.pending.fact]
  <2>1. /\ command[x] # None /\ command[x].kind = "share" /\ command[x].at = "read"
        /\ [code |-> command[x].code, chat |-> x] \in typed
        /\ command' = [command EXCEPT ![x] = None]
        /\ UNCHANGED <<scope, mayShare, previews, typed>>
    BY <1>8 DEF Memory!Share, Memory!Handles, MemoryInv, CommandsKnow
  <2>2. CASE /\ Memory!Owned(command[x].revision) /\ Memory!Reviewed(x, command[x].code)
             /\ Memory!Write(new, command[x].saw)
    <3>1. /\ row.pending # None /\ row.pending.chat = x /\ row.pending.code = command[x].code
          /\ row.pending.fact \in Memory!Content
      BY <1>1, <2>2 DEF Memory!Reviewed, Memory!Row, Memory!Proposal, Memory!Content
    <3>2. new \in Memory!Row /\ new.pending = None /\ new.fact = row.pending.fact
      BY <3>1, CommandedRows
    <3>3. [code |-> command[x].code, fact |-> row.pending.fact, chat |-> x] \in previews
      BY <3>1 DEF MemoryInv, PendingWasShown
    <3>. HIDE DEF new
    <3>4. row'.revision = row.revision + 1 /\ row'.pending = None /\ row'.fact = row.pending.fact
      BY <2>2, <3>2, WrittenRow
    <3>5. replaced' = None
      BY <2>1, <2>2, <3>2, CommandWrites
    <3>6. CommandsKnow'
      BY <2>1, <3>4, CommandOver DEF MemoryInv
    <3>7. Memory!SharedIsReviewed'
      BY <2>1, <3>3, <3>4 DEF Memory!SharedIsReviewed, Memory!Recalled
    <3>. QED
      BY <2>1, <3>4, <3>5, <3>6, <3>7 DEF MemoryInv, PendingWasShown,
        Memory!NothingUnseenIsReplaced
  <2>3. CASE UNCHANGED <<row, replaced>>
    <3>1. CommandsKnow'
      BY <2>1, <2>3, CommandOver DEF MemoryInv
    <3>. QED
      BY <2>1, <2>3, <3>1 DEF MemoryInv, PendingWasShown, Memory!SharedIsReviewed,
        Memory!Recalled, Memory!NothingUnseenIsReplaced
  <2>. QED
    BY <1>8, <2>2, <2>3 DEF Memory!Share, Memory!Nothing
<1>9. ASSUME NEW x \in Peer, NEW p \in previews, Memory!SendShare(x, p) PROVE MemoryInv'
  <2>1. CommandsKnow'
    BY <1>9 DEF Memory!SendShare, MemoryInv, CommandsKnow, Memory!TypeOK
  <2>2. Memory!SharedIsReviewed'
    BY <1>9 DEF Memory!SendShare, MemoryInv, Memory!SharedIsReviewed, Memory!Recalled
  <2>. QED
    BY <1>9, <2>1, <2>2 DEF Memory!SendShare, MemoryInv, PendingWasShown,
      Memory!NothingUnseenIsReplaced
<1>10. ASSUME NEW x \in Peer, Memory!ReadShare(x) PROVE MemoryInv'
  <2>1. CommandsKnow'
    BY <1>1, <1>10 DEF Memory!ReadShare, MemoryInv, CommandsKnow, Memory!TypeOK
  <2>. QED
    BY <1>10, <2>1 DEF Memory!ReadShare, MemoryInv, PendingWasShown, Memory!SharedIsReviewed,
      Memory!Recalled, Memory!NothingUnseenIsReplaced
<1>11. CASE UNCHANGED Memory!vars
  BY <1>11 DEF Memory!vars, MemoryInv, CommandsKnow, PendingWasShown, Memory!SharedIsReviewed,
    Memory!Recalled, Memory!NothingUnseenIsReplaced
<1>. QED
  BY <1>2, <1>3, <1>4, <1>5, <1>6, <1>7, <1>8, <1>9, <1>10, <1>11 DEF Memory!Next

\* A memory that runs beside nothing else: a step of the conversations is one of the memory, or
\* leaves it alone.
LEMMA MemoryInvariance == ConversationsSpec => [](Memory!TypeOK /\ MemoryInv)
<1>1. ConversationsInit => Memory!TypeOK /\ MemoryInv
  BY DEF ConversationsInit, Memory!Init, Memory!NoRow, Memory!TypeOK, Memory!Row, Memory!Content,
    MemoryInv, CommandsKnow, PendingWasShown, Memory!SharedIsReviewed, Memory!Recalled,
    Memory!NothingUnseenIsReplaced
<1>2. [ConversationsNext]_allVars => [Memory!Next]_(Memory!vars)
  BY DEF ConversationsNext, TurnStep, CallStep, SpeechStep, MemoryStep, ReportStep,
    allVars, memoryVars, Memory!vars
<1>3. Memory!TypeOK /\ MemoryInv /\ [ConversationsNext]_allVars => (Memory!TypeOK /\ MemoryInv)'
  BY <1>2, MemoryTypeStep, MemoryInvStep
<1>. QED
  BY <1>1, <1>3, PTL DEF ConversationsSpec

\* What is shared was reviewed, and nothing is replaced that its author has not seen, for any
\* chats, facts and number of writes.
THEOREM ReviewedMemory == ConversationsSpec => []MemoryIsReviewed
BY MemoryInvariance, PTL DEF MemoryInv, MemoryIsReviewed

-----------------------------------------------------------------------------
(* ResearchReports *)

\* An attempt that may still write its file.
Rendering(w) == gen[w].at \in {"unlinked", "read", "purge", "commit", "put"}

\* An attempt wrote the file, and will either name it in a row or take it away.
InHand(f) == \E w \in Worker : gen[w].at = "put" /\ f \in gen[w].put

\* A purge that is under way, and the rows it found.
Purges(w) == gen[w].at \in {"unlinked", "commit", "clear"}
VisitPurges == visit # None /\ visit.at = "commit"

\* When the purge takes a row, the file of the row is gone, or in an attempt's hand.
Safe(found) ==
  \A f \in DOMAIN found : f \in DOMAIN rows /\ rows[f] = found[f] /\ f \in DOMAIN files =>
    InHand(f) \/ torn

\* No attempt that may still write rendered what the rows say.
Past(table) ==
  \A f \in DOMAIN table :
    table[f].by <= begun /\ \A w \in Worker : Rendering(w) => gen[w].by # table[f].by

FilesAreNamed == \A f \in DOMAIN files : f \in DOMAIN rows \/ InHand(f) \/ torn

PurgesAreSafe ==
  /\ \A w \in Worker : Purges(w) => Safe(gen[w].found)
  /\ VisitPurges => Safe(visit.found)

AttemptsDiffer ==
  /\ \A w \in Worker : Rendering(w) =>
       gen[w].by <= begun /\ \A v \in Worker : Rendering(v) /\ gen[v].by = gen[w].by => v = w
  /\ Past(rows)
  /\ \A w \in Worker : Purges(w) => Past(gen[w].found)
  /\ VisitPurges => Past(visit.found)

\* Nothing is done for a report before there is one.
NothingBefore ==
  report = None => visit = None /\ DOMAIN files = {} /\ \A w \in Worker : gen[w] = Reports!Idle

\* A report names nobody who is not in its scope.
FilesAreInScope ==
  Reports!Exists =>
    /\ \A f \in DOMAIN files : files[f].of \subseteq report.scope
    /\ \A w \in Worker : gen[w].at \in {"purge", "commit", "put"} => gen[w].of \subseteq report.scope

\* A visit goes on with a report that nobody in its scope was known to have withdrawn from.
VisitsAreValid ==
  Reports!Exists /\ visit # None /\ visit.at \in {"row", "file"} =>
    \A d \in visit.known : d.at > report.created => d.who \notin report.scope

ReportInv ==
  /\ FilesAreNamed /\ PurgesAreSafe /\ AttemptsDiffer
  /\ NothingBefore /\ FilesAreInScope /\ VisitsAreValid

\* What a table of rows or files is.
LEMMA Tables ==
  /\ \A t \in Reports!Table : /\ DOMAIN t \subseteq Format /\ t = [f \in DOMAIN t |-> t[f]]
                              /\ \A f \in DOMAIN t : t[f] \in Reports!Bytes
  /\ \A D \in SUBSET Format : \A t \in [D -> Reports!Bytes] : t \in Reports!Table
BY DEF Reports!Table

\* A purge leaves what it did not find.
LEMMA Purged ==
  ASSUME Reports!TypeOK, NEW found \in Reports!Table
  PROVE  /\ Reports!Unlinked(found) \in Reports!Table
         /\ DOMAIN Reports!Unlinked(found) = DOMAIN files \ DOMAIN found
         /\ \A f \in DOMAIN files \ DOMAIN found : Reports!Unlinked(found)[f] = files[f]
         /\ Reports!Deleted(found) \in Reports!Table
         /\ \A f : f \in DOMAIN Reports!Deleted(found) <=>
                     f \in DOMAIN rows /\ ~(f \in DOMAIN found /\ rows[f] = found[f])
         /\ \A f \in DOMAIN Reports!Deleted(found) : Reports!Deleted(found)[f] = rows[f]
<1>1. ASSUME NEW t \in Reports!Table, NEW keys
      PROVE  /\ Reports!Without(t, keys) \in Reports!Table
             /\ DOMAIN Reports!Without(t, keys) = DOMAIN t \ keys
             /\ \A f \in DOMAIN t \ keys : Reports!Without(t, keys)[f] = t[f]
  <2>1. Reports!Without(t, keys) = [f \in DOMAIN t \ keys |-> t[f]]
    BY DEF Reports!Without, Reports!Restrict
  <2>2. DOMAIN t \ keys \in SUBSET Format /\ \A f \in DOMAIN t : t[f] \in Reports!Bytes
    BY Tables
  <2>3. Reports!Without(t, keys) \in [DOMAIN t \ keys -> Reports!Bytes]
    BY <2>1, <2>2
  <2>. QED
    BY <2>1, <2>2, <2>3, Tables
<1>2. rows \in Reports!Table /\ files \in Reports!Table
  BY DEF Reports!TypeOK
<1>3. /\ Reports!Unlinked(found) \in Reports!Table
      /\ DOMAIN Reports!Unlinked(found) = DOMAIN files \ DOMAIN found
      /\ \A f \in DOMAIN files \ DOMAIN found : Reports!Unlinked(found)[f] = files[f]
  BY <1>1, <1>2 DEF Reports!Unlinked
<1>4. /\ Reports!Deleted(found) \in Reports!Table
      /\ \A f : f \in DOMAIN Reports!Deleted(found) <=>
                  f \in DOMAIN rows /\ ~(f \in DOMAIN found /\ rows[f] = found[f])
      /\ \A f \in DOMAIN Reports!Deleted(found) : Reports!Deleted(found)[f] = rows[f]
  <2>. DEFINE keys == {f \in DOMAIN found : f \in DOMAIN rows /\ rows[f] = found[f]}
  <2>1. Reports!Deleted(found) = Reports!Without(rows, keys)
    BY DEF Reports!Deleted
  <2>2. \A f : f \in DOMAIN rows \ keys <=>
                f \in DOMAIN rows /\ ~(f \in DOMAIN found /\ rows[f] = found[f])
    OBVIOUS
  <2>. HIDE DEF keys
  <2>3. /\ Reports!Without(rows, keys) \in Reports!Table
        /\ DOMAIN Reports!Without(rows, keys) = DOMAIN rows \ keys
        /\ \A f \in DOMAIN rows \ keys : Reports!Without(rows, keys)[f] = rows[f]
    BY <1>1, <1>2
  <2>. QED
    BY <2>1, <2>2, <2>3
<1>. QED
  BY <1>3, <1>4

\* What an attempt keeps at each place.
LEMMA AttemptParts ==
  ASSUME Reports!TypeOK, NEW w \in Worker
  PROVE  /\ gen[w].at \in {"idle", "fail", "unlinked", "read", "purge", "commit", "put", "clear"}
         /\ Rendering(w) => gen[w].by \in 1..MaxBegun
         /\ gen[w].at \in {"purge", "commit", "put"} => gen[w].of \subseteq Peer
         /\ gen[w].at \in {"read", "purge", "commit"} => gen[w].put = {}
         /\ gen[w].at = "put" => gen[w].put \subseteq Format
         /\ Purges(w) => gen[w].found \in Reports!Table
<1>1. gen[w] \in Reports!Attempt
  BY DEF Reports!TypeOK
<1>. QED
  BY <1>1 DEF Reports!Attempt, Reports!Idle, Rendering, Purges

\* What a visit keeps at each place.
LEMMA VisitParts ==
  ASSUME Reports!TypeOK, visit # None
  PROVE  /\ visit.at \in {"row", "file", "purge", "commit"} /\ visit.kind \in {"read", "delete"}
         /\ visit.at \in {"row", "file"} => visit.known \subseteq Reports!Decision
         /\ visit.at = "commit" => visit.found \in Reports!Table
BY DEF Reports!TypeOK, Reports!Visitor

\* The steps of a report: what each of them leaves alone.
People == \/ \E p \in Peer : Reports!Withdraw(p) \/ Reports!Grant(p)
          \/ Reports!Withdrawn
Rows == \/ \E p \in Peer : Reports!Create({p})
        \/ Reports!Create(Peer) \/ Reports!Expire
Attempts(w) ==
  \/ Reports!Begin(w) \/ Reports!Run(w) \/ Reports!Read(w) \/ Reports!Purge(w) \/ Reports!Purged(w)
  \/ Reports!Publish(w) \/ \E f \in Format : Reports!Put(w, f)
  \/ Reports!Fail(w) \/ Reports!Clear(w) \/ Reports!Cleared(w) \/ Reports!Killed(w)
Visits == \/ Reports!Look \/ Reports!Remove \/ Reports!ReadFile \/ Reports!Unlink
          \/ Reports!Commit \/ Reports!Abandoned
          \/ \E f \in Format : Reports!FindRow(f)

\* A step is one of these.
LEMMA ReportSteps ==
  ASSUME [Reports!Next]_(Reports!vars)
  PROVE  People \/ Rows \/ (\E w \in Worker : Attempts(w)) \/ Visits \/ UNCHANGED Reports!vars
BY DEF Reports!Next, People, Rows, Attempts, Visits

\* A report that changes its status or expires stays one.
LEMMA ReportRow ==
  ASSUME Reports!TypeOK, Reports!Exists
  PROVE  /\ report \in Reports!Report
         /\ [report EXCEPT !.expired = TRUE] \in Reports!Report
         /\ [report EXCEPT !.status = "running"] \in Reports!Report
         /\ [report EXCEPT !.status = "success"] \in Reports!Report
         /\ [report EXCEPT !.status = "failed"] \in Reports!Report
<1>1. report \in Reports!Report
  BY DEF Reports!TypeOK, Reports!Exists
<1>. QED
  BY <1>1 DEF Reports!Report

\* Consent and the creation of the report keep their variables in their types.
LEMMA PeopleTypes ==
  ASSUME Reports!TypeOK, People \/ Rows
  PROVE  Reports!TypeOK'
<1>1. ASSUME NEW p \in Peer, Reports!Withdraw(p) PROVE Reports!TypeOK'
  <2>1. [who |-> p, at |-> time + 1] \in Reports!Decision /\ time + 1 \in 0..MaxTime
    BY <1>1 DEF Reports!Withdraw, Reports!TypeOK, Reports!Decision
  <2>. QED
    BY <1>1, <2>1 DEF Reports!Withdraw, Reports!TypeOK
<1>2. ASSUME NEW p \in Peer, Reports!Grant(p) PROVE Reports!TypeOK'
  BY <1>2 DEF Reports!Grant, Reports!TypeOK
<1>3. CASE Reports!Withdrawn
  BY <1>3 DEF Reports!Withdrawn, Reports!TypeOK
<1>4. ASSUME NEW scope1 \in SUBSET Peer, Reports!Create(scope1) PROVE Reports!TypeOK'
  <2>1. /\ time + 1 \in 0..MaxTime
        /\ [status |-> "queued", created |-> time + 1, scope |-> scope1, expired |-> FALSE]
             \in Reports!Report
    BY <1>4 DEF Reports!Create, Reports!TypeOK, Reports!Report
  <2>. QED
    BY <1>4, <2>1 DEF Reports!Create, Reports!TypeOK
<1>5. CASE Reports!Expire
  BY <1>5, ReportRow DEF Reports!Expire, Reports!people, Reports!TypeOK
<1>6. Peer \in SUBSET Peer /\ \A p \in Peer : {p} \in SUBSET Peer
  OBVIOUS
<1>. QED
  BY <1>1, <1>2, <1>3, <1>4, <1>5, <1>6 DEF People, Rows

\* A visit keeps the variables in their types.
LEMMA VisitTypes ==
  ASSUME Reports!TypeOK, Visits
  PROVE  Reports!TypeOK'
<1>. USE DEF Reports!people
<1>1. CASE Reports!Look \/ Reports!Remove
  <2>1. ASSUME NEW kind \in {"read", "delete"}, Reports!Visit(kind) PROVE Reports!TypeOK'
    <3>1. /\ [at |-> "purge", kind |-> kind] \in Reports!Visitor
          /\ [at |-> "row", kind |-> kind, known |-> withdrawn] \in Reports!Visitor
      BY DEF Reports!Visitor, Reports!TypeOK
    <3>. QED
      BY <2>1, <3>1 DEF Reports!Visit, Reports!TypeOK
  <2>. QED
    BY <1>1, <2>1 DEF Reports!Look, Reports!Remove
<1>2. ASSUME NEW f \in Format, Reports!FindRow(f) PROVE Reports!TypeOK'
  <2>1. CASE f \in DOMAIN rows
    <3>1. rows[f] \in Reports!Bytes
      BY <2>1, Tables DEF Reports!TypeOK
    <3>2. visit.kind \in {"read", "delete"} /\ visit.known \subseteq Reports!Decision
      BY <1>2, VisitParts DEF Reports!FindRow
    <3>3. [at |-> "file", kind |-> visit.kind, known |-> visit.known, format |-> f,
           found |-> rows[f]] \in Reports!Visitor
      BY <3>1, <3>2 DEF Reports!Visitor
    <3>. QED
      BY <1>2, <2>1, <3>3 DEF Reports!FindRow, Reports!TypeOK
  <2>2. CASE f \notin DOMAIN rows
    BY <1>2, <2>2 DEF Reports!FindRow, Reports!TypeOK
  <2>. QED
    BY <2>1, <2>2
<1>3. CASE Reports!ReadFile
  <2>1. [at |-> "purge", kind |-> "read"] \in Reports!Visitor
    BY DEF Reports!Visitor
  <2>. QED
    BY <1>3, <2>1 DEF Reports!ReadFile, Reports!TypeOK
<1>4. CASE Reports!Unlink
  <2>1. visit.kind \in {"read", "delete"} /\ rows \in Reports!Table
    BY <1>4, VisitParts DEF Reports!Unlink, Reports!TypeOK
  <2>2. [at |-> "commit", kind |-> visit.kind, found |-> rows] \in Reports!Visitor
    BY <2>1 DEF Reports!Visitor
  <2>3. files' \in Reports!Table
    BY <1>4, <2>1, Purged DEF Reports!Unlink
  <2>. QED
    BY <1>4, <2>2, <2>3 DEF Reports!Unlink, Reports!TypeOK
<1>5. CASE Reports!Commit
  <2>1. Reports!Nothing \in Reports!Table
    <3>1. Reports!Nothing \in [{} -> Reports!Bytes] /\ {} \in SUBSET Format
      BY DEF Reports!Nothing
    <3>. QED
      BY <3>1, Tables
  <2>2. Reports!Deleted(visit.found) \in Reports!Table
    BY <1>5, VisitParts, Purged DEF Reports!Commit
  <2>3. rows' \in Reports!Table /\ report' \in Reports!Report \cup {None, Reports!Gone}
    BY <1>5, <2>1, <2>2 DEF Reports!Commit, Reports!TypeOK
  <2>4. torn' \in BOOLEAN
    BY <1>5 DEF Reports!Commit, Reports!TypeOK
  <2>. QED
    BY <1>5, <2>3, <2>4 DEF Reports!Commit, Reports!TypeOK
<1>6. CASE Reports!Abandoned
  BY <1>6 DEF Reports!Abandoned, Reports!TypeOK
<1>. QED
  BY <1>1, <1>2, <1>3, <1>4, <1>5, <1>6 DEF Visits

\* An attempt keeps the variables in their types.
LEMMA AttemptTypes ==
  ASSUME Reports!TypeOK, NEW w \in Worker, Attempts(w)
  PROVE  Reports!TypeOK'
<1>. USE DEF Reports!people, Reports!Go, Reports!At
<1>1. /\ rows \in Reports!Table /\ files \in Reports!Table /\ begun \in 0..MaxBegun
      /\ Reports!Idle \in Reports!Attempt /\ [at |-> "fail"] \in Reports!Attempt
      /\ Reports!Nothing \in Reports!Table
  <2>1. Reports!Nothing \in [{} -> Reports!Bytes] /\ {} \in SUBSET Format
    BY DEF Reports!Nothing
  <2>. QED
    BY <2>1, Tables DEF Reports!TypeOK, Reports!Attempt
<1>2. CASE Reports!Begin(w)
  <2>1. PICK found \in Reports!Table :
          /\ files' = Reports!Unlinked(found)
          /\ gen' = [gen EXCEPT ![w] = [at |-> "unlinked", by |-> begun + 1, found |-> found]]
    BY <1>1, <1>2 DEF Reports!Begin
  <2>2. begun + 1 \in 1..MaxBegun
    BY <1>1, <1>2 DEF Reports!Begin
  <2>3. [at |-> "unlinked", by |-> begun + 1, found |-> found] \in Reports!Attempt
    BY <2>2 DEF Reports!Attempt
  <2>4. files' \in Reports!Table
    BY <2>1, Purged
  <2>. QED
    BY <1>2, <2>1, <2>2, <2>3, <2>4 DEF Reports!Begin, Reports!TypeOK
<1>3. CASE Reports!Run(w)
  <2>1. CASE Reports!Exists
    <3>1. gen[w].by \in 1..MaxBegun /\ gen[w].found \in Reports!Table
      BY <1>3, AttemptParts DEF Reports!Run, Rendering, Purges
    <3>2. [at |-> "read", by |-> gen[w].by, put |-> {}] \in Reports!Attempt
      BY <3>1 DEF Reports!Attempt
    <3>3. rows' \in Reports!Table /\ report' \in Reports!Report
      <4>1. rows' = Reports!Deleted(gen[w].found) /\ report' = [report EXCEPT !.status = "running"]
        BY <1>3, <2>1 DEF Reports!Run
      <4>. QED
        BY <2>1, <3>1, <4>1, Purged, ReportRow
    <3>. QED
      BY <1>3, <2>1, <3>2, <3>3 DEF Reports!Run, Reports!TypeOK
  <2>2. CASE ~Reports!Exists
    BY <1>1, <1>3, <2>2 DEF Reports!Run, Reports!TypeOK
  <2>. QED
    BY <2>1, <2>2
<1>4. CASE Reports!Read(w)
  <2>1. gen[w].by \in 1..MaxBegun
    BY <1>4, AttemptParts DEF Reports!Read, Rendering
  <2>2. Reports!Included \subseteq Peer
    BY DEF Reports!Included, Reports!TypeOK
  <2>3. [at |-> "purge", by |-> gen[w].by, of |-> Reports!Included, put |-> {}] \in Reports!Attempt
    BY <2>1, <2>2 DEF Reports!Attempt
  <2>. QED
    BY <1>4, <2>3 DEF Reports!Read, Reports!TypeOK
<1>5. CASE Reports!Purge(w)
  <2>1. gen[w].by \in 1..MaxBegun /\ gen[w].of \subseteq Peer
    BY <1>5, AttemptParts DEF Reports!Purge, Rendering
  <2>2. [at |-> "commit", by |-> gen[w].by, of |-> gen[w].of, put |-> {}, found |-> rows]
          \in Reports!Attempt
    BY <1>1, <2>1 DEF Reports!Attempt
  <2>3. files' \in Reports!Table
    BY <1>1, <1>5, Purged DEF Reports!Purge
  <2>. QED
    BY <1>5, <2>2, <2>3 DEF Reports!Purge, Reports!TypeOK
<1>6. CASE Reports!Purged(w)
  <2>1. gen[w].by \in 1..MaxBegun /\ gen[w].of \subseteq Peer /\ gen[w].found \in Reports!Table
    BY <1>6, AttemptParts DEF Reports!Purged, Rendering, Purges
  <2>2. [at |-> "put", by |-> gen[w].by, of |-> gen[w].of, put |-> {}] \in Reports!Attempt
    BY <2>1 DEF Reports!Attempt
  <2>3. rows' \in Reports!Table
    BY <1>6, <2>1, Purged DEF Reports!Purged
  <2>. QED
    BY <1>6, <2>2, <2>3 DEF Reports!Purged, Reports!TypeOK
<1>7. ASSUME gen[w].at = "put"
      PROVE  /\ gen[w].by \in 1..MaxBegun /\ gen[w].of \subseteq Peer /\ gen[w].put \subseteq Format
             /\ gen[w] \in [at : {"put"}, by : 1..MaxBegun, of : SUBSET Peer, put : SUBSET Format]
             /\ Reports!Rendered(w) \in Reports!Bytes
  <2>1. gen[w].by \in 1..MaxBegun /\ gen[w].of \subseteq Peer /\ gen[w].put \subseteq Format
    BY <1>7, AttemptParts DEF Rendering
  <2>2. gen[w] \in Reports!Attempt
    BY DEF Reports!TypeOK
  <2>3. gen[w] \in [at : {"put"}, by : 1..MaxBegun, of : SUBSET Peer, put : SUBSET Format]
    BY <1>7, <2>2 DEF Reports!Attempt, Reports!Idle
  <2>4. Reports!Rendered(w) \in Reports!Bytes
    BY <2>1 DEF Reports!Rendered, Reports!Bytes
  <2>. QED
    BY <2>1, <2>3, <2>4
<1>8. ASSUME NEW f \in Format, Reports!Put(w, f) PROVE Reports!TypeOK'
  <2>1. gen[w].at = "put"
    BY <1>8 DEF Reports!Put
  <2>2. ASSUME NEW a \in [at : {"put"}, by : 1..MaxBegun, of : SUBSET Peer, put : SUBSET Format]
        PROVE  [a EXCEPT !.put = @ \cup {f}] \in Reports!Attempt
    BY <2>2 DEF Reports!Attempt
  <2>3. files' \in Reports!Table
    <3>1. DOMAIN files \cup {f} \in SUBSET Format /\ \A g \in DOMAIN files : files[g] \in Reports!Bytes
      BY <1>1, Tables
    <3>2. files' \in [DOMAIN files \cup {f} -> Reports!Bytes]
      BY <1>7, <1>8, <2>1, <3>1 DEF Reports!Put
    <3>. QED
      BY <3>1, <3>2, Tables
  <2>. QED
    BY <1>7, <1>8, <2>1, <2>2, <2>3 DEF Reports!Put, Reports!TypeOK
<1>9. CASE Reports!Publish(w)
  <2>1. rows' \in Reports!Table
    <3>1. rows' \in [Format -> Reports!Bytes] /\ Format \in SUBSET Format
      BY <1>7, <1>9 DEF Reports!Publish
    <3>. QED
      BY <3>1, Tables
  <2>2. report' \in Reports!Report
    BY <1>9, ReportRow DEF Reports!Publish
  <2>. QED
    BY <1>1, <1>9, <2>1, <2>2 DEF Reports!Publish, Reports!TypeOK
<1>10. CASE Reports!Fail(w)
  <2>1. files' \in Reports!Table
    <3>1. Reports!Kept(w) = [f \in DOMAIN files \ gen[w].put |-> files[f]]
      BY DEF Reports!Kept, Reports!Without, Reports!Restrict
    <3>2. DOMAIN files \ gen[w].put \in SUBSET Format /\ \A f \in DOMAIN files : files[f] \in Reports!Bytes
      BY <1>1, Tables
    <3>3. Reports!Kept(w) \in [DOMAIN files \ gen[w].put -> Reports!Bytes]
      BY <3>1, <3>2
    <3>. QED
      BY <1>10, <3>2, <3>3, Tables DEF Reports!Fail
  <2>. QED
    BY <1>1, <1>10, <2>1 DEF Reports!Fail, Reports!TypeOK
<1>11. CASE Reports!Clear(w)
  <2>1. [at |-> "clear", found |-> rows] \in Reports!Attempt
    BY <1>1 DEF Reports!Attempt
  <2>2. files' \in Reports!Table
    <3>1. files' = Reports!Unlinked(rows) \/ UNCHANGED files
      BY <1>11 DEF Reports!Clear
    <3>2. Reports!Unlinked(rows) \in Reports!Table
      BY <1>1, Purged
    <3>. QED
      BY <1>1, <3>1, <3>2
  <2>3. gen' \in [Worker -> Reports!Attempt]
    BY <1>1, <1>11, <2>1 DEF Reports!Clear, Reports!TypeOK
  <2>. QED
    BY <1>11, <2>2, <2>3 DEF Reports!Clear, Reports!TypeOK
<1>12. CASE Reports!Cleared(w)
  <2>1. rows' \in Reports!Table /\ report' \in Reports!Report \cup {None, Reports!Gone}
    <3>1. gen[w].found \in Reports!Table
      BY <1>12, AttemptParts DEF Reports!Cleared, Purges
    <3>2. CASE Reports!Exists
      <4>1. /\ rows' = Reports!Deleted(gen[w].found)
            /\ report' = [report EXCEPT !.status = "failed"]
        BY <1>12, <3>2 DEF Reports!Cleared
      <4>. QED
        BY <3>1, <3>2, <4>1, Purged, ReportRow
    <3>3. CASE UNCHANGED <<rows, report>>
      BY <3>3 DEF Reports!TypeOK
    <3>. QED
      BY <1>12, <3>2, <3>3 DEF Reports!Cleared
  <2>. QED
    BY <1>1, <1>12, <2>1 DEF Reports!Cleared, Reports!TypeOK
<1>13. CASE Reports!Killed(w)
  BY <1>1, <1>13 DEF Reports!Killed, Reports!TypeOK
<1>. QED
  BY <1>2, <1>3, <1>4, <1>5, <1>6, <1>8, <1>9, <1>10, <1>11, <1>12, <1>13 DEF Attempts

\* Every step keeps every variable of a report in its type.
LEMMA ReportTypeStep ==
  ASSUME Reports!TypeOK, [Reports!Next]_(Reports!vars)
  PROVE  Reports!TypeOK'
<1>1. CASE UNCHANGED Reports!vars
  BY <1>1 DEF Reports!vars, Reports!TypeOK
<1>. QED
  BY <1>1, ReportSteps, PeopleTypes, VisitTypes, AttemptTypes

\* What a step must not do for the purges to stay safe and the files named: take a row away whose
\* file nobody answers for, or let a file out of hand.
Careful ==
  /\ torn => torn'
  /\ \A f \in DOMAIN rows' : f \in DOMAIN rows /\ rows'[f] = rows[f]
  /\ \A f \in DOMAIN files' : f \in DOMAIN files \/ InHand(f)'
  /\ \A f \in DOMAIN files' : InHand(f) => InHand(f)' \/ torn'
  /\ \A f \in DOMAIN rows \ DOMAIN rows' : f \in DOMAIN files' => InHand(f)' \/ torn'

\* A careful step leaves a purge safe.
LEMMA SafeStep ==
  ASSUME Careful, NEW CONSTANT found, Safe(found)
  PROVE  Safe(found)'
BY DEF Careful, Safe

\* And every file named.
LEMMA NamedStep ==
  ASSUME Careful, FilesAreNamed
  PROVE  FilesAreNamed'
BY DEF Careful, FilesAreNamed

\* A purge of what it finds now, which unlinks that, is safe.
LEMMA SafePurge ==
  ASSUME Reports!TypeOK, NEW found \in Reports!Table, files' = Reports!Unlinked(found)
  PROVE  Safe(found)'
<1>1. DOMAIN files' = DOMAIN files \ DOMAIN found
  BY Purged
<1>. QED
  BY <1>1 DEF Safe

\* The attempts other than w go on as they are, and w goes on as the same attempt, begins the next
\* one or is over.
Steady(w) ==
  /\ \A v \in Worker \ {w} : gen'[v] = gen[v]
  /\ Rendering(w)' =>
       \/ Rendering(w) /\ gen'[w].by = gen[w].by /\ begun' = begun
       \/ gen'[w].by = begun + 1 /\ begun' = begun + 1
  /\ begun' \in {begun, begun + 1}

\* What was rendered in the past stays so.
LEMMA PastStep ==
  ASSUME Reports!TypeOK, NEW w, Steady(w), NEW table \in Reports!Table, Past(table)
  PROVE  Past(table)'
<1>1. begun \in Nat /\ begun' \in Nat /\ begun <= begun'
  BY DEF Reports!TypeOK, Steady
<1>2. ASSUME NEW f \in DOMAIN table
      PROVE  /\ table[f].by <= begun'
             /\ \A v \in Worker : Rendering(v)' => gen'[v].by # table[f].by
  <2>1. table[f].by \in Nat /\ table[f].by <= begun
    BY Tables DEF Past, Reports!Bytes
  <2>2. ASSUME NEW v \in Worker, Rendering(v)' PROVE gen'[v].by # table[f].by
    <3>1. Rendering(v) => gen[v].by # table[f].by
      BY DEF Past
    <3>2. CASE v = w
      BY <1>1, <2>1, <2>2, <3>1, <3>2 DEF Steady
    <3>3. CASE v # w
      BY <2>2, <3>1, <3>3 DEF Steady, Rendering
    <3>. QED
      BY <3>2, <3>3
  <2>. QED
    BY <1>1, <2>1, <2>2
<1>. QED
  BY <1>2 DEF Past

\* The attempts stay different.
LEMMA DifferentAttempts ==
  ASSUME Reports!TypeOK, AttemptsDiffer, NEW w, Steady(w)
  PROVE  \A v \in Worker : Rendering(v)' =>
           /\ gen'[v].by <= begun'
           /\ \A u \in Worker : Rendering(u)' /\ gen'[u].by = gen'[v].by => u = v
<1>1. begun \in Nat /\ begun <= begun' /\ begun' \in Nat
  BY DEF Reports!TypeOK, Steady
<1>2. \A v \in Worker : Rendering(v) =>
        /\ gen[v].by \in Nat /\ gen[v].by <= begun
        /\ \A u \in Worker : Rendering(u) /\ gen[u].by = gen[v].by => u = v
  BY AttemptParts DEF AttemptsDiffer
<1>3. \A v \in Worker \ {w} : /\ Rendering(v)' <=> Rendering(v)
                              /\ gen'[v] = gen[v]
  BY DEF Steady, Rendering
<1>4. CASE ~Rendering(w)'
  BY <1>1, <1>2, <1>3, <1>4
<1>5. CASE Rendering(w)' /\ Rendering(w) /\ gen'[w].by = gen[w].by /\ begun' = begun
  BY <1>1, <1>2, <1>3, <1>5
<1>6. CASE gen'[w].by = begun + 1 /\ begun' = begun + 1
  BY <1>1, <1>2, <1>3, <1>6
<1>. QED
  BY <1>4, <1>5, <1>6 DEF Steady

\* A purge that is under way was under way, or has just unlinked what it found.
Began(found) ==
  found \in {rows, Reports!Nothing} /\ files' = Reports!Unlinked(found)

\* A careful step that goes on with the attempts and the purges.
LEMMA CarefulStep ==
  ASSUME Reports!TypeOK, ReportInv, NEW w, Careful, Steady(w),
         \A v \in Worker : Purges(v)' => \/ Purges(v) /\ gen'[v].found = gen[v].found
                                         \/ \E c : c = gen'[v].found /\ Began(c),
         VisitPurges' => \/ VisitPurges /\ visit'.found = visit.found
                         \/ \E c : c = visit'.found /\ Began(c)
  PROVE  FilesAreNamed' /\ PurgesAreSafe' /\ AttemptsDiffer'
<1>1. FilesAreNamed'
  BY NamedStep DEF ReportInv
<1>2. /\ rows \in Reports!Table /\ Past(rows)
      /\ Reports!Nothing \in Reports!Table /\ Past(Reports!Nothing)
  <2>1. Reports!Nothing \in [{} -> Reports!Bytes] /\ {} \in SUBSET Format
    BY DEF Reports!Nothing
  <2>2. Past(Reports!Nothing)
    BY DEF Past, Reports!Nothing
  <2>. QED
    BY <2>1, <2>2, Tables DEF Reports!TypeOK, ReportInv, AttemptsDiffer
<1>3. ASSUME NEW c \in Reports!Table, Past(c), Safe(c) PROVE Past(c)' /\ Safe(c)'
  BY <1>3, PastStep, SafeStep
<1>4. ASSUME NEW c, Began(c) PROVE Past(c)' /\ Safe(c)'
  <2>1. c \in Reports!Table /\ files' = Reports!Unlinked(c)
    BY <1>2, <1>4 DEF Began
  <2>2. Past(c)
    <3>1. CASE c = rows
      BY <1>2, <3>1 DEF Past
    <3>2. CASE c = Reports!Nothing
      BY <1>2, <3>2 DEF Past
    <3>. QED
      BY <1>4, <3>1, <3>2 DEF Began
  <2>. QED
    BY <2>1, <2>2, PastStep, SafePurge
<1>5. ASSUME NEW v \in Worker, Purges(v)', NEW c, c = gen'[v].found PROVE Past(c)' /\ Safe(c)'
  <2>1. CASE Began(c)
    BY <1>4, <2>1
  <2>2. CASE Purges(v) /\ gen'[v].found = gen[v].found
    <3>1. c \in Reports!Table
      BY <1>5, <2>2, AttemptParts
    <3>2. Past(gen[v].found) /\ Safe(gen[v].found)
      BY <2>2 DEF ReportInv, PurgesAreSafe, AttemptsDiffer
    <3>3. Past(c) /\ Safe(c)
      BY <1>5, <2>2, <3>2 DEF Past, Safe
    <3>. QED
      BY <1>3, <3>1, <3>3
  <2>. QED
    BY <1>5, <2>1, <2>2
<1>6. ASSUME VisitPurges', NEW c, c = visit'.found PROVE Past(c)' /\ Safe(c)'
  <2>1. CASE Began(c)
    BY <1>4, <2>1
  <2>2. CASE VisitPurges /\ visit'.found = visit.found
    <3>1. c \in Reports!Table
      BY <1>6, <2>2, VisitParts DEF VisitPurges
    <3>2. Past(visit.found) /\ Safe(visit.found)
      BY <2>2 DEF ReportInv, PurgesAreSafe, AttemptsDiffer
    <3>3. Past(c) /\ Safe(c)
      BY <1>6, <2>2, <3>2 DEF Past, Safe
    <3>. QED
      BY <1>3, <3>1, <3>3
  <2>. QED
    BY <1>6, <2>1, <2>2
<1>7. ASSUME NEW v \in Worker, Purges(v)' PROVE (Past(gen[v].found) /\ Safe(gen[v].found))'
  <2>1. PICK c : c = gen'[v].found
    OBVIOUS
  <2>2. Past(c)' /\ Safe(c)'
    BY <1>5, <1>7, <2>1
  <2>. QED
    BY <2>1, <2>2 DEF Past, Safe
<1>8. ASSUME VisitPurges' PROVE (Past(visit.found) /\ Safe(visit.found))'
  <2>1. PICK c : c = visit'.found
    OBVIOUS
  <2>2. Past(c)' /\ Safe(c)'
    BY <1>6, <1>8, <2>1
  <2>. QED
    BY <2>1, <2>2 DEF Past, Safe
<1>9. Past(rows)'
  <2>1. PICK c : c = rows
    OBVIOUS
  <2>2. c \in Reports!Table /\ Past(c)
    BY <1>2, <2>1 DEF Past
  <2>3. Past(c)'
    BY <2>2, PastStep
  <2>4. \A f \in DOMAIN rows' : f \in DOMAIN c /\ rows'[f] = c[f]
    BY <2>1 DEF Careful
  <2>. QED
    BY <2>3, <2>4 DEF Past
<1>10. AttemptsDiffer'
  BY <1>7, <1>8, <1>9, DifferentAttempts DEF AttemptsDiffer, ReportInv
<1>. QED
  BY <1>1, <1>7, <1>8, <1>10 DEF PurgesAreSafe

\* A row that a purge takes was of a file that is gone, or in an attempt's hand.
LEMMA TakenRows ==
  ASSUME Reports!TypeOK, NEW found \in Reports!Table, Safe(found),
         rows' = Reports!Deleted(found), UNCHANGED files
  PROVE  /\ \A f \in DOMAIN rows' : f \in DOMAIN rows /\ rows'[f] = rows[f]
         /\ \A f \in DOMAIN rows \ DOMAIN rows' : f \in DOMAIN files' => InHand(f) \/ torn
<1>1. /\ \A f : f \in DOMAIN Reports!Deleted(found) <=>
                  f \in DOMAIN rows /\ ~(f \in DOMAIN found /\ rows[f] = found[f])
      /\ \A f \in DOMAIN Reports!Deleted(found) : Reports!Deleted(found)[f] = rows[f]
  BY Purged
<1>2. /\ \A f : f \in DOMAIN rows' <=>
                  f \in DOMAIN rows /\ ~(f \in DOMAIN found /\ rows[f] = found[f])
      /\ \A f \in DOMAIN rows' : rows'[f] = rows[f]
  BY <1>1
<1>. QED
  BY <1>2 DEF Safe

\* What another attempt than w has in hand it keeps.
LEMMA InOthersHands ==
  ASSUME NEW w \in Worker, \A v \in Worker \ {w} : gen'[v] = gen[v]
  PROVE  /\ \A f : InHand(f) => InHand(f)' \/ (gen[w].at = "put" /\ f \in gen[w].put)
         /\ gen[w].at # "put" => \A f : InHand(f) => InHand(f)'
BY DEF InHand

\* An attempt that has nothing in hand may unlink files, or take the rows of its purge.
LEMMA EmptyHanded ==
  ASSUME Reports!TypeOK, ReportInv, NEW w \in Worker, gen[w].at # "put", UNCHANGED torn,
         \A v \in Worker \ {w} : gen'[v] = gen[v],
         \/ UNCHANGED rows /\ DOMAIN files' \subseteq DOMAIN files
         \/ UNCHANGED files /\ Purges(w) /\ rows' = Reports!Deleted(gen[w].found)
  PROVE  Careful
<1>1. \A f : InHand(f) => InHand(f)'
  BY InOthersHands
<1>2. CASE UNCHANGED rows /\ DOMAIN files' \subseteq DOMAIN files
  BY <1>1, <1>2 DEF Careful
<1>3. CASE UNCHANGED files /\ Purges(w) /\ rows' = Reports!Deleted(gen[w].found)
  <2>1. gen[w].found \in Reports!Table /\ Safe(gen[w].found)
    BY <1>3, AttemptParts DEF ReportInv, PurgesAreSafe
  <2>2. PICK found \in Reports!Table : found = gen[w].found
    BY <2>1
  <2>3. Safe(found) /\ rows' = Reports!Deleted(found)
    BY <1>3, <2>1, <2>2
  <2>. QED
    BY <1>1, <1>3, <2>3, TakenRows DEF Careful
<1>. QED
  BY <1>2, <1>3

\* An attempt that does not publish is careful.
LEMMA AttemptIsCareful ==
  ASSUME Reports!TypeOK, ReportInv, NEW w \in Worker, Attempts(w), ~Reports!Publish(w)
  PROVE  Careful
<1>. USE DEF Reports!people, Reports!Go, Reports!At
<1>1. rows \in Reports!Table /\ files \in Reports!Table
  BY DEF Reports!TypeOK
<1>2. \A v \in Worker \ {w} : gen'[v] = gen[v]
  BY DEF Attempts, Reports!Begin, Reports!Run, Reports!Read, Reports!Purge, Reports!Purged,
    Reports!Put, Reports!Fail, Reports!Clear, Reports!Cleared, Reports!Killed, Reports!TypeOK
<1>3. CASE Reports!Begin(w)
  <2>1. PICK found \in {rows, Reports!Nothing} : files' = Reports!Unlinked(found)
    BY <1>3 DEF Reports!Begin
  <2>2. DOMAIN files' \subseteq DOMAIN files
    BY <2>1 DEF Reports!Unlinked, Reports!Without, Reports!Restrict
  <2>. QED
    BY <1>2, <1>3, <2>2, EmptyHanded DEF Reports!Begin
<1>4. CASE Reports!Purge(w) \/ Reports!Clear(w)
  <2>1. DOMAIN files' \subseteq DOMAIN files
    BY <1>4 DEF Reports!Purge, Reports!Clear, Reports!Unlinked, Reports!Without, Reports!Restrict
  <2>. QED
    BY <1>2, <1>4, <2>1, EmptyHanded DEF Reports!Purge, Reports!Clear
<1>5. CASE Reports!Read(w)
  BY <1>2, <1>5, EmptyHanded DEF Reports!Read
<1>6. CASE Reports!Run(w)
  BY <1>2, <1>6, EmptyHanded DEF Reports!Run, Purges
<1>7. CASE Reports!Purged(w)
  BY <1>2, <1>7, EmptyHanded DEF Reports!Purged, Purges
<1>8. CASE Reports!Cleared(w)
  BY <1>2, <1>8, EmptyHanded DEF Reports!Cleared, Purges
<1>9. ASSUME NEW f \in Format, Reports!Put(w, f) PROVE Careful
  <2>1. /\ gen[w].at = "put" /\ gen'[w] = [gen[w] EXCEPT !.put = @ \cup {f}]
        /\ DOMAIN files' = DOMAIN files \cup {f} /\ UNCHANGED <<rows, torn>>
    BY <1>9 DEF Reports!Put, Reports!TypeOK
  <2>2. gen'[w].at = "put" /\ gen'[w].put = gen[w].put \cup {f}
    <3>1. gen[w] \in [at : {"put"}, by : 1..MaxBegun, of : SUBSET Peer, put : SUBSET Format]
      BY <2>1 DEF Reports!TypeOK, Reports!Attempt, Reports!Idle
    <3>. QED
      BY <2>1, <3>1
  <2>3. InHand(f)' /\ \A g : InHand(g) => InHand(g)'
    BY <1>2, <2>1, <2>2 DEF InHand
  <2>. QED
    BY <2>1, <2>3 DEF Careful
<1>10. CASE Reports!Fail(w)
  <2>1. DOMAIN files' = DOMAIN files \ gen[w].put /\ UNCHANGED <<rows, torn>>
    BY <1>10 DEF Reports!Fail, Reports!Kept, Reports!Without, Reports!Restrict
  <2>. QED
    BY <1>2, <2>1, InOthersHands DEF Careful
<1>11. CASE Reports!Killed(w)
  BY <1>11 DEF Reports!Killed, Careful
<1>. QED
  BY <1>3, <1>4, <1>5, <1>6, <1>7, <1>8, <1>9, <1>10, <1>11 DEF Attempts

\* An attempt goes on as itself.
LEMMA AttemptIsSteady ==
  ASSUME Reports!TypeOK, NEW w \in Worker, Attempts(w)
  PROVE  Steady(w)
<1>. USE DEF Reports!people, Reports!Go, Reports!At
<1>1. \A v \in Worker \ {w} : gen'[v] = gen[v]
  BY DEF Attempts, Reports!Begin, Reports!Run, Reports!Read, Reports!Purge, Reports!Purged,
    Reports!Publish, Reports!Put, Reports!Fail, Reports!Clear, Reports!Cleared, Reports!Killed,
    Reports!TypeOK
<1>2. CASE Reports!Begin(w)
  BY <1>1, <1>2 DEF Reports!Begin, Steady, Reports!TypeOK
<1>3. CASE Reports!Run(w)
  BY <1>1, <1>3 DEF Reports!Run, Steady, Reports!TypeOK, Rendering, Reports!Idle
<1>4. CASE Reports!Read(w)
  BY <1>1, <1>4 DEF Reports!Read, Steady, Reports!TypeOK, Rendering
<1>5. CASE Reports!Purge(w) \/ Reports!Purged(w)
  BY <1>1, <1>5 DEF Reports!Purge, Reports!Purged, Steady, Reports!TypeOK, Rendering
<1>6. ASSUME NEW f \in Format, Reports!Put(w, f) PROVE Steady(w)
  <2>1. /\ gen[w].at = "put" /\ gen'[w] = [gen[w] EXCEPT !.put = @ \cup {f}]
        /\ UNCHANGED begun
    BY <1>6 DEF Reports!Put, Reports!TypeOK
  <2>2. gen'[w].by = gen[w].by
    <3>1. gen[w] \in [at : {"put"}, by : 1..MaxBegun, of : SUBSET Peer, put : SUBSET Format]
      BY <2>1 DEF Reports!TypeOK, Reports!Attempt, Reports!Idle
    <3>. QED
      BY <2>1, <3>1
  <2>. QED
    BY <1>1, <2>1, <2>2 DEF Steady, Rendering
<1>7. CASE Reports!Publish(w) \/ Reports!Cleared(w) \/ Reports!Killed(w)
  BY <1>1, <1>7 DEF Reports!Publish, Reports!Cleared, Reports!Killed, Steady, Reports!TypeOK,
    Rendering, Reports!Idle
<1>8. CASE Reports!Fail(w) \/ Reports!Clear(w)
  BY <1>1, <1>8 DEF Reports!Fail, Reports!Clear, Steady, Reports!TypeOK, Rendering, Reports!Idle
<1>. QED
  BY <1>2, <1>3, <1>4, <1>5, <1>6, <1>7, <1>8 DEF Attempts

\* An attempt that purges has just unlinked what it found, or did so before.
LEMMA AttemptPurges ==
  ASSUME Reports!TypeOK, NEW w \in Worker, Attempts(w), NEW v \in Worker, Purges(v)'
  PROVE  \/ Purges(v) /\ gen'[v].found = gen[v].found
         \/ \E c : c = gen'[v].found /\ Began(c)
<1>. USE DEF Reports!people, Reports!Go, Reports!At
<1>1. CASE v # w
  <2>1. gen'[v] = gen[v]
    BY <1>1, AttemptIsSteady DEF Steady
  <2>. QED
    BY <2>1 DEF Purges
<1>2. CASE v = w
  <2>1. CASE Reports!Begin(w)
    BY <1>2, <2>1 DEF Reports!Begin, Began, Reports!TypeOK
  <2>2. CASE Reports!Purge(w)
    BY <1>2, <2>2 DEF Reports!Purge, Began, Reports!TypeOK
  <2>3. CASE Reports!Clear(w)
    BY <1>2, <2>3 DEF Reports!Clear, Began, Reports!TypeOK, Purges, Reports!Idle
  <2>4. CASE Reports!Run(w) \/ Reports!Read(w) \/ Reports!Purged(w)
    BY <1>2, <2>4 DEF Reports!Run, Reports!Read, Reports!Purged, Reports!TypeOK, Purges,
      Reports!Idle
  <2>5. CASE Reports!Publish(w) \/ Reports!Fail(w) \/ Reports!Cleared(w) \/ Reports!Killed(w)
    BY <1>2, <2>5 DEF Reports!Publish, Reports!Fail, Reports!Cleared, Reports!Killed,
      Reports!TypeOK, Purges, Reports!Idle
  <2>6. ASSUME NEW f \in Format, Reports!Put(w, f) PROVE ~Purges(w)'
    <3>1. gen[w].at = "put" /\ gen'[w] = [gen[w] EXCEPT !.put = @ \cup {f}]
      BY <2>6 DEF Reports!Put, Reports!TypeOK
    <3>2. gen[w] \in [at : {"put"}, by : 1..MaxBegun, of : SUBSET Peer, put : SUBSET Format]
      BY <3>1 DEF Reports!TypeOK, Reports!Attempt, Reports!Idle
    <3>. QED
      BY <3>1, <3>2 DEF Purges
  <2>. QED
    BY <1>2, <2>1, <2>2, <2>3, <2>4, <2>5, <2>6 DEF Attempts
<1>. QED
  BY <1>1, <1>2

\* An attempt that publishes names every file, in rows that nobody found before.
LEMMA PublishStep ==
  ASSUME Reports!TypeOK, ReportInv, NEW w \in Worker, Reports!Publish(w)
  PROVE  FilesAreNamed' /\ PurgesAreSafe' /\ AttemptsDiffer'
<1>1. /\ gen[w].at = "put" /\ rows' = [f \in Format |-> Reports!Rendered(w)]
      /\ gen' = [gen EXCEPT ![w] = Reports!Idle]
      /\ UNCHANGED <<files, begun, visit, torn>>
  BY DEF Reports!Publish, Reports!At, Reports!Go
<1>2. Steady(w) /\ ~Rendering(w)' /\ ~Purges(w)'
  BY <1>1, AttemptIsSteady DEF Attempts, Rendering, Purges, Reports!Idle, Reports!TypeOK
<1>3. /\ gen[w].by \in Nat /\ gen[w].by <= begun
      /\ \A v \in Worker \ {w} : Rendering(v) => gen[v].by # gen[w].by
  BY <1>1, AttemptParts DEF ReportInv, AttemptsDiffer, Rendering
<1>4. \A f \in Format : f \in DOMAIN rows' /\ rows'[f].by = gen[w].by
  BY <1>1 DEF Reports!Rendered
<1>5. DOMAIN rows' = Format
  BY <1>1
<1>6. \A v \in Worker : Purges(v)' => /\ v # w /\ Purges(v) /\ gen'[v] = gen[v]
                                     /\ gen[v].found \in Reports!Table /\ Past(gen[v].found)
  BY <1>2, AttemptParts DEF Steady, Purges, ReportInv, AttemptsDiffer
<1>7. VisitPurges' => /\ VisitPurges /\ visit' = visit
                      /\ visit.found \in Reports!Table /\ Past(visit.found)
  BY <1>1, VisitParts DEF VisitPurges, ReportInv, AttemptsDiffer
<1>8. FilesAreNamed'
  <2>1. DOMAIN files \subseteq Format
    BY Tables DEF Reports!TypeOK
  <2>. QED
    BY <1>1, <1>5, <2>1 DEF FilesAreNamed
<1>9. ASSUME NEW found \in Reports!Table, Past(found) PROVE Safe(found)' /\ Past(found)'
  <2>1. \A f \in DOMAIN found : found[f].by # gen[w].by
    BY <1>1, <1>9 DEF Past, Rendering
  <2>2. Safe(found)'
    BY <1>4, <1>5, <2>1 DEF Safe
  <2>. QED
    BY <1>2, <1>9, <2>2, PastStep
<1>10. ASSUME NEW v \in Worker, Purges(v)' PROVE (Past(gen[v].found) /\ Safe(gen[v].found))'
  <2>1. PICK c \in Reports!Table : c = gen[v].found
    BY <1>6, <1>10
  <2>2. Past(c) /\ c = gen'[v].found
    BY <1>6, <1>10, <2>1 DEF Past
  <2>3. Past(c)' /\ Safe(c)'
    BY <1>9, <2>2
  <2>. QED
    BY <2>2, <2>3 DEF Past, Safe
<1>11. ASSUME VisitPurges' PROVE (Past(visit.found) /\ Safe(visit.found))'
  <2>1. PICK c \in Reports!Table : c = visit.found
    BY <1>7, <1>11
  <2>2. Past(c) /\ c = visit'.found
    BY <1>7, <1>11, <2>1 DEF Past
  <2>3. Past(c)' /\ Safe(c)'
    BY <1>9, <2>2
  <2>. QED
    BY <2>2, <2>3 DEF Past, Safe
<1>12. Past(rows)'
  <2>1. begun' = begun /\ \A v \in Worker : Rendering(v)' => v # w /\ Rendering(v) /\ gen'[v] = gen[v]
    BY <1>1, <1>2 DEF Steady, Rendering
  <2>. QED
    BY <1>3, <1>4, <1>5, <2>1 DEF Past
<1>13. AttemptsDiffer'
  BY <1>2, <1>10, <1>11, <1>12, DifferentAttempts DEF AttemptsDiffer, ReportInv
<1>. QED
  BY <1>8, <1>10, <1>11, <1>13 DEF PurgesAreSafe

\* A visit is careful, and purges what it has just unlinked, or did so before.
LEMMA VisitIsCareful ==
  ASSUME Reports!TypeOK, ReportInv, Visits
  PROVE  /\ Careful /\ UNCHANGED <<gen, begun>>
         /\ VisitPurges' => \/ VisitPurges /\ visit'.found = visit.found
                            \/ \E c : c = visit'.found /\ Began(c)
<1>. USE DEF Reports!people
<1>1. UNCHANGED <<gen, begun>>
  BY DEF Visits, Reports!Look, Reports!Remove, Reports!Visit, Reports!ReadFile, Reports!Unlink,
    Reports!Commit, Reports!Abandoned, Reports!FindRow
<1>2. \A f : InHand(f)' <=> InHand(f)
  BY <1>1 DEF InHand
<1>3. CASE UNCHANGED <<rows, files, torn>> /\ (visit' # None => visit'.at # "commit")
  BY <1>1, <1>2, <1>3 DEF Careful, VisitPurges
<1>4. CASE Reports!Look \/ Reports!Remove
  BY <1>3, <1>4 DEF Reports!Look, Reports!Remove, Reports!Visit
<1>5. CASE Reports!ReadFile \/ Reports!Abandoned
  BY <1>3, <1>5 DEF Reports!ReadFile, Reports!Abandoned
<1>6. ASSUME NEW f \in Format, Reports!FindRow(f) PROVE UNCHANGED <<rows, files, torn>> /\ (visit' # None => visit'.at # "commit")
  BY <1>6 DEF Reports!FindRow
<1>7. CASE Reports!Unlink
  <2>1. /\ UNCHANGED <<rows, torn>> /\ DOMAIN files' \subseteq DOMAIN files
        /\ visit'.found = rows /\ files' = Reports!Unlinked(rows)
    BY <1>7 DEF Reports!Unlink, Reports!Unlinked, Reports!Without, Reports!Restrict
  <2>2. Careful
    BY <1>2, <2>1 DEF Careful
  <2>3. \E c : c = visit'.found /\ Began(c)
    BY <2>1 DEF Began
  <2>. QED
    BY <1>1, <2>2, <2>3
<1>8. CASE Reports!Commit
  <2>1. /\ visit' = None /\ UNCHANGED files /\ visit.found \in Reports!Table /\ Safe(visit.found)
    BY <1>8, VisitParts DEF Reports!Commit, ReportInv, PurgesAreSafe, VisitPurges
  <2>2. CASE UNCHANGED torn /\ rows' = Reports!Deleted(visit.found)
    <3>1. PICK found \in Reports!Table : found = visit.found
      BY <2>1
    <3>2. Safe(found) /\ rows' = Reports!Deleted(found)
      BY <2>1, <2>2, <3>1
    <3>3. Careful
      BY <1>2, <2>1, <2>2, <3>2, TakenRows DEF Careful
    <3>. QED
      BY <1>1, <2>1, <3>3 DEF VisitPurges
  <2>3. CASE /\ rows' = Reports!Nothing
             /\ torn' = (torn \/ rows # visit.found \/ \E w \in Worker : ~Reports!At(w, "idle"))
    <3>1. DOMAIN rows' = {}
      BY <2>3 DEF Reports!Nothing
    <3>2. ASSUME NEW f \in DOMAIN rows, f \in DOMAIN files PROVE InHand(f) \/ torn'
      <4>1. rows # visit.found => torn'
        BY <2>3
      <4>2. rows = visit.found => InHand(f) \/ torn
        BY <2>1, <3>2 DEF Safe
      <4>3. torn => torn'
        BY <2>3
      <4>. QED
        BY <4>1, <4>2, <4>3
    <3>3. torn => torn'
      BY <2>3
    <3>4. Careful
      BY <1>2, <2>1, <3>1, <3>2, <3>3 DEF Careful
    <3>. QED
      BY <1>1, <2>1, <3>4 DEF VisitPurges
  <2>. QED
    BY <1>8, <2>2, <2>3 DEF Reports!Commit
<1>. QED
  BY <1>3, <1>4, <1>5, <1>6, <1>7, <1>8 DEF Visits

\* Every step keeps the files named, the purges safe and the attempts different.
LEMMA FilesStep ==
  ASSUME Reports!TypeOK, ReportInv, [Reports!Next]_(Reports!vars)
  PROVE  FilesAreNamed' /\ PurgesAreSafe' /\ AttemptsDiffer'
<1>1. CASE UNCHANGED <<rows, files, gen, begun, visit, torn>>
  BY <1>1 DEF ReportInv, FilesAreNamed, PurgesAreSafe, AttemptsDiffer, Safe, Past, InHand,
    Rendering, Purges, VisitPurges
<1>2. CASE People \/ Rows
  BY <1>1, <1>2 DEF People, Rows, Reports!Withdraw, Reports!Grant, Reports!Withdrawn,
    Reports!Create, Reports!Expire, Reports!people
<1>3. ASSUME NEW w \in Worker, Attempts(w)
      PROVE  FilesAreNamed' /\ PurgesAreSafe' /\ AttemptsDiffer'
  <2>1. CASE Reports!Publish(w)
    BY <2>1, PublishStep
  <2>2. CASE ~Reports!Publish(w)
    <3>1. UNCHANGED visit
      BY <1>3 DEF Attempts, Reports!Begin, Reports!Run, Reports!Read, Reports!Purge,
        Reports!Purged, Reports!Publish, Reports!Put, Reports!Fail, Reports!Clear,
        Reports!Cleared, Reports!Killed
    <3>2. VisitPurges' => VisitPurges /\ visit'.found = visit.found
      BY <3>1 DEF VisitPurges
    <3>3. Careful /\ Steady(w)
      BY <1>3, <2>2, AttemptIsCareful, AttemptIsSteady
    <3>4. \A v \in Worker : Purges(v)' => \/ Purges(v) /\ gen'[v].found = gen[v].found
                                          \/ \E c : c = gen'[v].found /\ Began(c)
      BY <1>3, AttemptPurges
    <3>. QED
      BY <3>2, <3>3, <3>4, CarefulStep
  <2>. QED
    BY <2>1, <2>2
<1>4. CASE Visits
  <2>1. /\ Careful /\ UNCHANGED <<gen, begun>>
        /\ VisitPurges' => \/ VisitPurges /\ visit'.found = visit.found
                           \/ \E c : c = visit'.found /\ Began(c)
    BY <1>4, VisitIsCareful
  <2>2. Steady(None)
    BY <2>1 DEF Steady, Rendering
  <2>3. \A v \in Worker : Purges(v)' => Purges(v) /\ gen'[v].found = gen[v].found
    BY <2>1 DEF Purges
  <2>. QED
    BY <2>1, <2>2, <2>3, CarefulStep
<1>5. CASE UNCHANGED Reports!vars
  BY <1>1, <1>5 DEF Reports!vars
<1>. QED
  BY <1>2, <1>3, <1>4, <1>5, ReportSteps

\* A report is created once, and stays what it was created as.
LEMMA ReportStays ==
  ASSUME Reports!TypeOK, [Reports!Next]_(Reports!vars)
  PROVE  \/ /\ \E p \in SUBSET Peer : Reports!Create(p)
            /\ report = None /\ UNCHANGED <<files, gen, visit>>
         \/ /\ report' = None => UNCHANGED report
            /\ Reports!Exists' => /\ Reports!Exists
                                  /\ report'.scope = report.scope
                                  /\ report'.created = report.created
<1>. USE NoReportAssumption
<1>. USE DEF Reports!people
<1>1. CASE UNCHANGED report
  BY <1>1 DEF Reports!Exists
<1>2. ASSUME NEW s, report' = [report EXCEPT !.status = s], s \in {"running", "success", "failed"},
             Reports!Exists
      PROVE  /\ report' # None /\ report'.scope = report.scope
             /\ report'.created = report.created
  <2>1. report \in Reports!Report /\ report' \in Reports!Report
    BY <1>2, ReportRow
  <2>. QED
    BY <1>2, <2>1 DEF Reports!Report
<1>3. ASSUME NEW p \in SUBSET Peer, Reports!Create(p)
      PROVE  report = None /\ UNCHANGED <<files, gen, visit>>
  BY <1>3 DEF Reports!Create
<1>4. CASE Reports!Expire
  <2>1. report \in Reports!Report /\ report' \in Reports!Report /\ Reports!Exists
    BY <1>4, ReportRow DEF Reports!Expire
  <2>. QED
    BY <1>4, <2>1 DEF Reports!Expire, Reports!Report
<1>5. CASE People
  BY <1>1, <1>5 DEF People, Reports!Withdraw, Reports!Grant, Reports!Withdrawn
<1>6. ASSUME NEW w \in Worker, Attempts(w)
      PROVE  \/ UNCHANGED report
             \/ \E s \in {"running", "success", "failed"} :
                  Reports!Exists /\ report' = [report EXCEPT !.status = s]
  BY <1>6 DEF Attempts, Reports!Begin, Reports!Run, Reports!Read, Reports!Purge,
    Reports!Purged, Reports!Publish, Reports!Put, Reports!Fail, Reports!Clear,
    Reports!Cleared, Reports!Killed
<1>7. CASE Visits
  <2>1. UNCHANGED report \/ report' = Reports!Gone
    BY <1>7 DEF Visits, Reports!Look, Reports!Remove, Reports!Visit, Reports!ReadFile,
      Reports!Unlink, Reports!Commit, Reports!Abandoned, Reports!FindRow
  <2>. QED
    BY <1>1, <2>1 DEF Reports!Exists
<1>8. CASE UNCHANGED Reports!vars
  BY <1>1, <1>8 DEF Reports!vars
<1>9. Peer \in SUBSET Peer /\ \A p \in Peer : {p} \in SUBSET Peer
  OBVIOUS
<1>10. CASE Rows
  BY <1>3, <1>4, <1>9, <1>10 DEF Rows
<1>. QED
  BY <1>1, <1>2, <1>5, <1>6, <1>7, <1>8, <1>10, ReportSteps

\* Nothing happens to a report before there is one.
LEMMA NothingBeforeStep ==
  ASSUME Reports!TypeOK, ReportInv, [Reports!Next]_(Reports!vars)
  PROVE  NothingBefore'
<1>. USE NoReportAssumption
<1>. USE DEF Reports!people
<1>1. SUFFICES ASSUME report' = None PROVE NothingBefore'
  BY DEF NothingBefore
<1>2. report = None
  <2>1. ASSUME NEW p \in SUBSET Peer, Reports!Create(p) PROVE FALSE
    <3>1. time + 1 \in 1..MaxTime
      BY <2>1 DEF Reports!Create, Reports!TypeOK
    <3>2. [status |-> "queued", created |-> time + 1, scope |-> p, expired |-> FALSE]
            \in Reports!Report
      BY <3>1 DEF Reports!Report
    <3>. QED
      BY <1>1, <2>1, <3>2 DEF Reports!Create
  <2>. QED
    BY <1>1, <2>1, ReportStays
<1>3. /\ visit = None /\ DOMAIN files = {} /\ \A w \in Worker : gen[w] = Reports!Idle
      /\ ~Reports!Exists
  BY <1>2 DEF ReportInv, NothingBefore, Reports!Exists
<1>4. UNCHANGED <<visit, files, gen>>
  <2>1. ASSUME NEW w \in Worker, Attempts(w) PROVE FALSE
    <3>1. gen[w].at = "idle" /\ ~Reports!Exists
      BY <1>3 DEF Reports!Idle
    <3>2. ~Reports!Begin(w)
      BY <3>1 DEF Reports!Begin, Reports!Accepted
    <3>3. /\ ~Reports!Run(w) /\ ~Reports!Read(w) /\ ~Reports!Purge(w) /\ ~Reports!Purged(w)
          /\ ~Reports!Publish(w) /\ \A f \in Format : ~Reports!Put(w, f)
      BY <3>1 DEF Reports!Run, Reports!Read, Reports!Purge, Reports!Purged, Reports!Publish,
        Reports!Put, Reports!At
    <3>4. ~Reports!Fail(w) /\ ~Reports!Clear(w) /\ ~Reports!Cleared(w) /\ ~Reports!Killed(w)
      BY <3>1 DEF Reports!Fail, Reports!Clear, Reports!Cleared, Reports!Killed, Reports!At
    <3>. QED
      BY <2>1, <3>2, <3>3, <3>4 DEF Attempts
  <2>2. ~Visits
    BY <1>3 DEF Visits, Reports!Look, Reports!Remove, Reports!Visit, Reports!ReadFile,
      Reports!Unlink, Reports!Commit, Reports!Abandoned, Reports!FindRow
  <2>3. CASE People \/ Rows
    BY <2>3 DEF People, Rows, Reports!Withdraw, Reports!Grant, Reports!Withdrawn,
      Reports!Create, Reports!Expire
  <2>4. CASE UNCHANGED Reports!vars
    BY <2>4 DEF Reports!vars
  <2>. QED
    BY <2>1, <2>2, <2>3, <2>4, ReportSteps
<1>. QED
  BY <1>3, <1>4 DEF NothingBefore

\* An attempt renders what the report includes.
LEMMA AttemptInScope ==
  ASSUME Reports!TypeOK, NEW w \in Worker, Attempts(w), NEW S,
         \A f \in DOMAIN files : files[f].of \subseteq S,
         \A v \in Worker : gen[v].at \in {"purge", "commit", "put"} => gen[v].of \subseteq S,
         Reports!Included \subseteq S
  PROVE  /\ \A f \in DOMAIN files' : files'[f].of \subseteq S
         /\ \A v \in Worker : gen'[v].at \in {"purge", "commit", "put"} => gen'[v].of \subseteq S
<1>. USE DEF Reports!people, Reports!Go, Reports!At
<1>1. /\ rows \in Reports!Table /\ files \in Reports!Table
      /\ \A v \in Worker \ {w} : gen'[v] = gen[v]
  BY AttemptIsSteady DEF Reports!TypeOK, Steady
<1>2. ASSUME gen'[w].at \in {"purge", "commit", "put"} => gen'[w].of \subseteq S
      PROVE  \A v \in Worker : gen'[v].at \in {"purge", "commit", "put"} => gen'[v].of \subseteq S
  BY <1>1, <1>2
<1>3. ASSUME \A f \in DOMAIN files' : f \in DOMAIN files /\ files'[f] = files[f]
      PROVE  \A f \in DOMAIN files' : files'[f].of \subseteq S
  BY <1>3
<1>4. ASSUME NEW found, files' = Reports!Unlinked(found)
      PROVE  \A f \in DOMAIN files' : f \in DOMAIN files /\ files'[f] = files[f]
  BY <1>4 DEF Reports!Unlinked, Reports!Without, Reports!Restrict
<1>5. CASE Reports!Begin(w)
  BY <1>2, <1>3, <1>4, <1>5 DEF Reports!Begin, Reports!TypeOK
<1>6. CASE Reports!Run(w)
  BY <1>2, <1>3, <1>6 DEF Reports!Run, Reports!TypeOK, Reports!Idle
<1>7. CASE Reports!Read(w)
  BY <1>2, <1>3, <1>7 DEF Reports!Read, Reports!TypeOK
<1>8. CASE Reports!Purge(w)
  BY <1>2, <1>3, <1>4, <1>8 DEF Reports!Purge, Reports!TypeOK
<1>9. CASE Reports!Purged(w)
  BY <1>2, <1>3, <1>9 DEF Reports!Purged, Reports!TypeOK
<1>10. ASSUME NEW f \in Format, Reports!Put(w, f)
       PROVE  /\ \A g \in DOMAIN files' : files'[g].of \subseteq S
              /\ gen'[w].at \in {"purge", "commit", "put"} => gen'[w].of \subseteq S
  <2>1. /\ gen[w].at = "put" /\ gen'[w] = [gen[w] EXCEPT !.put = @ \cup {f}]
        /\ files' = [g \in DOMAIN files \cup {f} |->
                       IF g = f THEN Reports!Rendered(w) ELSE files[g]]
    BY <1>10 DEF Reports!Put, Reports!TypeOK
  <2>2. gen[w] \in [at : {"put"}, by : 1..MaxBegun, of : SUBSET Peer, put : SUBSET Format]
    BY <2>1 DEF Reports!TypeOK, Reports!Attempt, Reports!Idle
  <2>3. gen'[w].of = gen[w].of /\ Reports!Rendered(w).of = gen[w].of
    BY <2>1, <2>2 DEF Reports!Rendered
  <2>. QED
    BY <2>1, <2>3
<1>11. CASE Reports!Publish(w) \/ Reports!Cleared(w) \/ Reports!Killed(w)
  BY <1>2, <1>3, <1>11 DEF Reports!Publish, Reports!Cleared, Reports!Killed, Reports!TypeOK,
    Reports!Idle
<1>12. CASE Reports!Fail(w)
  BY <1>2, <1>3, <1>12 DEF Reports!Fail, Reports!Kept, Reports!Without, Reports!Restrict,
    Reports!TypeOK
<1>13. CASE Reports!Clear(w)
  BY <1>2, <1>3, <1>4, <1>13 DEF Reports!Clear, Reports!TypeOK, Reports!Idle
<1>. QED
  BY <1>2, <1>5, <1>6, <1>7, <1>8, <1>9, <1>10, <1>11, <1>12, <1>13 DEF Attempts

\* The files of a report stay in its scope.
LEMMA ScopeStep ==
  ASSUME Reports!TypeOK, ReportInv, [Reports!Next]_(Reports!vars)
  PROVE  FilesAreInScope'
<1>. USE DEF Reports!people
<1>1. SUFFICES ASSUME Reports!Exists'
               PROVE  /\ \A f \in DOMAIN files' : files'[f].of \subseteq report'.scope
                      /\ \A w \in Worker : gen'[w].at \in {"purge", "commit", "put"} =>
                           gen'[w].of \subseteq report'.scope
  BY DEF FilesAreInScope
<1>2. CASE report = None /\ UNCHANGED <<files, gen, visit>>
  BY <1>2 DEF ReportInv, NothingBefore, Reports!Idle
<1>3. CASE Reports!Exists /\ report'.scope = report.scope
  <2>1. /\ \A f \in DOMAIN files : files[f].of \subseteq report.scope
        /\ \A w \in Worker : gen[w].at \in {"purge", "commit", "put"} =>
             gen[w].of \subseteq report.scope
    BY <1>3 DEF ReportInv, FilesAreInScope
  <2>2. CASE UNCHANGED <<files, gen>>
    BY <1>3, <2>1, <2>2
  <2>3. CASE People \/ Rows
    BY <2>2, <2>3 DEF People, Rows, Reports!Withdraw, Reports!Grant, Reports!Withdrawn,
      Reports!Create, Reports!Expire
  <2>4. ASSUME NEW w \in Worker, Attempts(w)
        PROVE  /\ \A f \in DOMAIN files' : files'[f].of \subseteq report.scope
               /\ \A v \in Worker : gen'[v].at \in {"purge", "commit", "put"} =>
                    gen'[v].of \subseteq report.scope
    <3>1. Reports!Included \subseteq report.scope
      BY DEF Reports!Included
    <3>. QED
      BY <2>1, <2>4, <3>1, AttemptInScope
  <2>5. CASE Reports!Unlink
    BY <1>3, <2>1, <2>5 DEF Reports!Unlink, Reports!Unlinked, Reports!Without, Reports!Restrict
  <2>6. CASE Visits /\ ~Reports!Unlink
    BY <2>2, <2>6 DEF Visits, Reports!Look, Reports!Remove, Reports!Visit, Reports!ReadFile,
      Reports!Commit, Reports!Abandoned, Reports!FindRow
  <2>7. CASE UNCHANGED Reports!vars
    BY <2>2, <2>7 DEF Reports!vars
  <2>. QED
    BY <1>3, <2>3, <2>4, <2>5, <2>6, <2>7, ReportSteps
<1>. QED
  BY <1>1, <1>2, <1>3, ReportStays

\* A visit that goes on knows what it found.
LEMMA ValidStep ==
  ASSUME Reports!TypeOK, ReportInv, [Reports!Next]_(Reports!vars)
  PROVE  VisitsAreValid'
<1>. USE DEF Reports!people
<1>1. SUFFICES ASSUME Reports!Exists', visit' # None, visit'.at \in {"row", "file"}
               PROVE  \A d \in visit'.known :
                        d.at > report'.created => d.who \notin report'.scope
  BY DEF VisitsAreValid
<1>2. CASE report = None /\ UNCHANGED <<files, gen, visit>>
  BY <1>1, <1>2 DEF ReportInv, NothingBefore
<1>3. CASE /\ Reports!Exists /\ report'.scope = report.scope
           /\ report'.created = report.created
  <2>1. CASE visit # None /\ visit.at \in {"row", "file"} /\ visit'.known = visit.known
    BY <1>3, <2>1 DEF ReportInv, VisitsAreValid
  <2>2. ASSUME NEW kind, Reports!Visit(kind)
        PROVE  \A d \in visit'.known : d.at > report.created => d.who \notin report.scope
    BY <1>1, <2>2 DEF Reports!Visit, Reports!Invalid, Reports!Revoked
  <2>3. ASSUME NEW f \in Format, Reports!FindRow(f)
        PROVE  visit # None /\ visit.at \in {"row", "file"} /\ visit'.known = visit.known
    BY <1>1, <2>3 DEF Reports!FindRow
  <2>4. ~Reports!ReadFile /\ ~Reports!Unlink /\ ~Reports!Commit /\ ~Reports!Abandoned
    BY <1>1 DEF Reports!ReadFile, Reports!Unlink, Reports!Commit, Reports!Abandoned
  <2>5. CASE UNCHANGED visit
    BY <1>1, <2>1, <2>5
  <2>6. CASE People \/ Rows
    BY <2>5, <2>6 DEF People, Rows, Reports!Withdraw, Reports!Grant, Reports!Withdrawn,
      Reports!Create, Reports!Expire
  <2>7. ASSUME NEW w \in Worker, Attempts(w) PROVE UNCHANGED visit
    BY <2>7 DEF Attempts, Reports!Begin, Reports!Run, Reports!Read, Reports!Purge,
      Reports!Purged, Reports!Publish, Reports!Put, Reports!Fail, Reports!Clear,
      Reports!Cleared, Reports!Killed
  <2>8. CASE UNCHANGED Reports!vars
    BY <2>5, <2>8 DEF Reports!vars
  <2>. QED
    BY <1>3, <2>1, <2>2, <2>3, <2>4, <2>5, <2>6, <2>7, <2>8, ReportSteps
      DEF Visits, Reports!Look, Reports!Remove
<1>. QED
  BY <1>1, <1>2, <1>3, ReportStays

\* A behaviour of the conversations is, for the report, one of its own.
LEMMA ReportInvariance == ConversationsSpec => [](Reports!TypeOK /\ ReportInv)
<1>1. ConversationsInit => Reports!TypeOK /\ ReportInv
  <2>1. Reports!Nothing \in Reports!Table
    <3>1. Reports!Nothing \in [{} -> Reports!Bytes] /\ {} \in SUBSET Format
      BY DEF Reports!Nothing
    <3>. QED
      BY <3>1, Tables
  <2>2. ConversationsInit => Reports!TypeOK
    <3>1. ConversationsInit => /\ files \in Reports!Table /\ rows \in Reports!Table
                               /\ gen \in [Worker -> Reports!Attempt]
      BY <2>1 DEF ConversationsInit, Reports!Init, Reports!Attempt
    <3>2. ConversationsInit => /\ time \in 0..MaxTime /\ begun \in 0..MaxBegun
                               /\ torn \in BOOLEAN /\ granted \subseteq Peer
      <4>1. ConversationsInit => time = 0 /\ begun = 0 /\ torn = FALSE /\ granted = Peer
        BY DEF ConversationsInit, Reports!Init
      <4>2. 0 \in 0..MaxTime /\ 0 \in 0..MaxBegun
        OBVIOUS
      <4>. QED
        BY <4>1, <4>2
    <3>3. ConversationsInit => /\ deciding = None /\ withdrawn = {}
                               /\ report = None /\ visit = None
      BY DEF ConversationsInit, Reports!Init
    <3>. QED
      BY <3>1, <3>2, <3>3 DEF Reports!TypeOK
  <2>3. ConversationsInit =>
          /\ DOMAIN files = {} /\ DOMAIN rows = {} /\ visit = None
          /\ report = None /\ \A w \in Worker : gen[w] = Reports!Idle
    BY DEF ConversationsInit, Reports!Init, Reports!Nothing
  <2>4. ConversationsInit => ReportInv
    BY <2>3 DEF ReportInv, FilesAreNamed, PurgesAreSafe, AttemptsDiffer, NothingBefore,
      FilesAreInScope, VisitsAreValid, Rendering, Purges, VisitPurges, Past, Reports!Idle
  <2>. QED
    BY <2>2, <2>4
<1>2. [ConversationsNext]_allVars => [Reports!Next]_(Reports!vars)
  BY DEF ConversationsNext, TurnStep, CallStep, SpeechStep, MemoryStep, ReportStep,
    allVars, reportVars, Reports!vars
<1>3. Reports!TypeOK /\ ReportInv /\ [ConversationsNext]_allVars => (Reports!TypeOK /\ ReportInv)'
  BY <1>2, ReportTypeStep, FilesStep, NothingBeforeStep, ScopeStep, ValidStep DEF ReportInv
<1>. QED
  BY <1>1, <1>3, PTL DEF ConversationsSpec

\* Nobody is served who was known to have withdrawn, and no file is left that nobody will find,
\* for any participants, formats, number of attempts and number of decisions.
THEOREM KeptReports == ConversationsSpec => []ReportsAreKept
<1>1. Reports!TypeOK /\ ReportInv => Reports!NobodyWithdrawnIsServed
  <2>1. SUFFICES ASSUME Reports!TypeOK, ReportInv, visit # None, visit.at = "file",
                        Reports!Exists, Reports!Answers, NEW d \in visit.known,
                        d.at > report.created
                 PROVE  d.who \notin files[visit.format].of
    BY DEF Reports!NobodyWithdrawnIsServed
  <2>2. d.who \notin report.scope
    BY <2>1 DEF ReportInv, VisitsAreValid
  <2>3. files[visit.format].of \subseteq report.scope
    BY <2>1 DEF ReportInv, FilesAreInScope, Reports!Answers
  <2>. QED
    BY <2>2, <2>3
<1>2. ReportInv => Reports!NoFileIsForgotten
  BY DEF ReportInv, FilesAreNamed, InHand, Reports!NoFileIsForgotten, Reports!At
<1>. QED
  BY <1>1, <1>2, ReportInvariance, PTL DEF ReportsAreKept

-----------------------------------------------------------------------------
(* The calls *)

\* A call that rings was not answered before.
RingsUnanswered ==
  \A c \in Peer : /\ remote[c] \in {"absent", "ringing"} => answers[c] = 0
                  /\ answers[c] <= 1

\* No more calls have a place than there are, and one for a caller.
PlacesAreKept ==
  /\ IsFiniteSet(Calls!Live) /\ Cardinality(Calls!Live) <= places
  /\ \A c, d \in Calls!Live : phone[c] = phone[d] => c = d

\* A session keeps its place while it is open or its worker runs; it ends with an assistant or
\* closed, and one that is closed has told the provider, or will.
SessionFits(c) ==
  /\ session[c].worker = "running" => session[c].listed
  /\ ~session[c].closed => session[c].listed
  /\ session[c].setup \in Calls!Setups \/ session[c].worker = "running" \/ session[c].closed
  /\ session[c].setup = "undo" => session[c].closed
  /\ session[c].closed /\ ~session[c].notify => remote[c] = "ended" \/ c \in lost
SessionsFit == \A c \in Peer : session[c] # None => SessionFits(c)

\* A call that is admitted has no session yet, and once it was admitted a place waits for it.
AdmittedFits ==
  admission # None =>
    /\ session[admission.call] = None
    /\ remote[admission.call] # "answered" /\ mark[admission.call] # "none"
    /\ admission.at # "admit" => /\ Cardinality(Calls!Live) < places
                                 /\ \A d \in Calls!Live : phone[d] # phone[admission.call]

\* A call that was never claimed was never admitted.
UnclaimedIsNew ==
  \A c \in Peer : mark[c] = "none" => session[c] = None /\ remote[c] # "answered"

\* A call that is over stays over.
HangupsAreOver == \A c \in hangups : remote[c] = "ended"

\* Only a restart leaves a call that was answered.
AnsweredHasSession == \A c \in Peer \ lost : remote[c] = "answered" => session[c] # None

CallInv ==
  /\ RingsUnanswered /\ PlacesAreKept /\ SessionsFit /\ AdmittedFits /\ UnclaimedIsNew
  /\ HangupsAreOver /\ AnsweredHasSession

\* What a step is about: calls and webhooks, an admission, or the session of a call.
Webhook(c) == Calls!Ring(c) \/ Calls!HangUp(c) \/ Calls!Connect(c) \/ Calls!Terminate(c)
Admissions == Calls!Admit \/ Calls!Authorize \/ Calls!Recheck
Conducts(c) ==
  \/ Calls!HangupReaches(c) \/ Calls!Breaks(c) \/ Calls!PreAccept(c) \/ Calls!Accept(c)
  \/ Calls!SetupFails(c) \/ Calls!Answered(c) \/ Calls!Undo(c) \/ Calls!Notify(c)
  \/ Calls!Drain(c)

\* Every step of the calls is one of these.
LEMMA CallSteps ==
  ASSUME Calls!Next
  PROVE  /\ \/ \E c \in Peer : Webhook(c) \/ Conducts(c)
            \/ Admissions \/ Calls!Create \/ Calls!Restart
         /\ UNCHANGED <<places, phone>>
BY DEF Calls!Next, Webhook, Admissions, Conducts, Calls!setting

\* Telling the provider ends the call there, or it is lost.
LEMMA EndEnds ==
  ASSUME Calls!TypeOK, NEW c \in Peer, Calls!End(c)
  PROVE  /\ \/ remote' = [remote EXCEPT ![c] = "ended"] /\ UNCHANGED <<failures, lost>>
            \/ /\ remote' = remote /\ lost' = lost \cup {c}
               /\ failures' = failures + 1 /\ failures < MaxFailures
         /\ remote'[c] = "ended" \/ c \in lost'
BY DEF Calls!End, Calls!Fails, Calls!TypeOK

\* Closing keeps the setup and the worker; only a session with neither gives its place free.
LEMMA ClosedRow ==
  ASSUME NEW s \in Calls!Session, NEW n \in BOOLEAN, NEW r, r = Calls!Closed(s, n)
  PROVE  /\ r \in Calls!Session /\ r.closed
         /\ r.setup = s.setup /\ r.worker = s.worker
         /\ r.listed => s.listed \/ s.worker = "running"
         /\ r.worker = "running" /\ s.listed => r.listed
         /\ r.notify = IF s.closed THEN s.notify ELSE n
<1>1. CASE s.closed
  BY <1>1 DEF Calls!Closed
<1>2. CASE ~s.closed
  <2>1. PICK l \in BOOLEAN : l = (s.worker = "running")
    OBVIOUS
  <2>2. r = [setup |-> s.setup, closed |-> TRUE, worker |-> s.worker, listed |-> l, notify |-> n]
    BY <1>2, <2>1 DEF Calls!Closed, Calls!Session
  <2>3. s.setup \in Calls!Setups \cup {"done"} /\ s.worker \in {"none", "running"}
    BY DEF Calls!Session
  <2>. QED
    BY <1>2, <2>1, <2>2, <2>3 DEF Calls!Session
<1>. QED
  BY <1>1, <1>2

\* Row n becomes the session of c: a place is given up, never taken.
Becomes(c, n) ==
  /\ n \in Calls!Session /\ session[c] \in Calls!Session
  /\ session' = [session EXCEPT ![c] = n]
  /\ n.listed => session[c].listed
  /\ n.worker = "running" => n.listed
  /\ ~n.closed => n.listed
  /\ n.setup \in Calls!Setups \/ n.worker = "running" \/ n.closed
  /\ n.setup = "undo" => n.closed
  /\ n.closed /\ ~n.notify => remote'[c] = "ended" \/ c \in lost'

\* What a step of a session makes of its row.
LEMMA ConductStep ==
  ASSUME Calls!TypeOK, CallInv, NEW c \in Peer, Conducts(c)
  PROVE  (UNCHANGED session) \/ \E n : Becomes(c, n)
<1>. USE DEF Calls!TypeOK
<1>1. session[c] # None => session[c] \in Calls!Session /\ SessionFits(c)
  BY DEF CallInv, SessionsFit
<1>2. remote[c] = "ended" => remote'[c] = "ended"
  BY DEF Conducts, Calls!HangupReaches, Calls!Breaks, Calls!PreAccept, Calls!Accept,
    Calls!SetupFails, Calls!Answered, Calls!Undo, Calls!Notify, Calls!Drain, Calls!End
<1>3. c \in lost => c \in lost'
  BY DEF Conducts, Calls!HangupReaches, Calls!Breaks, Calls!PreAccept, Calls!Accept,
    Calls!SetupFails, Calls!Answered, Calls!Undo, Calls!Notify, Calls!Drain, Calls!End
<1>4. CASE Calls!HangupReaches(c)
  <2>1. CASE Calls!Listed(c)
    <3>1. PICK r : r = Calls!Closed(session[c], FALSE)
      OBVIOUS
    <3>2. remote'[c] = "ended" /\ session' = [session EXCEPT ![c] = r] /\ session[c] # None
      BY <1>4, <2>1, <3>1 DEF Calls!HangupReaches, Calls!Now, Calls!Listed, CallInv, HangupsAreOver
    <3>3. Becomes(c, r)
      BY <1>1, <2>1, <3>1, <3>2, ClosedRow DEF Becomes, SessionFits
    <3>. QED
      BY <3>3
  <2>. QED
    BY <1>4, <2>1 DEF Calls!HangupReaches
<1>5. PICK r : r = Calls!Closed(session[c], TRUE)
  OBVIOUS
<1>15. PICK q : q = [r EXCEPT !.setup = "done"]
  OBVIOUS
<1>16. session[c] # None =>
         /\ r \in Calls!Session /\ r.closed /\ r.setup = session[c].setup
         /\ r.listed => session[c].listed
         /\ r.worker = "running" => r.listed
         /\ r.closed /\ ~r.notify => remote'[c] = "ended" \/ c \in lost'
  BY <1>1, <1>2, <1>3, <1>5, ClosedRow DEF SessionFits
<1>17. session[c] # None =>
         /\ q \in Calls!Session /\ q.closed = r.closed /\ q.listed = r.listed
         /\ q.worker = r.worker /\ q.notify = r.notify
  BY <1>15, <1>16 DEF Calls!Session
<1>18. session[c] # None /\ session' = [session EXCEPT ![c] = r] => Becomes(c, r)
  BY <1>1, <1>16 DEF Becomes
<1>19. session[c] # None /\ session' = [session EXCEPT ![c] = q] => Becomes(c, q)
  BY <1>1, <1>16, <1>17 DEF Becomes
<1>6. CASE Calls!Breaks(c)
  BY <1>5, <1>6, <1>18 DEF Calls!Breaks, Calls!Now, Calls!Listed
<1>7. CASE Calls!SetupFails(c)
  BY <1>5, <1>15, <1>7, <1>19 DEF Calls!SetupFails, Calls!Now
<1>8. CASE Calls!PreAccept(c)
  <2>1. CASE session' = [session EXCEPT ![c] = [Calls!Closed(session[c], TRUE) EXCEPT !.setup = "done"]]
    BY <1>5, <1>15, <1>8, <1>19, <2>1 DEF Calls!PreAccept, Calls!Setting
  <2>2. CASE session' = [session EXCEPT ![c] =
               [session[c] EXCEPT !.setup = IF session[c].closed THEN "done" ELSE "accept"]]
    <3>1. PICK n : n = [session[c] EXCEPT !.setup = IF session[c].closed THEN "done" ELSE "accept"]
      OBVIOUS
    <3>2. session[c] \in Calls!Session /\ SessionFits(c)
      BY <1>1, <1>8 DEF Calls!PreAccept, Calls!Setting
    <3>3. /\ n \in Calls!Session /\ n.closed = session[c].closed /\ n.listed = session[c].listed
          /\ n.worker = session[c].worker /\ n.notify = session[c].notify
          /\ n.setup \in Calls!Setups \/ n.closed
      BY <3>1, <3>2 DEF Calls!Session, Calls!Setups
    <3>4. Becomes(c, n)
      BY <1>2, <1>3, <2>2, <3>1, <3>2, <3>3 DEF Becomes, SessionFits
    <3>. QED
      BY <3>4
  <2>. QED
    BY <1>8, <2>1, <2>2 DEF Calls!PreAccept, Calls!Now
<1>9. ASSUME session[c] # None, NEW n, session' = [session EXCEPT ![c] = n],
             n \in Calls!Session, n.listed = session[c].listed,
             n.worker = "running" => session[c].listed,
             n.closed = session[c].closed,
             n.setup \in Calls!Setups \/ n.worker = "running" \/ n.closed,
             n.setup = "undo" => n.closed,
             n.closed /\ ~n.notify => ~session[c].notify \/ remote'[c] = "ended" \/ c \in lost'
      PROVE  Becomes(c, n)
  BY <1>1, <1>2, <1>3, <1>9 DEF Becomes, SessionFits
<1>10. CASE Calls!Accept(c)
  <2>1. PICK n : n = [session[c] EXCEPT !.setup = "answered"]
    OBVIOUS
  <2>2. session[c] # None /\ session' = [session EXCEPT ![c] = n]
    BY <1>10, <2>1 DEF Calls!Accept, Calls!Setting, Calls!Now
  <2>3. /\ n \in Calls!Session /\ n.listed = session[c].listed /\ n.worker = session[c].worker
        /\ n.closed = session[c].closed /\ n.notify = session[c].notify
        /\ n.setup = "answered"
    BY <1>1, <2>1, <2>2 DEF Calls!Session, Calls!Setups
  <2>. QED
    BY <1>1, <1>9, <2>2, <2>3 DEF SessionFits, Calls!Setups
<1>11. CASE Calls!Answered(c)
  <2>1. session[c] # None
    BY <1>11 DEF Calls!Answered, Calls!Setting
  <2>2. CASE session[c].closed
    <3>1. PICK n : n = [session[c] EXCEPT !.setup = "undo"]
      OBVIOUS
    <3>2. session' = [session EXCEPT ![c] = n]
      BY <1>11, <2>2, <3>1 DEF Calls!Answered, Calls!Now
    <3>3. /\ n \in Calls!Session /\ n.listed = session[c].listed /\ n.worker = session[c].worker
          /\ n.closed = session[c].closed /\ n.notify = session[c].notify
          /\ n.setup = "undo"
      BY <1>1, <2>1, <3>1 DEF Calls!Session, Calls!Setups
    <3>. QED
      BY <1>1, <1>9, <2>1, <2>2, <3>2, <3>3 DEF SessionFits, Calls!Setups
  <2>3. CASE ~session[c].closed
    <3>1. PICK n : n = [session[c] EXCEPT !.setup = "done", !.worker = "running"]
      OBVIOUS
    <3>2. session' = [session EXCEPT ![c] = n]
      BY <1>11, <2>3, <3>1 DEF Calls!Answered, Calls!Now
    <3>3. /\ n \in Calls!Session /\ n.listed = session[c].listed /\ n.worker = "running"
          /\ n.closed = session[c].closed /\ n.notify = session[c].notify /\ n.setup = "done"
      BY <1>1, <2>1, <3>1 DEF Calls!Session, Calls!Setups
    <3>. QED
      BY <1>1, <1>9, <2>1, <2>3, <3>2, <3>3 DEF SessionFits
  <2>. QED
    BY <2>2, <2>3
<1>12. CASE Calls!Undo(c)
  <2>1. PICK n : n = [session[c] EXCEPT !.setup = "done"]
    OBVIOUS
  <2>2. session[c] # None /\ session' = [session EXCEPT ![c] = n]
    BY <1>12, <2>1 DEF Calls!Undo, Calls!Setting, Calls!Now
  <2>3. /\ n \in Calls!Session /\ n.listed = session[c].listed /\ n.worker = session[c].worker
        /\ n.closed = session[c].closed /\ n.notify = session[c].notify
    BY <1>1, <2>1, <2>2 DEF Calls!Session
  <2>4. n.closed
    BY <1>1, <1>12, <2>2, <2>3 DEF SessionFits, Calls!Undo, Calls!Setting
  <2>. QED
    BY <1>1, <1>9, <2>2, <2>3, <2>4 DEF SessionFits
<1>13. CASE Calls!Notify(c)
  <2>1. PICK n : n = [session[c] EXCEPT !.notify = FALSE]
    OBVIOUS
  <2>2. session[c] # None /\ session' = [session EXCEPT ![c] = n]
    BY <1>13, <2>1 DEF Calls!Notify, Calls!Now
  <2>3. /\ n \in Calls!Session /\ n.listed = session[c].listed /\ n.worker = session[c].worker
        /\ n.closed = session[c].closed /\ n.setup = session[c].setup
    BY <1>1, <2>1, <2>2 DEF Calls!Session
  <2>4. remote'[c] = "ended" \/ c \in lost'
    BY <1>13, EndEnds DEF Calls!Notify
  <2>. QED
    BY <1>1, <1>9, <2>2, <2>3, <2>4 DEF SessionFits
<1>14. CASE Calls!Drain(c)
  <2>1. PICK n : n = [session[c] EXCEPT !.worker = "none", !.listed = FALSE]
    OBVIOUS
  <2>2. session[c] # None /\ session' = [session EXCEPT ![c] = n] /\ session[c].closed
    BY <1>14, <2>1 DEF Calls!Drain, Calls!Now
  <2>3. /\ n \in Calls!Session /\ n.listed = FALSE /\ n.worker = "none"
        /\ n.closed = session[c].closed /\ n.notify = session[c].notify
    BY <1>1, <2>1, <2>2 DEF Calls!Session
  <2>4. Becomes(c, n)
    BY <1>1, <1>2, <1>3, <2>2, <2>3 DEF Becomes, SessionFits
  <2>. QED
    BY <2>4
<1>. QED
  BY <1>4, <1>6, <1>7, <1>8, <1>10, <1>11, <1>12, <1>13, <1>14 DEF Conducts

\* A call that is over stays over, one that is lost stays lost, and a tombstone stays.
LEMMA CallsEnd ==
  ASSUME Calls!TypeOK, Calls!Next
  PROVE  /\ lost \subseteq lost' /\ lost' \subseteq Peer
         /\ \A c \in Peer : remote[c] = "ended" => remote'[c] = "ended"
         /\ \A c \in Peer : mark'[c] = "none" => mark[c] = "none"
<1>. USE DEF Calls!TypeOK
<1>1. ASSUME NEW c \in Peer, Webhook(c) \/ Conducts(c)
      PROVE  /\ lost \subseteq lost' /\ lost' \subseteq Peer
             /\ \A d \in Peer : remote[d] = "ended" => remote'[d] = "ended"
             /\ \A d \in Peer : mark'[d] = "none" => mark[d] = "none"
  <2>1. CASE Webhook(c)
    BY <2>1, EndEnds DEF Webhook, Calls!Ring, Calls!HangUp, Calls!Connect, Calls!Terminate
  <2>2. CASE Calls!Undo(c) \/ Calls!Notify(c)
    BY <2>2, EndEnds DEF Calls!Undo, Calls!Notify
  <2>3. CASE Conducts(c) /\ ~Calls!Undo(c) /\ ~Calls!Notify(c)
    BY <2>3 DEF Conducts, Calls!HangupReaches, Calls!Breaks, Calls!PreAccept, Calls!Accept,
      Calls!SetupFails, Calls!Answered, Calls!Drain
  <2>. QED
    BY <1>1, <2>1, <2>2, <2>3
<1>2. CASE Admissions \/ Calls!Create
  <2>1. admission # None => admission.call \in Peer
    BY DEF Calls!Admission
  <2>2. UNCHANGED <<remote, lost>> \/ (admission # None /\ Calls!End(admission.call))
    BY <1>2 DEF Admissions, Calls!Admit, Calls!Authorize, Calls!Recheck, Calls!Create
  <2>3. UNCHANGED mark
    BY <1>2 DEF Admissions, Calls!Admit, Calls!Authorize, Calls!Recheck, Calls!Create
  <2>. QED
    BY <2>1, <2>2, <2>3, EndEnds
<1>3. CASE Calls!Restart
  BY <1>3 DEF Calls!Restart, Calls!Admission
<1>. QED
  BY <1>1, <1>2, <1>3, CallSteps

\* The types of the calls are kept.
LEMMA CallTypeStep ==
  ASSUME Calls!TypeOK, CallInv, [Calls!Next]_(Calls!vars)
  PROVE  Calls!TypeOK'
<1>. USE DEF Calls!TypeOK
<1>1. CASE UNCHANGED Calls!vars
  BY <1>1 DEF Calls!vars, Calls!setting
<1>10. SUFFICES ASSUME Calls!Next
                PROVE  Calls!TypeOK'
  BY <1>1
<1>2. places' \in Nat /\ phone' \in [Peer -> Peer] /\ lost' \subseteq Peer
  BY <1>10, CallSteps, CallsEnd
<1>3. ASSUME NEW c \in Peer, Webhook(c) \/ Conducts(c)
      PROVE  /\ remote' \in [Peer -> {"absent", "ringing", "answered", "ended"}]
             /\ failures' \in 0..MaxFailures
  <2>1. failures' \in 0..MaxFailures
    <3>1. CASE UNCHANGED failures
      BY <3>1
    <3>2. CASE Calls!Fails
      BY <3>2 DEF Calls!Fails
    <3>3. CASE Calls!End(c)
      BY <3>1, <3>2, <3>3 DEF Calls!End
    <3>4. CASE Webhook(c)
      BY <3>1, <3>3, <3>4 DEF Webhook, Calls!Ring, Calls!HangUp, Calls!Connect, Calls!Terminate
    <3>5. CASE Conducts(c)
      BY <3>1, <3>2, <3>3, <3>5 DEF Conducts, Calls!HangupReaches, Calls!Breaks, Calls!PreAccept,
        Calls!Accept, Calls!SetupFails, Calls!Answered, Calls!Undo, Calls!Notify, Calls!Drain
    <3>. QED
      BY <1>3, <3>4, <3>5
  <2>2. \/ UNCHANGED remote
        \/ \E x \in {"ringing", "answered", "ended"} : remote' = [remote EXCEPT ![c] = x]
    <3>1. CASE Webhook(c)
      BY <3>1 DEF Webhook, Calls!Ring, Calls!HangUp, Calls!Connect, Calls!Terminate, Calls!End
    <3>2. CASE Calls!Undo(c) \/ Calls!Notify(c)
      BY <3>2 DEF Calls!Undo, Calls!Notify, Calls!End
    <3>3. CASE Conducts(c) /\ ~Calls!Undo(c) /\ ~Calls!Notify(c)
      BY <3>3 DEF Conducts, Calls!HangupReaches, Calls!Breaks, Calls!PreAccept, Calls!Accept,
        Calls!SetupFails, Calls!Answered, Calls!Drain
    <3>. QED
      BY <1>3, <3>1, <3>2, <3>3
  <2>. QED
    BY <2>1, <2>2
<1>4. ASSUME NEW c \in Peer, Webhook(c)
      PROVE  /\ mark' \in [Peer -> {"none", "claimed", "ended"}]
             /\ admission' \in Calls!Admission \cup {None} /\ hangups' \subseteq Peer
             /\ UNCHANGED <<session, answers>>
  BY <1>4 DEF Webhook, Calls!Ring, Calls!HangUp, Calls!Connect, Calls!Terminate, Calls!Admission
<1>5. ASSUME NEW c \in Peer, Conducts(c)
      PROVE  /\ UNCHANGED <<mark, admission>> /\ hangups' \subseteq hangups
             /\ session' \in [Peer -> Calls!Session \cup {None}]
  <2>1. UNCHANGED <<mark, admission>> /\ hangups' \subseteq hangups
    BY <1>5 DEF Conducts, Calls!HangupReaches, Calls!Breaks, Calls!PreAccept, Calls!Accept,
      Calls!SetupFails, Calls!Answered, Calls!Undo, Calls!Notify, Calls!Drain
  <2>. QED
    BY <1>5, <2>1, ConductStep DEF Becomes
<1>6. ASSUME NEW c \in Peer, Conducts(c)
      PROVE  answers' \in [Peer -> 0..2]
  <2>1. \/ UNCHANGED answers
        \/ remote[c] = "ringing" /\ answers' = [answers EXCEPT ![c] = @ + 1]
    BY <1>6 DEF Conducts, Calls!HangupReaches, Calls!Breaks, Calls!PreAccept, Calls!Accept,
      Calls!SetupFails, Calls!Answered, Calls!Undo, Calls!Notify, Calls!Drain
  <2>. QED
    BY <2>1 DEF CallInv, RingsUnanswered
<1>7. CASE Admissions
  <2>1. admission # None => admission.call \in Peer
    BY DEF Calls!Admission
  <2>2. /\ \/ UNCHANGED <<remote, failures>>
           \/ UNCHANGED remote /\ failures' = failures + 1 /\ failures < MaxFailures
           \/ admission # None /\ Calls!End(admission.call)
        /\ UNCHANGED <<mark, session, hangups, answers>>
    BY <1>7 DEF Admissions, Calls!Admit, Calls!Authorize, Calls!Recheck, Calls!Fails
  <2>3. /\ remote' \in [Peer -> {"absent", "ringing", "answered", "ended"}]
        /\ failures' \in 0..MaxFailures
    BY <2>1, <2>2, EndEnds
  <2>4. admission # None => \A x \in {"authorize", "read", "create"} :
          [admission EXCEPT !.at = x] \in Calls!Admission
    BY DEF Calls!Admission
  <2>5. admission' \in Calls!Admission \cup {None}
    BY <1>7, <2>4 DEF Admissions, Calls!Admit, Calls!Authorize, Calls!Recheck, Calls!To,
      Calls!Release
  <2>. QED
    BY <1>2, <2>2, <2>3, <2>5
<1>8. CASE Calls!Create
  BY <1>2, <1>8 DEF Calls!Create, Calls!Release, Calls!Session, Calls!Setups
<1>9. CASE Calls!Restart
  BY <1>2, <1>9 DEF Calls!Restart, Calls!Fails
<1>. QED
  BY <1>10, <1>2, <1>3, <1>4, <1>5, <1>6, <1>7, <1>8, <1>9, CallSteps

\* Only a call that was admitted takes a place.
LEMMA PlacedStep ==
  ASSUME Calls!TypeOK, CallInv, Calls!Next, ~Calls!Create
  PROVE  Calls!Live' \subseteq Calls!Live
<1>. USE DEF Calls!TypeOK
<1>1. ASSUME NEW c \in Peer, Conducts(c)
      PROVE  Calls!Live' \subseteq Calls!Live
  BY <1>1, ConductStep, NoSessionAssumption DEF Becomes, Calls!Live, Calls!Listed
<1>2. ASSUME NEW c \in Peer, Webhook(c)
      PROVE  UNCHANGED session
  BY <1>2 DEF Webhook, Calls!Ring, Calls!HangUp, Calls!Connect, Calls!Terminate
<1>3. ASSUME Admissions
      PROVE  UNCHANGED session
  BY <1>3 DEF Admissions, Calls!Admit, Calls!Authorize, Calls!Recheck
<1>4. ASSUME Calls!Restart
      PROVE  Calls!Live' = {}
  BY <1>4 DEF Calls!Restart, Calls!Live, Calls!Listed
<1>5. UNCHANGED session => Calls!Live' = Calls!Live
  BY DEF Calls!Live, Calls!Listed
<1>. QED
  BY <1>1, <1>2, <1>3, <1>4, <1>5, CallSteps

\* The library's cardinality, seen through the instance.
LEMMA SameCount == \A S : Calls!Cardinality(S) = Cardinality(S)
BY Zenon DEF Calls!Cardinality, Cardinality

\* A place is given to a call that was admitted, and no more than there are.
LEMMA PlacesKeptStep ==
  ASSUME Calls!TypeOK, CallInv, Calls!Next
  PROVE  PlacesAreKept'
<1>. USE DEF Calls!TypeOK
<1>1. UNCHANGED <<places, phone>>
  BY CallSteps
<1>2. CASE Calls!Live' \subseteq Calls!Live
  <2>1. IsFiniteSet(Calls!Live') /\ Cardinality(Calls!Live') <= Cardinality(Calls!Live)
    BY <1>2, FS_Subset DEF CallInv, PlacesAreKept
  <2>2. Cardinality(Calls!Live) \in Nat /\ Cardinality(Calls!Live') \in Nat
    BY <2>1, FS_CardinalityType DEF CallInv, PlacesAreKept
  <2>. QED
    BY <1>1, <1>2, <2>1, <2>2 DEF CallInv, PlacesAreKept
<1>3. CASE Calls!Create
  <2>1. /\ Cardinality(Calls!Live) < places
        /\ \A d \in Calls!Live : phone[d] # phone[admission.call]
        /\ admission.call \in Peer
    BY <1>3 DEF Calls!Create, CallInv, AdmittedFits, Calls!Admission
  <2>2. Calls!Live' \subseteq Calls!Live \cup {admission.call}
    BY <1>3 DEF Calls!Create, Calls!Live, Calls!Listed
  <2>3. IsFiniteSet(Calls!Live) /\ Cardinality(Calls!Live) \in Nat
    BY FS_CardinalityType DEF CallInv, PlacesAreKept
  <2>4. /\ IsFiniteSet(Calls!Live \cup {admission.call})
        /\ Cardinality(Calls!Live \cup {admission.call}) <= Cardinality(Calls!Live) + 1
    <3>1. /\ IsFiniteSet(Calls!Live \cup {admission.call})
          /\ Cardinality(Calls!Live \cup {admission.call}) =
               IF admission.call \in Calls!Live THEN Cardinality(Calls!Live) ELSE Cardinality(Calls!Live) + 1
      BY <2>3, FS_AddElement
    <3>. QED
      BY <2>3, <3>1
  <2>5. IsFiniteSet(Calls!Live') /\ Cardinality(Calls!Live') <= Cardinality(Calls!Live \cup {admission.call})
    BY <2>2, <2>4, FS_Subset
  <2>6. Cardinality(Calls!Live') \in Nat /\ Cardinality(Calls!Live \cup {admission.call}) \in Nat
    BY <2>4, <2>5, FS_CardinalityType
  <2>7. Cardinality(Calls!Live') <= places
    BY <2>1, <2>3, <2>4, <2>5, <2>6
  <2>. QED
    BY <1>1, <2>1, <2>2, <2>5, <2>7 DEF CallInv, PlacesAreKept
<1>. QED
  BY <1>2, <1>3, PlacedStep

\* The sessions stay as they should be.
LEMMA SessionsStep ==
  ASSUME Calls!TypeOK, CallInv, Calls!Next
  PROVE  SessionsFit'
<1>. USE DEF Calls!TypeOK
<1>1. ASSUME UNCHANGED session
      PROVE  SessionsFit'
  BY <1>1, CallsEnd DEF CallInv, SessionsFit, SessionFits
<1>2. ASSUME NEW c \in Peer, NEW n, Becomes(c, n)
      PROVE  SessionsFit'
  <2>1. session'[c] = n /\ SessionFits(c)'
    BY <1>2 DEF Becomes, SessionFits
  <2>2. ASSUME NEW d \in Peer, d # c, session'[d] # None
        PROVE  SessionFits(d)'
    BY <1>2, <2>2, CallsEnd DEF Becomes, CallInv, SessionsFit, SessionFits
  <2>. QED
    BY <2>1, <2>2 DEF SessionsFit
<1>3. ASSUME NEW c \in Peer, Webhook(c)
      PROVE  UNCHANGED session
  BY <1>3 DEF Webhook, Calls!Ring, Calls!HangUp, Calls!Connect, Calls!Terminate
<1>4. ASSUME Admissions
      PROVE  UNCHANGED session
  BY <1>4 DEF Admissions, Calls!Admit, Calls!Authorize, Calls!Recheck
<1>5. CASE Calls!Create
  <2>1. admission.call \in Peer /\ UNCHANGED <<remote, lost>>
    BY <1>5 DEF Calls!Create, Calls!Admission
  <2>. QED
    BY <1>5, <2>1 DEF Calls!Create, CallInv, SessionsFit, SessionFits, Calls!Setups
<1>6. CASE Calls!Restart
  BY <1>6 DEF Calls!Restart, SessionsFit
<1>. QED
  BY <1>1, <1>2, <1>3, <1>4, <1>5, <1>6, CallSteps, ConductStep

\* Of the remaining conjuncts, each is about a call and what was said of it.
LEMMA AdmissionStep ==
  ASSUME Calls!TypeOK, CallInv, Calls!Next
  PROVE  AdmittedFits'
<1>. USE DEF Calls!TypeOK
<1>1. admission # None => admission.call \in Peer
  BY DEF Calls!Admission
<1>2. ~Calls!Create => Calls!Live' \subseteq Calls!Live
  BY PlacedStep
<1>3. Calls!Live' \subseteq Calls!Live =>
        /\ Cardinality(Calls!Live') <= Cardinality(Calls!Live)
        /\ Cardinality(Calls!Live) \in Nat /\ Cardinality(Calls!Live') \in Nat
  BY FS_Subset, FS_CardinalityType DEF CallInv, PlacesAreKept
<1>4. UNCHANGED <<places, phone>>
  BY CallSteps
<1>5. ASSUME NEW c \in Peer, Webhook(c), ~Calls!Connect(c)
      PROVE  AdmittedFits'
  <2>1. UNCHANGED <<session, admission>>
    BY <1>5 DEF Webhook, Calls!Ring, Calls!HangUp, Calls!Terminate
  <2>2. \A d \in Peer : remote'[d] = "answered" => remote[d] = "answered"
    BY <1>5 DEF Webhook, Calls!Ring, Calls!HangUp, Calls!Terminate
  <2>. QED
    BY <1>1, <1>4, <2>1, <2>2, CallsEnd DEF CallInv, AdmittedFits, Calls!Live, Calls!Listed
<1>6. ASSUME NEW c \in Peer, Calls!Connect(c)
      PROVE  AdmittedFits'
  <2>1. CASE mark[c] = "none"
    BY <1>6, <2>1 DEF Calls!Connect, CallInv, AdmittedFits, UnclaimedIsNew
  <2>2. CASE mark[c] # "none"
    BY <1>6, <2>2 DEF Calls!Connect, AdmittedFits
  <2>. QED
    BY <2>1, <2>2
<1>7. ASSUME NEW c \in Peer, Conducts(c)
      PROVE  AdmittedFits'
  <2>1. UNCHANGED <<mark, admission>>
    BY <1>7 DEF Conducts, Calls!HangupReaches, Calls!Breaks, Calls!PreAccept, Calls!Accept,
      Calls!SetupFails, Calls!Answered, Calls!Undo, Calls!Notify, Calls!Drain
  <2>2. \A d \in Peer : session[d] = None =>
          /\ session'[d] = None
          /\ remote'[d] = "answered" => remote[d] = "answered"
    <3>1. \A d \in Peer : session[d] = None => session'[d] = None
      BY <1>7, ConductStep, NoSessionAssumption DEF Becomes
    <3>2. CASE Calls!Undo(c) \/ Calls!Notify(c)
      BY <3>1, <3>2, EndEnds DEF Calls!Undo, Calls!Notify
    <3>3. CASE Calls!Accept(c)
      BY <3>1, <3>3 DEF Calls!Accept, Calls!Setting
    <3>4. CASE Conducts(c) /\ ~Calls!Undo(c) /\ ~Calls!Notify(c) /\ ~Calls!Accept(c)
      BY <3>1, <3>4 DEF Conducts, Calls!HangupReaches, Calls!Breaks, Calls!PreAccept,
        Calls!SetupFails, Calls!Answered, Calls!Drain
    <3>. QED
      BY <1>7, <3>2, <3>3, <3>4
  <2>3. Calls!Live' \subseteq Calls!Live
    BY <1>7, ConductStep, NoSessionAssumption DEF Becomes, Calls!Live, Calls!Listed
  <2>. QED
    BY <1>1, <1>3, <1>4, <2>1, <2>2, <2>3 DEF CallInv, AdmittedFits
<1>8. CASE Admissions
  <2>1. UNCHANGED <<session, mark>>
    BY <1>8 DEF Admissions, Calls!Admit, Calls!Authorize, Calls!Recheck
  <2>2. CASE admission' # None
    <3>1. /\ admission # None /\ admission'.call = admission.call /\ UNCHANGED remote
          /\ admission.at = "admit" => ~Calls!Busy(admission.call)
      BY <1>8, <2>2 DEF Admissions, Calls!Admit, Calls!Authorize, Calls!Recheck, Calls!To,
        Calls!Release, Calls!Admission
    <3>2. ~Calls!Busy(admission.call) =>
            Cardinality(Calls!Live) < places /\ \A d \in Calls!Live : phone[d] # phone[admission.call]
      <4>1. Cardinality(Calls!Live) \in Nat /\ places \in Nat
        BY FS_CardinalityType DEF CallInv, PlacesAreKept
      <4>2. Calls!Busy(admission.call) <=>
              \/ Cardinality(Calls!Live) >= places
              \/ \E d \in Calls!Live : phone[admission.call] = phone[d]
        BY SameCount DEF Calls!Busy, Calls!SamePhone
      <4>. QED
        BY <4>1, <4>2
    <3>. QED
      BY <1>4, <2>1, <3>1, <3>2 DEF CallInv, AdmittedFits, Calls!Live, Calls!Listed
  <2>. QED
    BY <2>2 DEF AdmittedFits
<1>9. CASE Calls!Create \/ Calls!Restart
  BY <1>9 DEF Calls!Create, Calls!Restart, Calls!Release, AdmittedFits
<1>. QED
  BY <1>5, <1>6, <1>7, <1>8, <1>9, CallSteps DEF Webhook

\* What is said of each call alone.
LEMMA CallsStep ==
  ASSUME Calls!TypeOK, CallInv, Calls!Next
  PROVE  RingsUnanswered' /\ UnclaimedIsNew' /\ HangupsAreOver' /\ AnsweredHasSession'
<1>. USE DEF Calls!TypeOK
<1>1. ASSUME NEW c \in Peer, Calls!Accept(c)
      PROVE  RingsUnanswered' /\ UnclaimedIsNew' /\ HangupsAreOver' /\ AnsweredHasSession'
  <2>1. /\ remote[c] = "ringing" /\ session[c] # None
        /\ remote' = [remote EXCEPT ![c] = "answered"] /\ answers' = [answers EXCEPT ![c] = @ + 1]
        /\ UNCHANGED <<mark, hangups, lost>>
    BY <1>1 DEF Calls!Accept, Calls!Setting
  <2>2. \A d \in Peer : session'[d] = None <=> session[d] = None
    BY <1>1, ConductStep, NoSessionAssumption DEF Conducts, Becomes
  <2>. QED
    BY <2>1, <2>2 DEF CallInv, RingsUnanswered, UnclaimedIsNew, HangupsAreOver,
      AnsweredHasSession
<1>2. ASSUME NEW c \in Peer, Conducts(c), ~Calls!Accept(c)
      PROVE  RingsUnanswered' /\ UnclaimedIsNew' /\ HangupsAreOver' /\ AnsweredHasSession'
  <2>1. \A d \in Peer : session'[d] = None <=> session[d] = None
    BY <1>2, ConductStep, NoSessionAssumption DEF Becomes
  <2>2. /\ UNCHANGED <<mark, answers>> /\ hangups' \subseteq hangups
        /\ (UNCHANGED remote) \/ Calls!End(c)
    BY <1>2 DEF Conducts, Calls!HangupReaches, Calls!Breaks, Calls!PreAccept, Calls!SetupFails,
      Calls!Answered, Calls!Undo, Calls!Notify, Calls!Drain
  <2>3. \A d \in Peer : remote'[d] = remote[d] \/ remote'[d] = "ended"
    BY <2>2, EndEnds
  <2>. QED
    BY <2>1, <2>2, <2>3, CallsEnd DEF CallInv, RingsUnanswered, UnclaimedIsNew, HangupsAreOver,
      AnsweredHasSession
<1>3. ASSUME NEW c \in Peer, Webhook(c)
      PROVE  RingsUnanswered' /\ UnclaimedIsNew' /\ HangupsAreOver' /\ AnsweredHasSession'
  <2>1. UNCHANGED <<session, answers>>
    BY <1>3 DEF Webhook, Calls!Ring, Calls!HangUp, Calls!Connect, Calls!Terminate
  <2>2. \A d \in Peer : \/ remote'[d] = remote[d] \/ remote'[d] = "ended"
                        \/ remote[d] = "absent" /\ remote'[d] = "ringing"
    <3>1. CASE Calls!Connect(c)
      BY <3>1, EndEnds DEF Calls!Connect
    <3>2. CASE Webhook(c) /\ ~Calls!Connect(c)
      BY <3>2 DEF Webhook, Calls!Ring, Calls!HangUp, Calls!Terminate
    <3>. QED
      BY <1>3, <3>1, <3>2
  <2>3. hangups' = hangups \/ (hangups' = hangups \cup {c} /\ remote[c] = "ended")
    <3>1. CASE Calls!Terminate(c)
      BY <3>1 DEF Calls!Terminate
    <3>2. CASE Webhook(c) /\ ~Calls!Terminate(c)
      BY <3>2 DEF Webhook, Calls!Ring, Calls!HangUp, Calls!Connect
    <3>. QED
      BY <1>3, <3>1, <3>2
  <2>. QED
    BY <2>1, <2>2, <2>3, CallsEnd DEF CallInv, RingsUnanswered, UnclaimedIsNew, HangupsAreOver,
      AnsweredHasSession
<1>4. CASE Admissions
  <2>1. admission # None => admission.call \in Peer
    BY DEF Calls!Admission
  <2>2. /\ UNCHANGED <<session, answers, hangups>>
        /\ (UNCHANGED remote) \/ (admission # None /\ Calls!End(admission.call))
    BY <1>4 DEF Admissions, Calls!Admit, Calls!Authorize, Calls!Recheck
  <2>3. \A d \in Peer : remote'[d] = remote[d] \/ remote'[d] = "ended"
    BY <2>1, <2>2, EndEnds
  <2>. QED
    BY <2>2, <2>3, CallsEnd DEF CallInv, RingsUnanswered, UnclaimedIsNew, HangupsAreOver,
      AnsweredHasSession
<1>5. CASE Calls!Create
  <2>1. /\ admission # None /\ admission.call \in Peer
        /\ UNCHANGED <<remote, mark, hangups, answers, lost>>
        /\ session'[admission.call] # None
        /\ \A d \in Peer : d # admission.call => session'[d] = session[d]
    <3>1. PICK n : n = [setup |-> "offer", closed |-> FALSE, worker |-> "none",
                        listed |-> TRUE, notify |-> FALSE]
      OBVIOUS
    <3>2. n # None
      <4>1. n \in Calls!Session
        BY <3>1 DEF Calls!Session, Calls!Setups
      <4>. QED
        BY <4>1, NoSessionAssumption
    <3>3. admission # None /\ admission.call \in Peer
      BY <1>5 DEF Calls!Create, Calls!Admission
    <3>4. /\ session' = [session EXCEPT ![admission.call] = n]
          /\ UNCHANGED <<remote, mark, hangups, answers, lost>>
      BY <1>5, <3>1 DEF Calls!Create
    <3>. QED
      BY <3>2, <3>3, <3>4
  <2>2. mark[admission.call] # "none"
    BY <2>1 DEF CallInv, AdmittedFits
  <2>3. RingsUnanswered' /\ HangupsAreOver'
    BY <2>1 DEF CallInv, RingsUnanswered, HangupsAreOver
  <2>4. UnclaimedIsNew'
    BY <2>1, <2>2 DEF CallInv, UnclaimedIsNew
  <2>5. AnsweredHasSession'
    BY <2>1 DEF CallInv, AnsweredHasSession
  <2>. QED
    BY <2>3, <2>4, <2>5
<1>6. CASE Calls!Restart
  <2>1. /\ UNCHANGED <<remote, mark, answers>> /\ hangups' = {}
        /\ \A d \in Peer : session'[d] = None
        /\ \A d \in Peer \ lost' : d \notin lost /\ session[d] = None
    BY <1>6, CallsEnd DEF Calls!Restart
  <2>. QED
    BY <2>1 DEF CallInv, RingsUnanswered, UnclaimedIsNew, HangupsAreOver, AnsweredHasSession
<1>. QED
  BY <1>1, <1>2, <1>3, <1>4, <1>5, <1>6, CallSteps

\* A behaviour of the conversations is, for the calls, one of their own.
LEMMA CallInvariance == ConversationsSpec => [](Calls!TypeOK /\ CallInv)
<1>1. ConversationsInit => Calls!TypeOK
  <2>1. ConversationsInit => places \in Nat
    BY DEF ConversationsInit, Calls!Init
  <2>2. 0 \in 0..MaxFailures
    OBVIOUS
  <2>. QED
    BY <2>1, <2>2 DEF ConversationsInit, Calls!Init, Calls!TypeOK
<1>2. ConversationsInit => CallInv
  <2>1. ConversationsInit => Calls!Live = {} /\ places \in Nat
    BY DEF ConversationsInit, Calls!Init, Calls!Live, Calls!Listed
  <2>2. ConversationsInit => PlacesAreKept
    BY <2>1, FS_EmptySet DEF PlacesAreKept
  <2>3. ConversationsInit => RingsUnanswered
    BY DEF ConversationsInit, Calls!Init, RingsUnanswered
  <2>4. ConversationsInit => SessionsFit /\ AdmittedFits
    BY DEF ConversationsInit, Calls!Init, SessionsFit, AdmittedFits
  <2>5. ConversationsInit => UnclaimedIsNew /\ HangupsAreOver /\ AnsweredHasSession
    BY DEF ConversationsInit, Calls!Init, UnclaimedIsNew, HangupsAreOver, AnsweredHasSession
  <2>. QED
    BY <2>2, <2>3, <2>4, <2>5 DEF CallInv
<1>3. [ConversationsNext]_allVars => [Calls!Next]_(Calls!vars)
  BY DEF ConversationsNext, TurnStep, CallStep, SpeechStep, MemoryStep, ReportStep, allVars,
    callVars, Calls!vars, Calls!setting
<1>4. Calls!TypeOK /\ CallInv /\ [Calls!Next]_(Calls!vars) => (Calls!TypeOK /\ CallInv)'
  <2>1. CASE Calls!Next
    BY <2>1, CallTypeStep, PlacesKeptStep, SessionsStep, AdmissionStep, CallsStep DEF CallInv
  <2>2. CASE UNCHANGED Calls!vars
    <3>1. CallInv /\ UNCHANGED Calls!vars => CallInv'
      BY DEF Calls!vars, Calls!setting, CallInv, RingsUnanswered, PlacesAreKept, SessionsFit,
        SessionFits, AdmittedFits, UnclaimedIsNew, HangupsAreOver, AnsweredHasSession,
        Calls!Live, Calls!Listed
    <3>. QED
      BY <2>2, <3>1, CallTypeStep
  <2>. QED
    BY <2>1, <2>2
<1>. QED
  BY <1>1, <1>2, <1>3, <1>4, PTL DEF ConversationsSpec

\* A call is answered once, and the assistants at work are as many as allowed and one for a
\* caller.
LEMMA AnsweredOnceHolds ==
  ASSUME Calls!TypeOK, CallInv
  PROVE  Calls!AnsweredOnce
<1>. DEFINE working == {c \in Peer : session[c] # None /\ session[c].worker = "running"}
<1>1. working \subseteq Calls!Live
  BY DEF CallInv, SessionsFit, SessionFits, Calls!Live, Calls!Listed
<1>2. Cardinality(working) <= Cardinality(Calls!Live)
  BY <1>1, FS_Subset DEF CallInv, PlacesAreKept
<1>3. IsFiniteSet(working)
  BY <1>1, FS_Subset DEF CallInv, PlacesAreKept
<1>4. Cardinality(working) \in Nat /\ Cardinality(Calls!Live) \in Nat
  BY <1>3, FS_CardinalityType DEF CallInv, PlacesAreKept
<1>5. Calls!Cardinality(working) <= places
  <2>. HIDE DEF working
  <2>. QED
    BY <1>2, <1>4, SameCount DEF CallInv, PlacesAreKept, Calls!TypeOK
<1>6. \A c, d \in working : Calls!SamePhone(c, d) => c = d
  BY <1>1 DEF CallInv, PlacesAreKept, Calls!SamePhone
<1>7. \A c \in Peer : answers[c] <= 1
  BY DEF CallInv, RingsUnanswered
<1>. QED
  BY <1>5, <1>6, <1>7 DEF Calls!AnsweredOnce

\* A call that was answered has an assistant, or somebody who is going to end it.
LEMMA NoCallIsForgottenHolds ==
  ASSUME CallInv
  PROVE  Calls!NoCallIsForgotten
<1>1. SUFFICES ASSUME NEW c \in Peer \ lost, remote[c] = "answered"
               PROVE  /\ session[c] # None
                      /\ \/ session[c].setup \in Calls!Setups \/ session[c].notify
                         \/ session[c].worker = "running" /\ ~session[c].closed
  BY DEF Calls!NoCallIsForgotten
<1>2. session[c] # None
  BY <1>1 DEF CallInv, AnsweredHasSession
<1>3. SessionFits(c)
  BY <1>2 DEF CallInv, SessionsFit
<1>. QED
  BY <1>1, <1>2, <1>3 DEF SessionFits

-----------------------------------------------------------------------------
(* What is said in a call *)

\* What the queue of receipts says of an answer.
Says(q, n, state) == \E i \in 1..Len(q) : q[i] = <<n, state>>

\* An answer was played only after it began to.
InOrder(q, n) ==
  \A i \in 1..Len(q) : q[i] = <<n, "played">> => \E j \in 1..(i - 1) : q[j] = <<n, "playing">>

\* A receipt that joins the queue.
LEMMA JoinedQueue ==
  ASSUME NEW S, NEW q \in Seq(S), NEW u \in S
  PROVE  /\ Append(q, u) \in Seq(S)
         /\ \A n, state : Says(Append(q, u), n, state) <=> Says(q, n, state) \/ u = <<n, state>>
         /\ \A n : InOrder(q, n) /\ (u = <<n, "played">> => Says(q, n, "playing"))
                     => InOrder(Append(q, u), n)
<1>1. /\ Append(q, u) \in Seq(S) /\ Len(q) \in Nat
      /\ Len(Append(q, u)) = Len(q) + 1
      /\ \A i \in 1..Len(q) : Append(q, u)[i] = q[i]
      /\ Append(q, u)[Len(q) + 1] = u
  OBVIOUS
<1>2. PICK p : p = Append(q, u)
  OBVIOUS
<1>3. ASSUME NEW n, NEW state
      PROVE  Says(p, n, state) <=> Says(q, n, state) \/ u = <<n, state>>
  <2>1. ASSUME NEW i \in 1..Len(p), p[i] = <<n, state>>
        PROVE  Says(q, n, state) \/ u = <<n, state>>
    <3>1. i = Len(q) + 1 \/ i \in 1..Len(q)
      BY <1>1, <1>2
    <3>. QED
      BY <1>1, <1>2, <2>1, <3>1 DEF Says
  <2>2. ASSUME NEW i \in 1..Len(q), q[i] = <<n, state>>
        PROVE  Says(p, n, state)
    <3>1. i \in 1..Len(p) /\ p[i] = q[i]
      BY <1>1, <1>2
    <3>. QED
      BY <2>2, <3>1 DEF Says
  <2>3. u = <<n, state>> => Says(p, n, state)
    <3>1. Len(q) + 1 \in 1..Len(p) /\ p[Len(q) + 1] = u
      BY <1>1, <1>2
    <3>. QED
      BY <3>1 DEF Says
  <2>. QED
    BY <2>1, <2>2, <2>3 DEF Says
<1>4. ASSUME NEW n, InOrder(q, n), u = <<n, "played">> => Says(q, n, "playing")
      PROVE  InOrder(p, n)
  <2>1. SUFFICES ASSUME NEW i \in 1..Len(p), p[i] = <<n, "played">>
                 PROVE  \E j \in 1..(i - 1) : p[j] = <<n, "playing">>
    BY DEF InOrder
  <2>2. \A j \in 1..Len(q) : p[j] = q[j]
    BY <1>1, <1>2
  <2>3. CASE i \in 1..Len(q)
    <3>1. PICK j \in 1..(i - 1) : q[j] = <<n, "playing">>
      BY <1>4, <2>1, <2>2, <2>3 DEF InOrder
    <3>2. j \in 1..Len(q)
      BY <1>1, <2>3
    <3>. QED
      BY <2>2, <3>1, <3>2
  <2>4. CASE i = Len(q) + 1
    <3>1. u = <<n, "played">>
      BY <1>1, <1>2, <2>1, <2>4
    <3>2. PICK j \in 1..Len(q) : q[j] = <<n, "playing">>
      BY <1>4, <3>1 DEF Says
    <3>3. j \in 1..(i - 1)
      BY <1>1, <2>4
    <3>. QED
      BY <2>2, <3>2, <3>3
  <2>5. i \in 1..Len(q) \/ i = Len(q) + 1
    BY <1>1, <1>2
  <2>. QED
    BY <2>3, <2>4, <2>5
<1>. QED
  BY <1>1, <1>2, <1>3, <1>4

\* A receipt that leaves the queue.
LEMMA LeftQueue ==
  ASSUME NEW S, NEW q \in Seq(S), q # << >>
  PROVE  /\ Tail(q) \in Seq(S) /\ Head(q) \in S
         /\ \A n, state : Says(q, n, state) <=> Says(Tail(q), n, state) \/ Head(q) = <<n, state>>
         /\ \A n : InOrder(q, n) => Head(q) # <<n, "played">>
         /\ \A n : InOrder(q, n) /\ Head(q) # <<n, "playing">> => InOrder(Tail(q), n)
<1>1. /\ Tail(q) \in Seq(S) /\ Len(q) \in Nat \ {0} /\ Head(q) = q[1] /\ Head(q) \in S
      /\ Len(Tail(q)) = Len(q) - 1
      /\ \A i \in 1..(Len(q) - 1) : Tail(q)[i] = q[i + 1]
  OBVIOUS
<1>2. PICK p : p = Tail(q)
  OBVIOUS
<1>3. ASSUME NEW n, NEW state
      PROVE  Says(q, n, state) <=> Says(p, n, state) \/ Head(q) = <<n, state>>
  <2>1. ASSUME NEW i \in 1..Len(q), q[i] = <<n, state>>
        PROVE  Says(p, n, state) \/ Head(q) = <<n, state>>
    <3>1. CASE i = 1
      BY <1>1, <2>1, <3>1
    <3>2. CASE i # 1
      <4>1. i - 1 \in 1..(Len(q) - 1) /\ i - 1 \in 1..Len(p) /\ (i - 1) + 1 = i
        BY <1>1, <1>2, <2>1, <3>2
      <4>2. p[i - 1] = q[i]
        BY <1>1, <1>2, <4>1
      <4>. QED
        BY <2>1, <4>1, <4>2 DEF Says
    <3>. QED
      BY <3>1, <3>2
  <2>2. ASSUME NEW i \in 1..Len(p), p[i] = <<n, state>>
        PROVE  Says(q, n, state)
    <3>1. i + 1 \in 1..Len(q) /\ q[i + 1] = p[i]
      BY <1>1, <1>2
    <3>. QED
      BY <2>2, <3>1 DEF Says
  <2>3. Head(q) = <<n, state>> => Says(q, n, state)
    BY <1>1 DEF Says
  <2>. QED
    BY <2>1, <2>2, <2>3 DEF Says
<1>4. ASSUME NEW n, InOrder(q, n)
      PROVE  Head(q) # <<n, "played">>
  BY <1>1, <1>4 DEF InOrder
<1>5. ASSUME NEW n, InOrder(q, n), Head(q) # <<n, "playing">>
      PROVE  InOrder(p, n)
  <2>1. SUFFICES ASSUME NEW i \in 1..Len(p), p[i] = <<n, "played">>
                 PROVE  \E j \in 1..(i - 1) : p[j] = <<n, "playing">>
    BY DEF InOrder
  <2>2. i + 1 \in 1..Len(q) /\ q[i + 1] = p[i]
    BY <1>1, <1>2
  <2>3. PICK j \in 1..i : q[j] = <<n, "playing">>
    <3>1. q[i + 1] = <<n, "played">> /\ (i + 1) - 1 = i
      BY <1>1, <1>2, <2>1, <2>2
    <3>. QED
      BY <1>5, <2>2, <3>1 DEF InOrder
  <2>4. j # 1 /\ j - 1 \in 1..(Len(q) - 1)
    BY <1>1, <1>2, <1>5, <2>3
  <2>5. p[j - 1] = q[(j - 1) + 1]
    BY <1>1, <1>2, <2>4
  <2>. QED
    BY <2>3, <2>4, <2>5
<1>. QED
  BY <1>1, <1>2, <1>3, <1>4, <1>5

\* What answers an interruption: nothing, or the receipt of what played.
LEMMA Interruptions ==
  ASSUME Speech!TypeOK
  PROVE  updates \o Speech!Interruption(track) =
           IF track = None THEN updates ELSE Append(updates, <<track.reply, "interrupted">>)
<1>1. CASE track = None
  BY <1>1, ConcatEmptySeq DEF Speech!TypeOK, Speech!Interruption
<1>2. CASE track # None
  <2>1. <<track.reply, "interrupted">> \in Speech!Reply \X Speech!States
    BY <1>2 DEF Speech!TypeOK, Speech!Output, Speech!States
  <2>. QED
    BY <1>2, <2>1, AppendIsConcat DEF Speech!TypeOK, Speech!Interruption
<1>. QED
  BY <1>1, <1>2

\* The assistant is about a turn, and the output is free; it has an answer to play.
Answering == assistant.at \in {"drain", "respond", "model", "speak", "play", "decode"}
Requesting == assistant.at \in {"respond", "model", "speak", "play", "decode"}
Holding == assistant.at \in {"speak", "play", "decode"}

\* The answer that plays or is about to.
Held(n) ==
  \/ Holding /\ assistant.reply = n
  \/ track # None /\ track.reply = n

\* Turns come in order: one that waits is newer than the one that is answered, and while the
\* caller speaks both are old.
TurnsInOrder ==
  /\ assistant.turn <= generation
  /\ turn # None => turn <= generation
  /\ speaking => generation > 0 /\ assistant.turn < generation /\ (turn # None => turn < generation)
  /\ turn # None /\ turn # Speech!Stop => assistant.turn < turn
  /\ turn # None /\ turn # Speech!Stop /\ turn = generation => track = None
  /\ turn # None /\ turn = Speech!Stop => over
  /\ assistant.at \in {"ending", "settle", "done"} => over

\* The assistant begins with nothing that plays and nothing to record, and ends so.
OutputIsFree ==
  /\ Answering => track = None
  /\ Requesting => updates = << >>
  /\ assistant.at = "done" => updates = << >>

\* Nothing is said of an answer that is not there.
Unsaid(n) ==
  /\ receipt[n] = "none" /\ n \notin heard
  /\ \A state \in Speech!States : ~Says(updates, n, state)
  /\ track # None => track.reply # n
Unasked(n) == n > assistant.reply \/ (n = assistant.reply /\ assistant.at = "model")
NothingUnasked == \A n \in Speech!Reply : Unasked(n) => Unsaid(n)

\* An answer that is not played yet, and one that plays.
HeldIsOpen ==
  /\ Holding \/ assistant.at = "model" => assistant.reply \in Speech!Reply
  /\ Holding => receipt[assistant.reply] = "generated" /\ assistant.reply \notin heard
  /\ track # None =>
       /\ track.reply \notin heard /\ ~Says(updates, track.reply, "played")
       /\ ~Says(updates, track.reply, "interrupted")
       /\ receipt[track.reply] \in {"generated", "playing"}
       /\ track.started /\ ~failed =>
            receipt[track.reply] = "playing" \/ Says(updates, track.reply, "playing")

\* The receipts, written or on their way, say what was heard.
Told(n) ==
  /\ n \in heard => receipt[n] # "interrupted" /\ ~Says(updates, n, "interrupted")
  /\ n \notin heard => receipt[n] # "played" /\ ~Says(updates, n, "played")
  /\ receipt[n] = "generated" => InOrder(updates, n)
  /\ receipt[n] # "none" /\ ~Held(n) =>
       \/ receipt[n] \in Speech!Terminal
       \/ Says(updates, n, "played") \/ Says(updates, n, "interrupted")
ReceiptsAreTrue == ~failed => \A n \in Speech!Reply : Told(n)

SpeechInv ==
  /\ Speech!NoStaleAnswer /\ TurnsInOrder /\ OutputIsFree /\ NothingUnasked /\ HeldIsOpen
  /\ ReceiptsAreTrue

\* Who acts: the caller and the track, the recorder, or the assistant, who waits or answers.
Caller == Speech!Onset \/ Speech!Utterance \/ Speech!Frame \/ Speech!Close
Waits ==
  Speech!Take \/ Speech!Drain \/ Speech!Misheard \/ Speech!Ask \/ Speech!Spoken
Answers ==
  \/ Speech!Generate \/ Speech!Unspoken \/ Speech!Play \/ Speech!Enqueue \/ Speech!Break
  \/ Speech!End \/ Speech!Finish

\* Every step of a call is one of these.
LEMMA SpeechSteps ==
  ASSUME [Speech!Next]_(Speech!vars)
  PROVE  Caller \/ Speech!Record \/ Waits \/ Answers \/ UNCHANGED Speech!vars
BY DEF Speech!Next, Caller, Waits, Answers

\* A receipt that is recorded has a state.
LEMMA RecordedTypes ==
  ASSUME Speech!TypeOK, NEW n \in Speech!Reply, NEW state \in Speech!States,
         Speech!Recorded(n, state)
  PROVE  /\ receipt' \in [Speech!Reply -> Speech!States] /\ pending' \subseteq Speech!Reply
         /\ receipt' = [receipt EXCEPT ![n] = Speech!Settled(receipt[n], state)]
<1>1. Speech!Settled(receipt[n], state) \in Speech!States
  BY DEF Speech!TypeOK, Speech!Settled
<1>2. Speech!Remaining(n, state) \subseteq Speech!Reply
  BY DEF Speech!TypeOK, Speech!Remaining
<1>. QED
  BY <1>1, <1>2 DEF Speech!Recorded, Speech!TypeOK

\* The types of the queue, whatever joins or leaves it.
LEMMA QueueTypes ==
  ASSUME Speech!TypeOK
  PROVE  /\ \A n \in Speech!Reply : \A state \in Speech!States :
              Append(updates, <<n, state>>) \in Seq(Speech!Reply \X Speech!States)
         /\ updates \o Speech!Interruption(track) \in Seq(Speech!Reply \X Speech!States)
         /\ updates # << >> => /\ Tail(updates) \in Seq(Speech!Reply \X Speech!States)
                               /\ Head(updates) \in Speech!Reply \X Speech!States
<1>1. ASSUME NEW n \in Speech!Reply, NEW state \in Speech!States
      PROVE  Append(updates, <<n, state>>) \in Seq(Speech!Reply \X Speech!States)
  BY AppendProperties DEF Speech!TypeOK
<1>2. track # None => track.reply \in Speech!Reply /\ "interrupted" \in Speech!States
  BY DEF Speech!TypeOK, Speech!Output, Speech!States
<1>3. updates \o Speech!Interruption(track) \in Seq(Speech!Reply \X Speech!States)
  BY <1>1, <1>2, Interruptions DEF Speech!TypeOK
<1>. QED
  BY <1>1, <1>3, LeftQueue DEF Speech!TypeOK

\* The assistant that fails has nothing in the track: what it held is said to be interrupted, and
\* the call is over.
LEMMA BreakEffect ==
  ASSUME Speech!TypeOK, SpeechInv, Speech!Break
  PROVE  /\ track = None /\ track' = None /\ over' = TRUE
         /\ assistant' = [assistant EXCEPT !.at = "ending"]
         /\ UNCHANGED <<speaking, onsets, heard>>
         /\ IF over THEN UNCHANGED <<generation, turn>>
            ELSE generation' = generation + 2 /\ turn' = Speech!Stop
         /\ IF assistant.at = "decode"
            THEN updates' = Append(updates, <<assistant.reply, "interrupted">>)
            ELSE UNCHANGED updates
         /\ \/ assistant.at = "speak" /\ Speech!Recorded(assistant.reply, "interrupted")
               /\ UNCHANGED failed
            \/ failed' = TRUE /\ UNCHANGED <<receipt, pending>>
            \/ assistant.at # "speak" /\ UNCHANGED <<receipt, pending, failed>>
<1>1. assistant.at \in {"respond", "model", "speak", "decode"}
  BY DEF Speech!Break
<1>2. track = None
  BY <1>1 DEF SpeechInv, OutputIsFree, Answering
<1>3. PICK more, cut :
        /\ updates' = updates \o more \o cut
        /\ more = IF assistant.at = "decode" THEN <<<<assistant.reply, "interrupted">>>> ELSE << >>
        /\ cut = IF over THEN << >> ELSE Speech!Interruption(track)
  BY DEF Speech!Break, Speech!At
<1>4. cut = << >>
  BY <1>2, <1>3 DEF Speech!Interruption
<1>5. CASE assistant.at = "decode"
  <2>1. PICK u : u = <<assistant.reply, "interrupted">>
    OBVIOUS
  <2>2. u \in Speech!Reply \X Speech!States
    BY <1>5, <2>1 DEF SpeechInv, HeldIsOpen, Holding, Speech!States
  <2>3. /\ updates \o <<u>> = Append(updates, u)
        /\ Append(updates, u) \in Seq(Speech!Reply \X Speech!States)
    BY <2>2, AppendIsConcat, AppendProperties DEF Speech!TypeOK
  <2>4. updates' = Append(updates, u) \o << >>
    BY <1>3, <1>4, <1>5, <2>1, <2>3
  <2>5. updates' = Append(updates, u)
    BY <2>3, <2>4, ConcatEmptySeq
  <2>. QED
    BY <1>2, <1>5, <2>1, <2>5 DEF Speech!Break, Speech!At, Speech!To, Speech!Unrecorded, Speech!records
<1>6. CASE assistant.at # "decode"
  <2>1. updates' = updates
    BY <1>3, <1>4, <1>6, ConcatEmptySeq DEF Speech!TypeOK
  <2>. QED
    BY <1>2, <1>6, <2>1 DEF Speech!Break, Speech!At, Speech!To, Speech!Unrecorded, Speech!records
<1>. QED
  BY <1>5, <1>6

\* The types of what is said are kept.
LEMMA SpeechTypeStep ==
  ASSUME Speech!TypeOK, SpeechInv, [Speech!Next]_(Speech!vars)
  PROVE  Speech!TypeOK'
<1>1. CASE UNCHANGED Speech!vars
  BY <1>1 DEF Speech!vars, Speech!TypeOK
<1>2. assistant.turn \in Nat /\ assistant.reply \in 0..MaxReplies
  BY DEF Speech!TypeOK, Speech!Assistant
<1>3. \A x \in {"idle", "drain", "respond", "model", "speak", "play", "decode", "ending", "settle",
                "done"} :
        [assistant EXCEPT !.at = x] \in Speech!Assistant
  BY DEF Speech!TypeOK, Speech!Assistant
<1>4. Holding \/ assistant.at = "model" => assistant.reply \in Speech!Reply
  BY DEF SpeechInv, HeldIsOpen
<1>5. "interrupted" \in Speech!States /\ "generated" \in Speech!States
      /\ "playing" \in Speech!States /\ "played" \in Speech!States
  BY DEF Speech!States
<1>6. CASE Caller
  <2>1. UNCHANGED <<assistant, receipt, pending, failed>>
    BY <1>6 DEF Caller, Speech!Onset, Speech!Utterance, Speech!Frame, Speech!Close, Speech!records
  <2>2. CASE Speech!Onset
    BY <2>1, <2>2, QueueTypes DEF Speech!Onset, Speech!TypeOK
  <2>3. CASE Speech!Utterance
    BY <2>1, <2>3 DEF Speech!Utterance, Speech!TypeOK
  <2>4. CASE Speech!Frame
    <3>1. /\ track # None /\ track.reply \in Speech!Reply
          /\ [track EXCEPT !.started = TRUE] \in Speech!Output
      BY <2>4 DEF Speech!Frame, Speech!TypeOK, Speech!Output
    <3>2. track' \in Speech!Output \cup {None}
      BY <2>4, <3>1 DEF Speech!Frame
    <3>3. heard' \subseteq Speech!Reply
      BY <2>4, <3>1 DEF Speech!Frame, Speech!TypeOK
    <3>4. \/ updates' = Append(updates, <<track.reply, "playing">>)
          \/ updates' = Append(updates, <<track.reply, "played">>)
      BY <2>4 DEF Speech!Frame
    <3>5. updates' \in Seq(Speech!Reply \X Speech!States)
      BY <1>5, <3>1, <3>4, QueueTypes
    <3>. QED
      BY <2>1, <2>4, <3>2, <3>3, <3>5 DEF Speech!Frame, Speech!TypeOK
  <2>5. CASE Speech!Close
    BY <2>1, <2>5, QueueTypes DEF Speech!Close, Speech!TypeOK, Speech!Stop
  <2>. QED
    BY <1>6, <2>2, <2>3, <2>4, <2>5 DEF Caller
<1>7. CASE Speech!Record
  <2>1. /\ updates # << >> /\ updates' = Tail(updates)
        /\ UNCHANGED <<generation, speaking, onsets, track, heard, turn, assistant, over>>
        /\ \/ Speech!Recorded(Head(updates)[1], Head(updates)[2]) /\ UNCHANGED failed
           \/ failed' = TRUE /\ UNCHANGED <<receipt, pending>>
    BY <1>7 DEF Speech!Record, Speech!media, Speech!Unrecorded, Speech!records
  <2>2. Head(updates)[1] \in Speech!Reply /\ Head(updates)[2] \in Speech!States
    BY <2>1, QueueTypes
  <2>3. receipt' \in [Speech!Reply -> Speech!States] /\ pending' \subseteq Speech!Reply
    BY <2>1, <2>2, RecordedTypes DEF Speech!TypeOK
  <2>4. updates' \in Seq(Speech!Reply \X Speech!States)
    BY <2>1, QueueTypes
  <2>. QED
    BY <2>1, <2>3, <2>4 DEF Speech!TypeOK
<1>8. CASE Waits
  <2>1. /\ UNCHANGED <<generation, speaking, onsets, track, heard, updates, receipt, pending, over,
                       failed>>
        /\ turn' \in {turn, None}
    BY <1>8 DEF Waits, Speech!Take, Speech!Drain, Speech!Misheard, Speech!Ask, Speech!Spoken,
      Speech!media, Speech!records
  <2>2. CASE Speech!Take
    <3>1. \A x \in {"idle", "drain", "ending"} : \A g \in Nat :
            [assistant EXCEPT !.at = x, !.turn = g] \in Speech!Assistant
      BY DEF Speech!TypeOK, Speech!Assistant
    <3>2. turn # None /\ turn \in Nat
      BY <2>2 DEF Speech!Take, Speech!TypeOK
    <3>3. assistant' \in Speech!Assistant
      BY <1>2, <2>2, <3>1, <3>2 DEF Speech!Take
    <3>. QED
      BY <2>1, <3>3 DEF Speech!TypeOK
  <2>3. CASE Speech!Ask
    <3>1. assistant' = [assistant EXCEPT !.at = "model", !.reply = assistant.reply + 1]
          /\ assistant.reply < MaxReplies
      BY <2>3 DEF Speech!Ask
    <3>2. assistant.reply + 1 \in 0..MaxReplies
      BY <1>2, <3>1, BoundsAssumption
    <3>3. \A n \in 0..MaxReplies :
            [assistant EXCEPT !.at = "model", !.reply = n] \in Speech!Assistant
      BY DEF Speech!TypeOK, Speech!Assistant
    <3>4. assistant' \in Speech!Assistant
      BY <3>1, <3>2, <3>3
    <3>. QED
      BY <2>1, <3>4 DEF Speech!TypeOK
  <2>4. CASE Speech!Drain \/ Speech!Misheard \/ Speech!Spoken
    <3>1. assistant' \in Speech!Assistant
      BY <1>3, <2>4 DEF Speech!Drain, Speech!Misheard, Speech!Spoken, Speech!To
    <3>. QED
      BY <2>1, <3>1 DEF Speech!TypeOK
  <2>. QED
    BY <1>8, <2>2, <2>3, <2>4 DEF Waits
<1>9. CASE Answers
  <2>1. UNCHANGED <<speaking, onsets, heard>>
    BY <1>9 DEF Answers, Speech!Generate, Speech!Unspoken, Speech!Play, Speech!Enqueue,
      Speech!Break, Speech!End, Speech!Finish, Speech!media
  <2>2. assistant' \in Speech!Assistant
    BY <1>3, <1>9 DEF Answers, Speech!Generate, Speech!Unspoken, Speech!Play, Speech!Enqueue,
      Speech!Break, Speech!End, Speech!Finish, Speech!NotPlayed, Speech!To
  <2>3. CASE Speech!Generate
    BY <1>4, <1>5, <2>1, <2>2, <2>3
      DEF Speech!Generate, Speech!TypeOK, Speech!media, Speech!At
  <2>4. CASE Speech!Unspoken
    <3>1. Holding
      BY <2>4 DEF Speech!Unspoken, Speech!At, Holding
    <3>2. receipt' \in [Speech!Reply -> Speech!States] /\ pending' \subseteq Speech!Reply
      BY <1>4, <1>5, <2>4, <3>1, RecordedTypes DEF Speech!Unspoken
    <3>3. updates' \in Seq(Speech!Reply \X Speech!States)
      BY <1>4, <1>5, <2>4, <3>1, QueueTypes DEF Speech!Unspoken
    <3>. QED
      BY <2>1, <2>2, <2>4, <3>2, <3>3 DEF Speech!Unspoken, Speech!TypeOK, Speech!media
  <2>5. CASE Speech!Play \/ Speech!Enqueue
    <3>1. Holding
      BY <2>5 DEF Speech!Play, Speech!Enqueue, Speech!At, Holding
    <3>2. updates' \in Seq(Speech!Reply \X Speech!States)
      <4>1. updates' = updates \/ updates' = Append(updates, <<assistant.reply, "interrupted">>)
        <5>1. CASE Speech!Play
          BY <5>1 DEF Speech!Play, Speech!NotPlayed
        <5>2. CASE Speech!Enqueue
          BY <5>2 DEF Speech!Enqueue, Speech!NotPlayed
        <5>. QED
          BY <2>5, <5>1, <5>2
      <4>2. updates \in Seq(Speech!Reply \X Speech!States)
        BY DEF Speech!TypeOK
      <4>3. Append(updates, <<assistant.reply, "interrupted">>) \in Seq(Speech!Reply \X Speech!States)
        BY <1>4, <1>5, <3>1, <4>2, QueueTypes
      <4>. QED
        BY <4>1, <4>2, <4>3
    <3>3. track' \in Speech!Output \cup {None}
      <4>1. [reply |-> assistant.reply, of |-> assistant.turn, started |-> FALSE] \in Speech!Output
        BY <1>2, <1>4, <3>1 DEF Speech!Output
      <4>2. \/ track' = track
            \/ track' = [reply |-> assistant.reply, of |-> assistant.turn, started |-> FALSE]
        BY <2>5 DEF Speech!Play, Speech!Enqueue, Speech!media
      <4>. QED
        BY <4>1, <4>2 DEF Speech!TypeOK
    <3>4. UNCHANGED <<generation, turn, receipt, pending, over, failed>>
      BY <2>5 DEF Speech!Play, Speech!Enqueue, Speech!media, Speech!records
    <3>. QED
      BY <2>1, <2>2, <3>2, <3>3, <3>4 DEF Speech!TypeOK
  <2>6. CASE Speech!Break
    <3>1. generation' \in Nat /\ turn' \in {None} \cup Nat
      <4>1. \/ generation' = generation /\ turn' = turn
            \/ generation' = generation + 2 /\ turn' = 0
        BY <2>6, BreakEffect DEF Speech!Stop
      <4>. QED
        BY <4>1 DEF Speech!TypeOK
    <3>2. /\ over' = TRUE /\ failed' \in BOOLEAN /\ track' = None
      BY <2>6, BreakEffect DEF Speech!TypeOK
    <3>3. receipt' \in [Speech!Reply -> Speech!States] /\ pending' \subseteq Speech!Reply
      <4>1. CASE UNCHANGED <<receipt, pending>>
        BY <4>1 DEF Speech!TypeOK
      <4>2. CASE assistant.at = "speak" /\ Speech!Recorded(assistant.reply, "interrupted")
        BY <1>4, <1>5, <4>2, RecordedTypes DEF Holding
      <4>. QED
        BY <2>6, <4>1, <4>2, BreakEffect
    <3>4. updates' \in Seq(Speech!Reply \X Speech!States)
      <4>1. \/ updates' = updates
            \/ Holding /\ updates' = Append(updates, <<assistant.reply, "interrupted">>)
        BY <2>6, BreakEffect DEF Holding
      <4>. QED
        BY <1>4, <1>5, <4>1, QueueTypes DEF Speech!TypeOK
    <3>. QED
      BY <2>1, <2>2, <3>1, <3>2, <3>3, <3>4 DEF Speech!TypeOK
  <2>7. CASE Speech!End
    BY <2>1, <2>2, <2>7, QueueTypes DEF Speech!End, Speech!TypeOK, Speech!records
  <2>8. CASE Speech!Finish
    <3>1. /\ UNCHANGED <<generation, track, turn, updates, over>>
          /\ failed' \in BOOLEAN /\ pending' \subseteq Speech!Reply
      BY <2>8 DEF Speech!Finish, Speech!TypeOK, Speech!media, Speech!Unrecorded, Speech!records
    <3>2. receipt' \in [Speech!Reply -> Speech!States]
      <4>1. \A n \in Speech!Reply : Speech!Settled(receipt[n], "interrupted") \in Speech!States
        BY <1>5 DEF Speech!TypeOK, Speech!Settled
      <4>. QED
        BY <2>8, <4>1 DEF Speech!Finish, Speech!TypeOK, Speech!Unrecorded, Speech!records
    <3>. QED
      BY <2>1, <2>2, <3>1, <3>2 DEF Speech!TypeOK
  <2>. QED
    BY <1>9, <2>3, <2>4, <2>5, <2>6, <2>7, <2>8 DEF Answers
<1>. QED
  BY <1>1, <1>6, <1>7, <1>8, <1>9, SpeechSteps
\* Nothing that plays is stale.
LEMMA StaleStep ==
  ASSUME Speech!TypeOK, SpeechInv, Speech!Next
  PROVE  Speech!NoStaleAnswer'
<1>. Speech!NoStaleAnswer
  BY DEF SpeechInv
<1>1. CASE Caller \/ Speech!Record
  BY <1>1 DEF Caller, Speech!Onset, Speech!Utterance, Speech!Frame, Speech!Close, Speech!Record,
    Speech!media, Speech!NoStaleAnswer, Speech!TypeOK, Speech!Output
<1>2. CASE Speech!Enqueue
  BY <1>2 DEF Speech!Enqueue, Speech!Current, Speech!NoStaleAnswer
<1>3. CASE Speech!Break
  BY <1>3, BreakEffect DEF Speech!NoStaleAnswer
<1>4. CASE Speech!End
  BY <1>4 DEF Speech!End, Speech!NoStaleAnswer
<1>5. CASE Waits \/ Speech!Generate \/ Speech!Unspoken \/ Speech!Play \/ Speech!Finish
  <2>1. UNCHANGED <<track, generation, speaking, over>>
    BY <1>5 DEF Waits, Speech!Take, Speech!Drain, Speech!Misheard, Speech!Ask, Speech!Spoken,
      Speech!Generate, Speech!Unspoken, Speech!Play, Speech!Finish, Speech!media
  <2>. QED
    BY <2>1 DEF Speech!NoStaleAnswer
<1>. QED
  BY <1>1, <1>2, <1>3, <1>4, <1>5 DEF Speech!Next, Caller, Waits

\* The turns stay in order.
LEMMA TurnsStep ==
  ASSUME Speech!TypeOK, SpeechInv, Speech!Next
  PROVE  TurnsInOrder'
<1>1. /\ assistant.turn \in Nat /\ generation \in Nat
      /\ turn # None => turn \in Nat
      /\ Speech!NoStaleAnswer
  BY DEF Speech!TypeOK, Speech!Assistant, SpeechInv
<1>2. TurnsInOrder
  BY DEF SpeechInv
<1>3. CASE Speech!Onset
  <2>1. /\ UNCHANGED <<turn, assistant, over>> /\ generation' = generation + 1 /\ speaking'
        /\ track' = None
    BY <1>3 DEF Speech!Onset
  <2>. QED
    BY <1>1, <1>2, <2>1 DEF TurnsInOrder, Speech!Stop
<1>4. CASE Speech!Utterance
  <2>1. /\ UNCHANGED <<generation, assistant, over, track>> /\ turn' = generation /\ ~speaking'
        /\ speaking
    BY <1>4 DEF Speech!Utterance
  <2>2. track = None
    BY <1>1, <2>1 DEF Speech!NoStaleAnswer
  <2>. QED
    BY <1>1, <1>2, <2>1, <2>2 DEF TurnsInOrder, Speech!Stop
<1>5. CASE Speech!Frame
  <2>1. UNCHANGED <<generation, assistant, over, speaking, turn>> /\ (track = None => track' = None)
    BY <1>5 DEF Speech!Frame
  <2>. QED
    BY <1>2, <2>1 DEF TurnsInOrder
<1>6. CASE Speech!Close
  <2>1. /\ UNCHANGED <<speaking, assistant>> /\ generation' = generation + 2 /\ turn' = 0
        /\ over' = TRUE
    BY <1>6 DEF Speech!Close, Speech!Stop
  <2>. QED
    BY <1>1, <1>2, <2>1 DEF TurnsInOrder, Speech!Stop
<1>7. CASE Speech!Record
  <2>1. UNCHANGED <<generation, assistant, over, speaking, turn, track>>
    BY <1>7 DEF Speech!Record, Speech!media
  <2>. QED
    BY <1>2, <2>1 DEF TurnsInOrder
<1>8. CASE Speech!Take
  <2>1. /\ UNCHANGED <<generation, over, speaking, track>> /\ turn # None /\ turn' = None
        /\ assistant' = [assistant EXCEPT
                           !.at = IF turn = 0 THEN "ending"
                                  ELSE IF turn = generation THEN "drain" ELSE "idle",
                           !.turn = IF turn = 0 THEN assistant.turn ELSE turn]
    BY <1>8 DEF Speech!Take, Speech!media, Speech!Stop
  <2>2. /\ assistant'.at = "ending" => turn = 0
        /\ assistant'.at \in {"ending", "drain", "idle"}
        /\ \/ assistant'.turn = assistant.turn
           \/ assistant'.turn = turn
    BY <2>1 DEF Speech!TypeOK, Speech!Assistant
  <2>. QED
    BY <1>1, <1>2, <2>1, <2>2 DEF TurnsInOrder, Speech!Stop
<1>9. CASE Speech!Enqueue
  <2>1. /\ UNCHANGED <<generation, over, speaking, turn>>
        /\ assistant' = [assistant EXCEPT !.at = "idle"]
        /\ \/ track' = track
           \/ assistant.turn = generation
    BY <1>9 DEF Speech!Enqueue, Speech!Current, Speech!NotPlayed, Speech!To
  <2>2. assistant'.at = "idle" /\ assistant'.turn = assistant.turn
    BY <2>1 DEF Speech!TypeOK, Speech!Assistant
  <2>. QED
    BY <1>1, <1>2, <2>1, <2>2 DEF TurnsInOrder
<1>10. CASE Speech!Break
  <2>1. /\ UNCHANGED speaking /\ over' = TRUE /\ track' = None
        /\ assistant' = [assistant EXCEPT !.at = "ending"]
        /\ \/ UNCHANGED <<generation, turn>> /\ over
           \/ generation' = generation + 2 /\ turn' = 0
    BY <1>10, BreakEffect DEF Speech!Stop
  <2>2. assistant'.turn = assistant.turn
    BY <2>1 DEF Speech!TypeOK, Speech!Assistant
  <2>. QED
    BY <1>1, <1>2, <2>1, <2>2 DEF TurnsInOrder, Speech!Stop
<1>11. CASE Speech!End
  <2>1. /\ UNCHANGED <<speaking, turn, over>> /\ generation' = generation + 1 /\ track' = None
        /\ assistant' = [assistant EXCEPT !.at = "settle"] /\ assistant.at = "ending"
    BY <1>11 DEF Speech!End, Speech!To, Speech!At
  <2>2. assistant'.turn = assistant.turn
    BY <2>1 DEF Speech!TypeOK, Speech!Assistant
  <2>. QED
    BY <1>1, <1>2, <2>1, <2>2 DEF TurnsInOrder, Speech!Stop
<1>12. CASE \/ Speech!Drain \/ Speech!Misheard \/ Speech!Ask \/ Speech!Generate \/ Speech!Spoken
            \/ Speech!Unspoken \/ Speech!Play \/ Speech!Finish
  <2>1. UNCHANGED <<generation, over, speaking, track, turn>>
    BY <1>12 DEF Speech!Drain, Speech!Misheard, Speech!Ask, Speech!Generate, Speech!Spoken,
      Speech!Unspoken, Speech!Play, Speech!Finish, Speech!media
  <2>2. assistant'.turn = assistant.turn
    BY <1>12 DEF Speech!Drain, Speech!Misheard, Speech!Ask, Speech!Generate, Speech!Spoken,
      Speech!Unspoken, Speech!Play, Speech!Finish, Speech!To, Speech!NotPlayed, Speech!TypeOK,
      Speech!Assistant
  <2>3. assistant'.at \in {"ending", "settle", "done"} =>
          over \/ assistant.at \in {"ending", "settle", "done"}
    BY <1>12 DEF Speech!Drain, Speech!Misheard, Speech!Ask, Speech!Generate, Speech!Spoken,
      Speech!Unspoken, Speech!Play, Speech!Finish, Speech!To, Speech!NotPlayed, Speech!At,
      Speech!TypeOK, Speech!Assistant
  <2>. QED
    BY <1>2, <2>1, <2>2, <2>3 DEF TurnsInOrder
<1>. QED
  BY <1>3, <1>4, <1>5, <1>6, <1>7, <1>8, <1>9, <1>10, <1>11, <1>12 DEF Speech!Next

\* The output stays free while the assistant is about a turn.
LEMMA OutputStep ==
  ASSUME Speech!TypeOK, SpeechInv, Speech!Next
  PROVE  OutputIsFree'
<1>1. OutputIsFree /\ TurnsInOrder
  BY DEF SpeechInv
<1>2. CASE Speech!Onset \/ Speech!Close
  <2>1. /\ UNCHANGED assistant /\ track' = None /\ ~over
        /\ updates' = IF track = None THEN updates
                      ELSE Append(updates, <<track.reply, "interrupted">>)
    BY <1>2, Interruptions DEF Speech!Onset, Speech!Close
  <2>2. assistant.at # "done"
    BY <1>1, <2>1 DEF TurnsInOrder
  <2>. QED
    BY <1>1, <2>1, <2>2 DEF OutputIsFree, Answering, Requesting
<1>3. CASE Speech!Frame
  <2>1. UNCHANGED assistant /\ track # None /\ ~over
    BY <1>3 DEF Speech!Frame
  <2>2. assistant.at # "done"
    BY <1>1, <2>1 DEF TurnsInOrder
  <2>. QED
    BY <1>1, <2>1, <2>2 DEF OutputIsFree, Answering, Requesting
<1>4. CASE Speech!Record
  <2>1. UNCHANGED <<assistant, track>> /\ updates # << >>
    BY <1>4 DEF Speech!Record, Speech!media
  <2>. QED
    BY <1>1, <2>1 DEF OutputIsFree, Answering, Requesting
<1>5. CASE Speech!Take
  <2>1. /\ UNCHANGED <<track, updates>>
        /\ assistant'.at \in {"ending", "drain", "idle"}
        /\ assistant'.at = "drain" => turn # None /\ turn # Speech!Stop /\ turn = generation
    BY <1>5 DEF Speech!Take, Speech!media, Speech!TypeOK, Speech!Assistant
  <2>. QED
    BY <1>1, <2>1 DEF OutputIsFree, Answering, Requesting, TurnsInOrder
<1>6. CASE Speech!Drain
  <2>1. /\ UNCHANGED <<track, updates>> /\ updates = << >> /\ assistant.at = "drain"
        /\ assistant'.at \in {"ending", "respond"}
    BY <1>6 DEF Speech!Drain, Speech!Drained, Speech!media, Speech!To, Speech!At, Speech!TypeOK,
      Speech!Assistant
  <2>. QED
    BY <1>1, <2>1 DEF OutputIsFree, Answering, Requesting
<1>7. CASE \/ Speech!Misheard \/ Speech!Ask \/ Speech!Generate \/ Speech!Spoken
  <2>1. UNCHANGED <<track, updates>>
    BY <1>7 DEF Speech!Misheard, Speech!Ask, Speech!Generate, Speech!Spoken, Speech!media
  <2>2. Requesting /\ assistant'.at \in {"ending", "idle", "model", "speak", "play"}
    BY <1>7 DEF Speech!Misheard, Speech!Ask, Speech!Generate, Speech!Spoken, Speech!To, Speech!At,
      Requesting, Speech!TypeOK, Speech!Assistant
  <2>. QED
    BY <1>1, <2>1, <2>2 DEF OutputIsFree, Answering, Requesting
<1>8. CASE Speech!Play
  <2>1. /\ UNCHANGED track /\ Requesting
        /\ \/ assistant'.at = "idle"
           \/ assistant'.at = "decode" /\ UNCHANGED updates
    BY <1>8 DEF Speech!Play, Speech!To, Speech!At, Speech!media, Speech!NotPlayed, Requesting,
      Speech!TypeOK, Speech!Assistant
  <2>. QED
    BY <1>1, <2>1 DEF OutputIsFree, Answering, Requesting
<1>9. CASE Speech!Enqueue \/ Speech!Unspoken \/ Speech!Break \/ Speech!End
  <2>1. assistant'.at \in {"idle", "ending", "settle"}
    BY <1>9 DEF Speech!Enqueue, Speech!Unspoken, Speech!Break, Speech!End, Speech!To,
      Speech!NotPlayed, Speech!TypeOK, Speech!Assistant
  <2>. QED
    BY <2>1 DEF OutputIsFree, Answering, Requesting
<1>10. CASE Speech!Finish
  <2>1. assistant'.at = "done" /\ updates = << >> /\ UNCHANGED updates
    BY <1>10 DEF Speech!Finish, Speech!To, Speech!TypeOK, Speech!Assistant
  <2>. QED
    BY <2>1 DEF OutputIsFree, Answering, Requesting
<1>11. CASE Speech!Utterance
  <2>1. UNCHANGED <<track, updates, assistant>>
    BY <1>11 DEF Speech!Utterance
  <2>. QED
    BY <1>1, <2>1 DEF OutputIsFree, Answering, Requesting
<1>. QED
  BY <1>2, <1>3, <1>4, <1>5, <1>6, <1>7, <1>8, <1>9, <1>10, <1>11 DEF Speech!Next
\* What a step does to the answers: nothing, or it silences the one that plays, lets it begin or
\* end, records what became of one, or brings, drops or plays the one the assistant has.
Quiet ==
  /\ UNCHANGED <<track, updates, heard, receipt, failed>> /\ (Holding' <=> Holding)
  /\ Holding => assistant'.reply = assistant.reply
Silences ==
  /\ track # None /\ track' = None /\ updates' = Append(updates, <<track.reply, "interrupted">>)
  /\ UNCHANGED <<assistant, heard, receipt, failed>>
Sounds ==
  /\ track # None /\ ~track.started /\ track' = [track EXCEPT !.started = TRUE]
  /\ updates' = Append(updates, <<track.reply, "playing">>)
  /\ UNCHANGED <<assistant, heard, receipt, failed>>
Lasts ==
  /\ track # None /\ track.started /\ track' = None
  /\ updates' = Append(updates, <<track.reply, "played">>) /\ heard' = heard \cup {track.reply}
  /\ UNCHANGED <<assistant, receipt, failed>>
Notes ==
  /\ updates # << >> /\ updates' = Tail(updates) /\ UNCHANGED <<assistant, track, heard>>
  /\ \/ /\ receipt' = [receipt EXCEPT ![Head(updates)[1]] =
                         Speech!Settled(receipt[Head(updates)[1]], Head(updates)[2])]
        /\ UNCHANGED failed
     \/ failed' = TRUE /\ UNCHANGED receipt
Brings ==
  /\ assistant.at = "model" /\ assistant'.at = "speak" /\ assistant'.reply = assistant.reply
  /\ receipt' = [receipt EXCEPT ![assistant.reply] = "generated"]
  /\ UNCHANGED <<track, updates, heard, failed>>
Drops ==
  /\ Holding /\ ~Holding' /\ UNCHANGED <<track, heard>>
  /\ \/ failed' = TRUE /\ UNCHANGED <<receipt, updates>>
     \/ /\ UNCHANGED failed /\ updates' = Append(updates, <<assistant.reply, "interrupted">>)
        /\ \/ UNCHANGED receipt
           \/ receipt' = [receipt EXCEPT ![assistant.reply] = "interrupted"]
     \/ /\ UNCHANGED <<failed, updates>>
        /\ receipt' = [receipt EXCEPT ![assistant.reply] = "interrupted"]
Plays ==
  /\ Holding /\ ~Holding'
  /\ track' = [reply |-> assistant.reply, of |-> assistant.turn, started |-> FALSE]
  /\ UNCHANGED <<updates, heard, receipt, failed>>
Completes ==
  /\ ~Holding /\ ~Holding' /\ track = None /\ UNCHANGED <<track, updates, heard>>
  /\ receipt' \in [Speech!Reply -> Speech!States]
  /\ \A n \in Speech!Reply : receipt[n] = "none" => receipt'[n] = "none"
  /\ failed => failed'
  /\ ~failed' => UNCHANGED receipt

\* Every step is one of these.
LEMMA AnswerSteps ==
  ASSUME Speech!TypeOK, SpeechInv, Speech!Next
  PROVE  \/ Quiet \/ Silences \/ Sounds \/ Lasts \/ Notes \/ Brings \/ Drops \/ Plays \/ Completes
<1>1. OutputIsFree /\ HeldIsOpen /\ ReceiptsAreTrue /\ TurnsInOrder /\ Speech!NoStaleAnswer
  BY DEF SpeechInv
<1>2. Speech!Settled("generated", "interrupted") = "interrupted"
  BY DEF Speech!Settled, Speech!Terminal
<1>3. CASE Speech!Onset \/ Speech!Close
  <2>1. /\ UNCHANGED <<assistant, heard, receipt, failed>> /\ track' = None
        /\ updates' = IF track = None THEN updates
                      ELSE Append(updates, <<track.reply, "interrupted">>)
    BY <1>3, Interruptions DEF Speech!Onset, Speech!Close, Speech!records
  <2>. QED
    BY <2>1 DEF Quiet, Silences, Holding
<1>4. CASE Speech!Utterance
  BY <1>4 DEF Speech!Utterance, Speech!records, Quiet, Holding
<1>5. CASE Speech!Frame
  BY <1>5 DEF Speech!Frame, Speech!records, Sounds, Lasts
<1>6. CASE Speech!Record
  BY <1>6 DEF Speech!Record, Speech!media, Speech!Recorded, Speech!Unrecorded, Speech!records, Notes
<1>7. CASE Waits
  <2>1. UNCHANGED <<track, updates, heard, receipt, failed>>
    BY <1>7 DEF Waits, Speech!Take, Speech!Drain, Speech!Misheard, Speech!Ask, Speech!Spoken,
      Speech!media, Speech!records
  <2>2. CASE Speech!Spoken
    <3>1. /\ assistant.at = "speak" /\ assistant'.at = "play"
          /\ assistant'.reply = assistant.reply
      BY <2>2 DEF Speech!Spoken, Speech!At, Speech!To, Speech!TypeOK, Speech!Assistant
    <3>. QED
      BY <2>1, <3>1 DEF Quiet, Holding
  <2>3. CASE Speech!Take \/ Speech!Drain \/ Speech!Misheard \/ Speech!Ask
    <3>1. /\ assistant.at \in {"idle", "drain", "respond"}
          /\ assistant'.at \in {"idle", "drain", "respond", "model", "ending"}
      BY <2>3 DEF Speech!Take, Speech!Drain, Speech!Misheard, Speech!Ask, Speech!At, Speech!To,
        Speech!TypeOK, Speech!Assistant
    <3>. QED
      BY <2>1, <3>1 DEF Quiet, Holding
  <2>. QED
    BY <1>7, <2>2, <2>3 DEF Waits
<1>8. CASE Speech!Generate
  <2>1. assistant' = [assistant EXCEPT !.at = "speak"] /\ assistant.at = "model"
    BY <1>8 DEF Speech!Generate, Speech!To, Speech!At
  <2>2. assistant'.at = "speak" /\ assistant'.reply = assistant.reply
    BY <2>1 DEF Speech!TypeOK, Speech!Assistant
  <2>. QED
    BY <1>8, <2>1, <2>2 DEF Speech!Generate, Speech!media, Brings
<1>9. CASE Speech!Unspoken
  <2>1. Holding /\ assistant'.at = "idle"
    BY <1>9 DEF Speech!Unspoken, Speech!To, Speech!At, Holding, Speech!TypeOK, Speech!Assistant
  <2>2. receipt' = [receipt EXCEPT ![assistant.reply] =
                      Speech!Settled(receipt[assistant.reply], "interrupted")]
    BY <1>9 DEF Speech!Unspoken, Speech!Recorded
  <2>3. receipt' = [receipt EXCEPT ![assistant.reply] = "interrupted"]
    BY <1>1, <1>2, <2>1, <2>2 DEF HeldIsOpen
  <2>. QED
    BY <1>9, <2>1, <2>3 DEF Speech!Unspoken, Speech!media, Drops, Holding
<1>10. CASE Speech!Play
  <2>1. /\ assistant.at = "play" /\ UNCHANGED <<track, heard, receipt, failed>>
        /\ \/ /\ updates' = Append(updates, <<assistant.reply, "interrupted">>)
              /\ assistant' = [assistant EXCEPT !.at = "idle"]
           \/ /\ UNCHANGED updates
              /\ assistant' = [assistant EXCEPT !.at = "decode"]
    BY <1>10 DEF Speech!Play, Speech!At, Speech!To, Speech!NotPlayed, Speech!media, Speech!records
  <2>2. assistant'.reply = assistant.reply
    BY <2>1 DEF Speech!TypeOK, Speech!Assistant
  <2>3. \/ /\ updates' = Append(updates, <<assistant.reply, "interrupted">>)
           /\ assistant'.at = "idle"
        \/ UNCHANGED updates /\ assistant'.at = "decode"
    BY <2>1 DEF Speech!TypeOK, Speech!Assistant
  <2>. QED
    BY <2>1, <2>2, <2>3 DEF Quiet, Drops, Holding
<1>11. CASE Speech!Enqueue
  <2>1. /\ assistant.at = "decode" /\ UNCHANGED <<heard, receipt, failed>>
        /\ assistant' = [assistant EXCEPT !.at = "idle"]
        /\ \/ /\ track' = [reply |-> assistant.reply, of |-> assistant.turn, started |-> FALSE]
              /\ UNCHANGED updates
           \/ /\ updates' = Append(updates, <<assistant.reply, "interrupted">>)
              /\ UNCHANGED track
    BY <1>11 DEF Speech!Enqueue, Speech!At, Speech!To, Speech!NotPlayed, Speech!records
  <2>2. assistant'.at = "idle"
    BY <2>1 DEF Speech!TypeOK, Speech!Assistant
  <2>. QED
    BY <2>1, <2>2 DEF Plays, Drops, Holding
<1>12. CASE Speech!Break
  <2>1. assistant.at \in {"respond", "model", "speak", "decode"}
    BY <1>12 DEF Speech!Break
  <2>2. /\ UNCHANGED <<track, heard>> /\ assistant' = [assistant EXCEPT !.at = "ending"]
        /\ IF assistant.at = "decode"
           THEN updates' = Append(updates, <<assistant.reply, "interrupted">>)
           ELSE UNCHANGED updates
        /\ \/ assistant.at = "speak" /\ Speech!Recorded(assistant.reply, "interrupted")
              /\ UNCHANGED failed
           \/ assistant.at = "speak" /\ failed' = TRUE /\ UNCHANGED receipt
           \/ assistant.at # "speak" /\ UNCHANGED <<receipt, failed>>
    <3>1. \/ assistant.at = "speak" /\ Speech!Recorded(assistant.reply, "interrupted")
              /\ UNCHANGED failed
          \/ assistant.at = "speak" /\ failed' = TRUE /\ UNCHANGED receipt
          \/ assistant.at # "speak" /\ UNCHANGED <<receipt, failed>>
      BY <1>12 DEF Speech!Break, Speech!At, Speech!Unrecorded, Speech!records
    <3>. QED
      BY <1>12, <3>1, BreakEffect
  <2>3. assistant'.at = "ending"
    BY <2>2 DEF Speech!TypeOK, Speech!Assistant
  <2>4. assistant.at = "speak" /\ Speech!Recorded(assistant.reply, "interrupted")
          => receipt' = [receipt EXCEPT ![assistant.reply] = "interrupted"]
    BY <1>1, <1>2 DEF HeldIsOpen, Holding, Speech!Recorded
  <2>. QED
    BY <2>1, <2>2, <2>3, <2>4 DEF Quiet, Drops, Holding
<1>13. CASE Speech!End
  <2>1. /\ assistant.at = "ending" /\ assistant' = [assistant EXCEPT !.at = "settle"]
        /\ UNCHANGED <<heard, receipt, failed>> /\ track' = None
        /\ updates' = IF track = None THEN updates
                      ELSE Append(updates, <<track.reply, "interrupted">>)
    BY <1>13, Interruptions DEF Speech!End, Speech!At, Speech!To, Speech!records
  <2>2. track = None
    BY <1>1, <2>1 DEF TurnsInOrder, Speech!NoStaleAnswer
  <2>3. assistant'.at = "settle"
    BY <2>1 DEF Speech!TypeOK, Speech!Assistant
  <2>. QED
    BY <2>1, <2>2, <2>3 DEF Quiet, Holding
<1>14. CASE Speech!Finish
  <2>1. /\ assistant.at = "settle" /\ updates = << >>
        /\ assistant' = [assistant EXCEPT !.at = "done"]
        /\ UNCHANGED <<track, updates, heard>>
        /\ \/ /\ receipt' = [n \in Speech!Reply |->
                              IF n \in pending THEN Speech!Settled(receipt[n], "interrupted")
                              ELSE receipt[n]]
              /\ UNCHANGED failed
           \/ failed' = TRUE /\ UNCHANGED receipt
    BY <1>14 DEF Speech!Finish, Speech!At, Speech!To, Speech!media, Speech!Unrecorded,
      Speech!records
  <2>2. assistant'.at = "done"
    BY <2>1 DEF Speech!TypeOK, Speech!Assistant
  <2>3. track = None
    BY <1>1, <2>1 DEF TurnsInOrder, Speech!NoStaleAnswer
  <2>4. receipt' \in [Speech!Reply -> Speech!States]
    <3>1. Speech!TypeOK'
      BY SpeechTypeStep
    <3>. QED
      BY <3>1 DEF Speech!TypeOK
  <2>5. \A n \in Speech!Reply : receipt[n] = "none" => receipt'[n] = "none"
    BY <2>1 DEF Speech!Settled
  <2>6. ASSUME ~failed'
        PROVE  UNCHANGED receipt
    <3>1. ~failed
      BY <2>1, <2>6
    <3>2. \A n \in Speech!Reply : ~Says(updates, n, "played") /\ ~Says(updates, n, "interrupted")
      BY <2>1 DEF Says
    <3>3. \A n \in Speech!Reply : receipt[n] = "none" \/ receipt[n] \in Speech!Terminal
      BY <1>1, <2>1, <2>3, <3>1, <3>2 DEF ReceiptsAreTrue, Told, Held, Holding
    <3>4. \A n \in Speech!Reply : Speech!Settled(receipt[n], "interrupted") = receipt[n]
      BY <3>3 DEF Speech!Settled, Speech!Terminal
    <3>5. receipt \in [Speech!Reply -> Speech!States]
      BY DEF Speech!TypeOK
    <3>6. \A n \in Speech!Reply : receipt'[n] = receipt[n]
      BY <2>1, <3>4
    <3>. QED
      BY <2>4, <3>5, <3>6
  <2>7. failed => failed'
    BY <2>1
  <2>. QED
    BY <2>1, <2>2, <2>3, <2>4, <2>5, <2>6, <2>7 DEF Completes, Holding
<1>. QED
  BY <1>3, <1>4, <1>5, <1>6, <1>7, <1>8, <1>9, <1>10, <1>11, <1>12, <1>13, <1>14
    DEF Speech!Next, Waits
\* What a step that is about one answer leaves alone: all that is said of the others.
Elsewhere(m) ==
  \A n \in Speech!Reply : n # m =>
    /\ receipt'[n] = receipt[n] /\ (n \in heard' <=> n \in heard)
    /\ \A state : Says(updates', n, state) <=> Says(updates, n, state)
    /\ InOrder(updates, n) => InOrder(updates', n)
    /\ (track' # None /\ track'.reply = n) <=> (track # None /\ track.reply = n)

\* What joins the queue of receipts about an answer.
LEMMA JoinsQueue ==
  ASSUME Speech!TypeOK, NEW m \in Speech!Reply, NEW s \in Speech!States,
         updates' = Append(updates, <<m, s>>)
  PROVE  /\ \A n \in Speech!Reply : n # m =>
              /\ \A state : Says(updates', n, state) <=> Says(updates, n, state)
              /\ InOrder(updates, n) => InOrder(updates', n)
         /\ \A state : Says(updates', m, state) <=> Says(updates, m, state) \/ state = s
         /\ InOrder(updates, m) /\ (s = "played" => Says(updates, m, "playing"))
              => InOrder(updates', m)
<1>1. PICK u : u = <<m, s>>
  OBVIOUS
<1>2. u \in Speech!Reply \X Speech!States /\ updates \in Seq(Speech!Reply \X Speech!States)
  BY <1>1 DEF Speech!TypeOK
<1>3. /\ \A n, state : Says(updates', n, state) <=> Says(updates, n, state) \/ u = <<n, state>>
      /\ \A n : InOrder(updates, n) /\ (u = <<n, "played">> => Says(updates, n, "playing"))
                  => InOrder(updates', n)
  BY <1>1, <1>2, JoinedQueue
<1>4. \A n, state : u = <<n, state>> <=> n = m /\ state = s
  BY <1>1
<1>. QED
  BY <1>3, <1>4

\* What leaves the queue of receipts.
LEMMA LeavesQueue ==
  ASSUME Speech!TypeOK, updates # << >>, updates' = Tail(updates)
  PROVE  \E m \in Speech!Reply, s \in Speech!States :
           /\ Head(updates)[1] = m /\ Head(updates)[2] = s /\ Says(updates, m, s)
           /\ \A n \in Speech!Reply : n # m =>
                /\ \A state : Says(updates', n, state) <=> Says(updates, n, state)
                /\ InOrder(updates, n) => InOrder(updates', n)
           /\ \A state : Says(updates, m, state) <=> Says(updates', m, state) \/ state = s
           /\ InOrder(updates, m) => s # "played" /\ (s # "playing" => InOrder(updates', m))
<1>1. updates \in Seq(Speech!Reply \X Speech!States)
  BY DEF Speech!TypeOK
<1>2. Head(updates) \in Speech!Reply \X Speech!States
  BY <1>1, LeftQueue
<1>3. PICK m \in Speech!Reply, s \in Speech!States : Head(updates) = <<m, s>>
  BY <1>2
<1>4. PICK u : u = Head(updates)
  OBVIOUS
<1>5. /\ \A n, state : Says(updates, n, state) <=> Says(updates', n, state) \/ u = <<n, state>>
      /\ \A n : InOrder(updates, n) => u # <<n, "played">>
      /\ \A n : InOrder(updates, n) /\ u # <<n, "playing">> => InOrder(updates', n)
  BY <1>1, <1>4, LeftQueue
<1>6. \A n, state : u = <<n, state>> <=> n = m /\ state = s
  BY <1>3, <1>4
<1>7. Head(updates)[1] = m /\ Head(updates)[2] = s
  BY <1>3
<1>. QED
  BY <1>5, <1>6, <1>7

\* A step of the track is about the answer it holds.
LEMMA AboutTrack ==
  ASSUME Speech!TypeOK, Silences \/ Sounds \/ Lasts
  PROVE  track # None /\ track.reply \in Speech!Reply /\ Elsewhere(track.reply)
<1>1. track # None /\ track.reply \in Speech!Reply
  BY DEF Speech!TypeOK, Speech!Output, Silences, Sounds, Lasts
<1>2. PICK s \in Speech!States : updates' = Append(updates, <<track.reply, s>>)
  BY DEF Silences, Sounds, Lasts, Speech!States
<1>3. \A n \in Speech!Reply : n # track.reply =>
        /\ \A state : Says(updates', n, state) <=> Says(updates, n, state)
        /\ InOrder(updates, n) => InOrder(updates', n)
  BY <1>1, <1>2, JoinsQueue
<1>4. track' = None \/ track'.reply = track.reply
  <2>1. Sounds => track' # None /\ track'.reply = track.reply
    <3>1. track \in Speech!Output
      BY <1>1 DEF Speech!TypeOK
    <3>2. [track EXCEPT !.started = TRUE] \in Speech!Output
      BY <3>1 DEF Speech!Output
    <3>. QED
      BY <3>1, <3>2, NoSessionAssumption DEF Sounds, Speech!Output
  <2>. QED
    BY <2>1 DEF Silences, Lasts
<1>5. /\ UNCHANGED receipt
      /\ \A n \in Speech!Reply : n # track.reply => (n \in heard' <=> n \in heard)
  BY DEF Silences, Sounds, Lasts
<1>. QED
  BY <1>1, <1>3, <1>4, <1>5 DEF Elsewhere

\* A step of the recorder is about the answer its receipt names.
LEMMA AboutNote ==
  ASSUME Speech!TypeOK, Notes
  PROVE  Elsewhere(Head(updates)[1])
<1>1. PICK m \in Speech!Reply : /\ Head(updates)[1] = m
                               /\ \A n \in Speech!Reply : n # m =>
                                    /\ \A state : Says(updates', n, state) <=> Says(updates, n, state)
                                    /\ InOrder(updates, n) => InOrder(updates', n)
  BY LeavesQueue DEF Notes
<1>2. /\ UNCHANGED <<track, heard>>
      /\ \A n \in Speech!Reply : n # m => receipt'[n] = receipt[n]
  BY <1>1 DEF Notes, Speech!TypeOK
<1>. QED
  BY <1>1, <1>2 DEF Elsewhere

\* A step of the assistant is about the answer it has.
LEMMA AboutReply ==
  ASSUME Speech!TypeOK, SpeechInv, Brings \/ Drops \/ Plays
  PROVE  assistant.reply \in Speech!Reply /\ track = None /\ Elsewhere(assistant.reply)
<1>1. Holding \/ assistant.at = "model"
  BY DEF Brings, Drops, Plays
<1>2. assistant.reply \in Speech!Reply /\ track = None
  BY <1>1 DEF SpeechInv, HeldIsOpen, OutputIsFree, Holding, Answering
<1>3. \/ UNCHANGED updates
      \/ updates' = Append(updates, <<assistant.reply, "interrupted">>)
  BY DEF Brings, Drops, Plays
<1>4. \A n \in Speech!Reply : n # assistant.reply =>
        /\ \A state : Says(updates', n, state) <=> Says(updates, n, state)
        /\ InOrder(updates, n) => InOrder(updates', n)
  <2>1. CASE UNCHANGED updates
    BY <2>1
  <2>2. CASE updates' = Append(updates, <<assistant.reply, "interrupted">>)
    <3>1. "interrupted" \in Speech!States
      BY DEF Speech!States
    <3>. QED
      BY <1>2, <2>2, <3>1, JoinsQueue
  <2>. QED
    BY <1>3, <2>1, <2>2
<1>5. /\ UNCHANGED heard
      /\ \A n \in Speech!Reply : n # assistant.reply => receipt'[n] = receipt[n]
  BY DEF Brings, Drops, Plays, Speech!TypeOK
<1>6. track' = None \/ track'.reply = assistant.reply
  BY <1>2 DEF Brings, Drops, Plays
<1>. QED
  BY <1>2, <1>4, <1>5, <1>6 DEF Elsewhere

\* No answer becomes one that is still to be asked for.
LEMMA AskedStays ==
  ASSUME Speech!TypeOK, Speech!Next, NEW n \in Speech!Reply, Unasked(n)'
  PROVE  Unasked(n)
<1>1. assistant.reply \in Nat /\ n \in Nat
  BY BoundsAssumption DEF Speech!TypeOK, Speech!Assistant, Speech!Reply
<1>2. CASE Speech!Ask
  <2>1. assistant' = [assistant EXCEPT !.at = "model", !.reply = assistant.reply + 1]
    BY <1>2 DEF Speech!Ask
  <2>2. assistant'.reply = assistant.reply + 1
    BY <2>1 DEF Speech!TypeOK, Speech!Assistant
  <2>. QED
    BY <1>1, <2>2 DEF Unasked
<1>3. CASE UNCHANGED assistant
  BY <1>3 DEF Unasked
<1>4. CASE Speech!Next /\ ~Speech!Ask /\ ~UNCHANGED assistant
  <2>1. assistant'.reply = assistant.reply /\ assistant'.at # "model"
    <3>1. CASE Speech!Take \/ Speech!Drain \/ Speech!Misheard \/ Speech!Generate \/ Speech!Spoken
      BY <3>1 DEF Speech!Take, Speech!Drain, Speech!Misheard, Speech!Generate, Speech!Spoken,
        Speech!To, Speech!TypeOK, Speech!Assistant
    <3>2. CASE \/ Speech!Unspoken \/ Speech!Play \/ Speech!Enqueue \/ Speech!Break \/ Speech!End
               \/ Speech!Finish
      BY <3>2 DEF Speech!Unspoken, Speech!Play, Speech!Enqueue, Speech!Break, Speech!End,
        Speech!Finish, Speech!NotPlayed, Speech!To, Speech!TypeOK, Speech!Assistant
    <3>3. CASE Caller \/ Speech!Record
      BY <1>4, <3>3 DEF Caller, Speech!Onset, Speech!Utterance, Speech!Frame, Speech!Close,
        Speech!Record
    <3>. QED
      BY <1>4, <3>1, <3>2, <3>3 DEF Speech!Next, Caller
  <2>. QED
    BY <1>1, <2>1 DEF Unasked
<1>. QED
  BY <1>2, <1>3, <1>4

\* Nothing is said of an answer before it is there.
LEMMA UnaskedStep ==
  ASSUME Speech!TypeOK, SpeechInv, Speech!Next
  PROVE  NothingUnasked'
<1>1. SUFFICES ASSUME NEW n \in Speech!Reply, Unasked(n)', Unasked(n), Unsaid(n)
               PROVE  Unsaid(n)'
  BY AskedStays DEF SpeechInv, NothingUnasked
<1>2. ASSUME NEW m, m # n, Elsewhere(m)
      PROVE  Unsaid(n)'
  BY <1>1, <1>2 DEF Elsewhere, Unsaid
<1>3. CASE Quiet
  BY <1>1, <1>3 DEF Quiet, Unsaid
<1>4. CASE Silences \/ Sounds \/ Lasts
  BY <1>1, <1>2, <1>4, AboutTrack DEF Unsaid
<1>5. CASE Notes
  <2>1. Head(updates)[1] # n
    BY <1>1, <1>5, LeavesQueue DEF Notes, Unsaid
  <2>. QED
    BY <1>2, <1>5, <2>1, AboutNote
<1>6. CASE Brings \/ Drops \/ Plays
  <2>1. assistant.reply # n
    <3>1. CASE Brings
      <4>1. assistant.reply \in Nat
        BY BoundsAssumption DEF Speech!TypeOK, Speech!Assistant
      <4>. QED
        BY <1>1, <3>1, <4>1 DEF Brings, Unasked
    <3>2. CASE Holding
      BY <1>1, <3>2 DEF SpeechInv, HeldIsOpen, Unsaid
    <3>. QED
      BY <1>6, <3>1, <3>2 DEF Drops, Plays
  <2>. QED
    BY <1>2, <1>6, <2>1, AboutReply
<1>7. CASE Completes
  BY <1>1, <1>7 DEF Completes, Unsaid
<1>. QED
  BY <1>3, <1>4, <1>5, <1>6, <1>7, AnswerSteps
\* The assistant has an answer while it holds one.
LEMMA HasReply ==
  ASSUME Speech!TypeOK, SpeechInv, Speech!Next, Holding' \/ assistant'.at = "model"
  PROVE  assistant'.reply \in Speech!Reply
<1>1. Holding \/ assistant.at = "model" => assistant.reply \in Speech!Reply
  BY DEF SpeechInv, HeldIsOpen
<1>2. CASE Speech!Ask
  <2>1. assistant' = [assistant EXCEPT !.at = "model", !.reply = assistant.reply + 1]
        /\ assistant.reply < MaxReplies
    BY <1>2 DEF Speech!Ask
  <2>2. assistant'.reply = assistant.reply + 1 /\ assistant.reply \in 0..MaxReplies
    BY <2>1 DEF Speech!TypeOK, Speech!Assistant
  <2>. QED
    BY <2>1, <2>2, BoundsAssumption DEF Speech!Reply
<1>3. CASE UNCHANGED assistant
  BY <1>1, <1>3 DEF Holding
<1>4. CASE Speech!Next /\ ~Speech!Ask /\ ~UNCHANGED assistant
  <2>1. CASE Speech!Generate \/ Speech!Spoken \/ Speech!Play
    <3>1. /\ assistant'.reply = assistant.reply /\ (Holding \/ assistant.at = "model")
      BY <2>1 DEF Speech!Generate, Speech!Spoken, Speech!Play, Speech!NotPlayed, Speech!To,
        Speech!At, Holding, Speech!TypeOK, Speech!Assistant
    <3>. QED
      BY <1>1, <3>1
  <2>2. CASE \/ Speech!Take \/ Speech!Drain \/ Speech!Misheard \/ Speech!Unspoken
             \/ Speech!Enqueue \/ Speech!Break \/ Speech!End \/ Speech!Finish
    <3>1. assistant'.at \in {"idle", "drain", "respond", "ending", "settle", "done"}
      BY <2>2 DEF Speech!Take, Speech!Drain, Speech!Misheard, Speech!Unspoken, Speech!Enqueue,
        Speech!Break, Speech!End, Speech!Finish, Speech!NotPlayed, Speech!To, Speech!TypeOK,
        Speech!Assistant
    <3>. QED
      BY <3>1 DEF Holding
  <2>3. CASE Caller \/ Speech!Record
    BY <1>4, <2>3 DEF Caller, Speech!Onset, Speech!Utterance, Speech!Frame, Speech!Close,
      Speech!Record
  <2>. QED
    BY <1>4, <2>1, <2>2, <2>3 DEF Speech!Next, Caller
<1>. QED
  BY <1>2, <1>3, <1>4

\* What plays, or is about to, is not settled.
HeldAnswer == Holding => receipt[assistant.reply] = "generated" /\ assistant.reply \notin heard
TrackAnswer ==
  track # None =>
    /\ track.reply \notin heard /\ ~Says(updates, track.reply, "played")
    /\ ~Says(updates, track.reply, "interrupted")
    /\ receipt[track.reply] \in {"generated", "playing"}
    /\ track.started /\ ~failed =>
         receipt[track.reply] = "playing" \/ Says(updates, track.reply, "playing")

\* The two parts of what is said of an answer that is held.
LEMMA HeldParts == (Holding \/ assistant.at = "model" => assistant.reply \in Speech!Reply)
                   /\ HeldAnswer /\ TrackAnswer <=> HeldIsOpen
BY DEF HeldAnswer, TrackAnswer, HeldIsOpen

\* A step keeps what the assistant holds.
LEMMA HeldStep ==
  ASSUME Speech!TypeOK, SpeechInv, Speech!Next
  PROVE  HeldAnswer'
<1>1. /\ Holding => track = None /\ updates = << >>
      /\ Holding => receipt[assistant.reply] = "generated" /\ assistant.reply \notin heard
  BY DEF SpeechInv, OutputIsFree, Answering, Requesting, Holding, HeldIsOpen
<1>2. CASE Quiet
  BY <1>1, <1>2 DEF Quiet, HeldAnswer
<1>3. CASE Silences \/ Sounds \/ Lasts \/ Notes
  <2>1. UNCHANGED assistant /\ (track # None \/ updates # << >>)
    BY <1>3 DEF Silences, Sounds, Lasts, Notes
  <2>. QED
    BY <1>1, <2>1 DEF HeldAnswer, Holding
<1>4. CASE Brings
  <2>1. assistant.reply \in Speech!Reply
    BY <1>4, AboutReply
  <2>2. Unsaid(assistant.reply)
    BY <1>4, <2>1 DEF Brings, SpeechInv, NothingUnasked, Unasked
  <2>3. receipt'[assistant.reply] = "generated"
    BY <1>4, <2>1 DEF Brings, Speech!TypeOK
  <2>. QED
    BY <1>4, <2>2, <2>3 DEF Brings, HeldAnswer, Unsaid
<1>5. CASE Drops \/ Plays \/ Completes
  BY <1>5 DEF Drops, Plays, Completes, HeldAnswer
<1>. QED
  BY <1>2, <1>3, <1>4, <1>5, AnswerSteps

\* A step keeps what the track holds.
LEMMA TrackStep ==
  ASSUME Speech!TypeOK, SpeechInv, Speech!Next
  PROVE  TrackAnswer'
<1>1. TrackAnswer
  BY DEF SpeechInv, HeldIsOpen, TrackAnswer
<1>2. CASE Quiet
  BY <1>1, <1>2 DEF Quiet, TrackAnswer
<1>3. CASE Silences \/ Lasts \/ Brings \/ Drops \/ Completes
  <2>1. track' = None
    BY <1>3, AboutReply DEF Silences, Lasts, Brings, Drops, Completes
  <2>. QED
    BY <2>1 DEF TrackAnswer
<1>4. CASE Sounds
  <2>1. track # None /\ track.reply \in Speech!Reply /\ track \in Speech!Output
    BY <1>4 DEF Sounds, Speech!TypeOK, Speech!Output
  <2>2. track'.reply = track.reply
    BY <1>4, <2>1 DEF Sounds, Speech!Output
  <2>3. \A state : Says(updates', track.reply, state) <=>
                   Says(updates, track.reply, state) \/ state = "playing"
    <3>1. "playing" \in Speech!States
      BY DEF Speech!States
    <3>. QED
      BY <1>4, <2>1, <3>1, JoinsQueue DEF Sounds
  <2>4. UNCHANGED <<heard, receipt>>
    BY <1>4 DEF Sounds
  <2>. QED
    BY <1>1, <2>1, <2>2, <2>3, <2>4 DEF TrackAnswer
<1>5. CASE Notes
  <2>1. CASE track = None
    BY <1>5, <2>1 DEF Notes, TrackAnswer
  <2>2. CASE track # None
    <3>1. PICK m \in Speech!Reply, s \in Speech!States :
            /\ Head(updates)[1] = m /\ Head(updates)[2] = s /\ Says(updates, m, s)
            /\ \A state : Says(updates, m, state) <=> Says(updates', m, state) \/ state = s
      BY <1>5, LeavesQueue DEF Notes
    <3>2. PICK r \in Speech!Reply : r = track.reply
      BY <2>2 DEF Speech!TypeOK, Speech!Output
    <3>3. UNCHANGED <<track, heard>> /\ (failed => failed')
      BY <1>5 DEF Notes
    <3>4. CASE r # m
      <4>1. /\ receipt'[r] = receipt[r]
            /\ \A state : Says(updates', r, state) <=> Says(updates, r, state)
        BY <1>5, <3>1, <3>2, <3>4, AboutNote DEF Elsewhere
      <4>. QED
        BY <1>1, <2>2, <3>2, <3>3, <4>1 DEF TrackAnswer
    <3>5. CASE r = m
      <4>1. s # "played" /\ s # "interrupted"
        BY <1>1, <2>2, <3>1, <3>2, <3>5 DEF TrackAnswer
      <4>2. ~Says(updates', r, "played") /\ ~Says(updates', r, "interrupted")
        BY <1>1, <2>2, <3>1, <3>2, <3>5 DEF TrackAnswer
      <4>3. receipt[r] \in {"generated", "playing"} /\ r \notin heard
        BY <1>1, <2>2, <3>2 DEF TrackAnswer
      <4>4. /\ receipt'[r] \in {"generated", "playing"}
            /\ ~failed' /\ s = "playing" => receipt'[r] = "playing"
            /\ receipt[r] = "playing" => receipt'[r] = "playing"
        <5>1. CASE UNCHANGED receipt /\ failed' = TRUE
          BY <4>3, <5>1
        <5>2. CASE receipt' = [receipt EXCEPT ![r] = Speech!Settled(receipt[r], s)]
          <6>1. receipt'[r] = Speech!Settled(receipt[r], s)
            BY <5>2 DEF Speech!TypeOK
          <6>. QED
            BY <4>1, <4>3, <6>1 DEF Speech!Settled, Speech!Terminal
        <5>. QED
          BY <1>5, <3>1, <3>5, <5>1, <5>2 DEF Notes
      <4>5. track.started /\ ~failed' => receipt'[r] = "playing" \/ Says(updates', r, "playing")
        BY <1>1, <2>2, <3>1, <3>2, <3>3, <3>5, <4>4 DEF TrackAnswer
      <4>. QED
        BY <3>2, <3>3, <4>2, <4>3, <4>4, <4>5 DEF TrackAnswer
    <3>. QED
      BY <3>4, <3>5
  <2>. QED
    BY <2>1, <2>2
<1>6. CASE Plays
  <2>1. /\ Holding /\ UNCHANGED <<updates, heard, receipt>>
        /\ track'.reply = assistant.reply /\ track'.started = FALSE
    BY <1>6 DEF Plays
  <2>2. updates = << >>
    BY <2>1 DEF SpeechInv, OutputIsFree, Requesting, Holding
  <2>3. \A n, state : ~Says(updates, n, state)
    BY <2>2 DEF Says
  <2>4. receipt[assistant.reply] = "generated" /\ assistant.reply \notin heard
    BY <2>1 DEF SpeechInv, HeldIsOpen
  <2>. QED
    BY <2>1, <2>3, <2>4 DEF TrackAnswer
<1>. QED
  BY <1>2, <1>3, <1>4, <1>5, <1>6, AnswerSteps

\* The receipts stay true.
LEMMA TruthStep ==
  ASSUME Speech!TypeOK, SpeechInv, Speech!Next
  PROVE  ReceiptsAreTrue'
<1>1. CASE failed'
  BY <1>1 DEF ReceiptsAreTrue
<1>2. ASSUME ~failed'
      PROVE  ReceiptsAreTrue'
  <2>1. ~failed
    BY <1>2, AnswerSteps DEF Quiet, Silences, Sounds, Lasts, Notes, Brings, Drops, Plays, Completes
  <2>2. SUFFICES ASSUME NEW n \in Speech!Reply, Told(n)
                 PROVE  Told(n)'
    BY <2>1 DEF SpeechInv, ReceiptsAreTrue
  <2>3. TrackAnswer /\ HeldAnswer
    BY DEF SpeechInv, HeldIsOpen, TrackAnswer, HeldAnswer
  <2>4. CASE Quiet
    <3>1. Held(n) => Held(n)'
      BY <2>4 DEF Quiet, Held
    <3>. QED
      BY <2>2, <2>4, <3>1 DEF Quiet, Told
  <2>5. CASE Silences \/ Sounds \/ Lasts
    <3>1. track # None /\ track.reply \in Speech!Reply /\ Elsewhere(track.reply)
      BY <2>5, AboutTrack
    <3>2. UNCHANGED <<assistant, receipt>>
      BY <2>5 DEF Silences, Sounds, Lasts
    <3>3. CASE n # track.reply
      <4>1. Held(n) <=> Held(n)'
        BY <3>1, <3>2, <3>3 DEF Elsewhere, Held, Holding
      <4>. QED
        BY <2>2, <3>1, <3>3, <4>1 DEF Elsewhere, Told
    <3>4. CASE n = track.reply
      <4>1. /\ n \notin heard /\ receipt[n] \in {"generated", "playing"}
            /\ ~Says(updates, n, "played") /\ ~Says(updates, n, "interrupted")
            /\ track.started => receipt[n] = "playing" \/ Says(updates, n, "playing")
        BY <2>1, <2>3, <3>1, <3>4 DEF TrackAnswer
      <4>2. InOrder(updates, n) \/ receipt[n] # "generated"
        BY <2>2 DEF Told
      <4>3. ASSUME NEW s \in Speech!States, updates' = Append(updates, <<n, s>>)
            PROVE  /\ \A state : Says(updates', n, state) <=> Says(updates, n, state) \/ state = s
                   /\ InOrder(updates, n) /\ (s = "played" => Says(updates, n, "playing"))
                        => InOrder(updates', n)
        BY <4>3, JoinsQueue
      <4>4. CASE Silences
        <5>1. /\ \A state : Says(updates', n, state) <=>
                            Says(updates, n, state) \/ state = "interrupted"
              /\ InOrder(updates, n) => InOrder(updates', n)
          BY <3>4, <4>3, <4>4 DEF Silences, Speech!States
        <5>. QED
          BY <3>2, <4>1, <4>2, <4>4, <5>1 DEF Silences, Told
      <4>5. CASE Sounds
        <5>1. /\ \A state : Says(updates', n, state) <=>
                            Says(updates, n, state) \/ state = "playing"
              /\ InOrder(updates, n) => InOrder(updates', n)
          BY <3>4, <4>3, <4>5 DEF Sounds, Speech!States
        <5>2. track' # None /\ track'.reply = n
          <6>1. track \in Speech!Output
            BY <3>1 DEF Speech!TypeOK
          <6>2. track' \in Speech!Output /\ track'.reply = n
            BY <3>4, <4>5, <6>1 DEF Sounds, Speech!Output
          <6>. QED
            BY <6>2, NoSessionAssumption
        <5>3. Held(n)'
          BY <5>2 DEF Held
        <5>. QED
          BY <3>2, <4>1, <4>2, <4>5, <5>1, <5>3 DEF Sounds, Told
      <4>6. CASE Lasts
        <5>1. /\ \A state : Says(updates', n, state) <=>
                            Says(updates, n, state) \/ state = "played"
              /\ InOrder(updates, n) /\ Says(updates, n, "playing") => InOrder(updates', n)
          BY <3>4, <4>3, <4>6 DEF Lasts, Speech!States
        <5>2. n \in heard'
          BY <3>4, <4>6 DEF Lasts
        <5>3. receipt[n] = "playing" \/ Says(updates, n, "playing")
          BY <4>1, <4>6 DEF Lasts
        <5>. QED
          BY <3>2, <4>1, <4>2, <5>1, <5>2, <5>3 DEF Told
      <4>. QED
        BY <2>5, <4>4, <4>5, <4>6
    <3>. QED
      BY <3>3, <3>4
  <2>6. CASE Notes
    <3>1. PICK m \in Speech!Reply, s \in Speech!States :
            /\ Head(updates)[1] = m /\ Head(updates)[2] = s /\ Says(updates, m, s)
            /\ \A state : Says(updates, m, state) <=> Says(updates', m, state) \/ state = s
            /\ InOrder(updates, m) => s # "played" /\ (s # "playing" => InOrder(updates', m))
      BY <2>6, LeavesQueue DEF Notes
    <3>2. /\ UNCHANGED <<assistant, track, heard>>
          /\ receipt' = [receipt EXCEPT ![m] = Speech!Settled(receipt[m], s)]
      BY <1>2, <2>6, <3>1 DEF Notes
    <3>3. Held(n) <=> Held(n)'
      BY <3>2 DEF Held, Holding
    <3>4. CASE n # m
      BY <2>2, <2>6, <3>1, <3>3, <3>4, AboutNote DEF Elsewhere, Told
    <3>5. CASE n = m
      <4>1. receipt'[n] = Speech!Settled(receipt[n], s)
        BY <3>2, <3>5 DEF Speech!TypeOK
      <4>2. /\ s = "played" => n \in heard /\ receipt[n] # "generated"
            /\ s = "interrupted" => n \notin heard
        BY <2>2, <3>1, <3>5 DEF Told
      <4>3. /\ n \in heard => receipt'[n] # "interrupted" /\ ~Says(updates', n, "interrupted")
            /\ n \notin heard => receipt'[n] # "played" /\ ~Says(updates', n, "played")
        BY <2>2, <3>1, <3>5, <4>1, <4>2 DEF Told, Speech!Settled, Speech!Terminal
      <4>4. receipt'[n] = "generated" => InOrder(updates', n)
        BY <2>2, <3>1, <3>5, <4>1 DEF Told, Speech!Settled, Speech!Terminal
      <4>5. ASSUME receipt'[n] # "none", ~Held(n)
            PROVE  \/ receipt'[n] \in Speech!Terminal
                   \/ Says(updates', n, "played") \/ Says(updates', n, "interrupted")
        <5>1. receipt[n] \in Speech!States /\ receipt[n] # "none"
          BY <4>1, <4>5 DEF Speech!Settled, Speech!TypeOK, Speech!Terminal
        <5>2. CASE receipt[n] \in Speech!Terminal
          BY <4>1, <5>2 DEF Speech!Settled, Speech!Terminal
        <5>3. CASE s \in {"played", "interrupted"}
          BY <4>1, <4>2, <5>1, <5>3 DEF Speech!Settled, Speech!Terminal, Speech!States
        <5>4. CASE receipt[n] \notin Speech!Terminal /\ s \notin {"played", "interrupted"}
          BY <2>2, <3>1, <3>5, <4>5, <5>1, <5>4 DEF Told
        <5>. QED
          BY <5>2, <5>3, <5>4
      <4>. QED
        BY <3>2, <3>3, <4>3, <4>4, <4>5 DEF Told
    <3>. QED
      BY <3>4, <3>5
  <2>7. CASE Brings \/ Drops \/ Plays
    <3>1. assistant.reply \in Speech!Reply /\ track = None /\ Elsewhere(assistant.reply)
      BY <2>7, AboutReply
    <3>2. Requesting
      BY <2>7 DEF Brings, Drops, Plays, Holding, Requesting
    <3>3. updates = << >>
      BY <3>2 DEF SpeechInv, OutputIsFree
    <3>4. \A state : ~Says(updates, n, state) /\ InOrder(updates, n)
      BY <3>3 DEF Says, InOrder
    <3>5. CASE n # assistant.reply
      <4>1. Held(n) => Held(n)'
        BY <3>1, <3>5 DEF Held
      <4>. QED
        BY <2>2, <3>1, <3>5, <4>1 DEF Elsewhere, Told
    <3>6. CASE n = assistant.reply
      <4>1. CASE Brings
        <5>1. Unsaid(n)
          BY <3>6, <4>1 DEF Brings, SpeechInv, NothingUnasked, Unasked
        <5>2. receipt'[n] = "generated"
          BY <3>6, <4>1 DEF Brings, Speech!TypeOK
        <5>3. Held(n)' /\ UNCHANGED <<updates, heard>>
          BY <3>6, <4>1 DEF Brings, Held, Holding
        <5>. QED
          BY <3>4, <5>1, <5>2, <5>3 DEF Told, Unsaid
      <4>2. CASE Plays
        <5>1. /\ receipt[n] = "generated" /\ n \notin heard
              /\ UNCHANGED <<updates, heard, receipt>>
          BY <2>3, <3>6, <4>2 DEF Plays, HeldAnswer
        <5>2. Held(n)'
          <6>1. [reply |-> assistant.reply, of |-> assistant.turn, started |-> FALSE]
                  \in Speech!Output
            BY <3>1 DEF Speech!TypeOK, Speech!Assistant, Speech!Output
          <6>2. track' # None /\ track'.reply = n
            BY <3>6, <4>2, <6>1, NoSessionAssumption DEF Plays
          <6>. QED
            BY <6>2 DEF Held
        <5>. QED
          BY <3>4, <5>1, <5>2 DEF Told
      <4>3. CASE Drops
        <5>1. receipt[n] = "generated" /\ n \notin heard /\ UNCHANGED heard
          BY <2>3, <3>6, <4>3 DEF Drops, HeldAnswer
        <5>2. \/ UNCHANGED updates
              \/ updates' = Append(updates, <<n, "interrupted">>)
          BY <3>6, <4>3 DEF Drops
        <5>3. /\ ~Says(updates', n, "played") /\ InOrder(updates', n)
              /\ updates' # updates => Says(updates', n, "interrupted")
          <6>1. "interrupted" \in Speech!States
            BY DEF Speech!States
          <6>2. CASE UNCHANGED updates
            BY <3>4, <6>2 DEF Says, InOrder
          <6>3. CASE updates' = Append(updates, <<n, "interrupted">>)
            BY <3>4, <6>1, <6>3, JoinsQueue
          <6>. QED
            BY <5>2, <6>2, <6>3
        <5>4. \/ receipt'[n] = "interrupted"
              \/ receipt'[n] = "generated" /\ updates' # updates
          <6>1. \/ receipt' = receipt /\ updates' = Append(updates, <<n, "interrupted">>)
                \/ receipt' = [receipt EXCEPT ![n] = "interrupted"]
            BY <1>2, <3>6, <4>3 DEF Drops
          <6>2. Append(updates, <<n, "interrupted">>) # << >>
            BY <3>3
          <6>. QED
            BY <3>3, <5>1, <6>1, <6>2 DEF Speech!TypeOK
        <5>. QED
          BY <5>1, <5>3, <5>4 DEF Told, Speech!Terminal
      <4>. QED
        BY <2>7, <4>1, <4>2, <4>3
    <3>. QED
      BY <3>5, <3>6
  <2>8. CASE Completes
    <3>1. ~Held(n) /\ UNCHANGED <<track, updates, heard, receipt>>
      BY <1>2, <2>8 DEF Completes, Held
    <3>. QED
      BY <2>2, <3>1 DEF Told
  <2>. QED
    BY <2>4, <2>5, <2>6, <2>7, <2>8, AnswerSteps
<1>. QED
  BY <1>1, <1>2
\* The invariant of what is said in a call, step by step.
LEMMA SpeechInvStep ==
  ASSUME Speech!TypeOK, SpeechInv, [Speech!Next]_(Speech!vars)
  PROVE  SpeechInv'
<1>1. CASE UNCHANGED Speech!vars
  BY <1>1 DEF Speech!vars, SpeechInv, Speech!NoStaleAnswer, TurnsInOrder, OutputIsFree,
    NothingUnasked, HeldIsOpen, ReceiptsAreTrue, Answering, Requesting, Holding, Unasked, Unsaid,
    Told, Held
<1>2. CASE Speech!Next
  <2>1. Speech!NoStaleAnswer' /\ TurnsInOrder' /\ OutputIsFree'
    BY <1>2, StaleStep, TurnsStep, OutputStep
  <2>2. NothingUnasked' /\ ReceiptsAreTrue'
    BY <1>2, UnaskedStep, TruthStep
  <2>3. HeldIsOpen'
    <3>1. HeldAnswer' /\ TrackAnswer'
      BY <1>2, HeldStep, TrackStep
    <3>2. Holding' \/ assistant'.at = "model" => assistant'.reply \in Speech!Reply
      BY <1>2, HasReply
    <3>. QED
      BY <3>1, <3>2 DEF HeldAnswer, TrackAnswer, HeldIsOpen
  <2>. QED
    BY <2>1, <2>2, <2>3 DEF SpeechInv
<1>. QED
  BY <1>1, <1>2

\* A behaviour of the conversations is, for what is said in a call, one of its own.
LEMMA SpeechInvariance == ConversationsSpec => [](Speech!TypeOK /\ SpeechInv)
<1>1. ASSUME ConversationsInit
      PROVE  Speech!TypeOK /\ SpeechInv
  <2>1. Speech!Init
    BY <1>1 DEF ConversationsInit
  <2>2. /\ assistant = [at |-> "idle", turn |-> 0, reply |-> 0] /\ track = None
        /\ generation = 0 /\ turn = None /\ ~speaking /\ updates = << >> /\ heard = {}
        /\ receipt = [n \in Speech!Reply |-> "none"]
    BY <2>1 DEF Speech!Init
  <2>3. Speech!TypeOK
    <3>1. assistant \in Speech!Assistant
      BY <2>2, BoundsAssumption DEF Speech!Assistant
    <3>2. updates \in Seq(Speech!Reply \X Speech!States)
      BY <2>2
    <3>3. receipt \in [Speech!Reply -> Speech!States]
      BY <2>2 DEF Speech!States
    <3>4. onsets \in 0..MaxOnsets
      BY <2>1, BoundsAssumption DEF Speech!Init
    <3>5. over = FALSE /\ failed = FALSE /\ pending = {}
      BY <2>1 DEF Speech!Init
    <3>6. /\ generation \in Nat /\ speaking \in BOOLEAN
          /\ turn \in {None} \cup Nat /\ track \in Speech!Output \cup {None}
      BY <2>1 DEF Speech!Init
    <3>7. heard \subseteq Speech!Reply
      BY <2>2
    <3>. QED
      BY <3>1, <3>2, <3>3, <3>4, <3>5, <3>6, <3>7 DEF Speech!TypeOK
  <2>4. Speech!NoStaleAnswer /\ OutputIsFree /\ TurnsInOrder
    BY <2>2 DEF Speech!NoStaleAnswer, OutputIsFree, Answering, Requesting, TurnsInOrder
  <2>5. NothingUnasked /\ HeldIsOpen
    BY <2>2 DEF NothingUnasked, Unasked, Unsaid, Says, HeldIsOpen, Holding
  <2>6. ReceiptsAreTrue
    BY <2>2 DEF ReceiptsAreTrue, Told, Says
  <2>. QED
    BY <2>3, <2>4, <2>5, <2>6 DEF SpeechInv
<1>2. [ConversationsNext]_allVars => [Speech!Next]_(Speech!vars)
  BY DEF ConversationsNext, TurnStep, CallStep, SpeechStep, MemoryStep, ReportStep, allVars,
    speechVars, Speech!vars
<1>3. Speech!TypeOK /\ SpeechInv /\ [ConversationsNext]_allVars => (Speech!TypeOK /\ SpeechInv)'
  BY <1>2, SpeechTypeStep, SpeechInvStep
<1>. QED
  BY <1>1, <1>3, PTL DEF ConversationsSpec

\* What is written of an answer that is not held, once nothing is left to write.
LEMMA WrittenIsHeard ==
  ASSUME Speech!TypeOK, SpeechInv, ~failed, updates = << >>, NEW n \in Speech!Reply, ~Held(n),
         receipt[n] # "none"
  PROVE  receipt[n] = IF n \in heard THEN "played" ELSE "interrupted"
<1>1. Told(n)
  BY DEF SpeechInv, ReceiptsAreTrue
<1>2. \A state : ~Says(updates, n, state)
  BY DEF Says
<1>. QED
  BY <1>1, <1>2 DEF Told, Speech!Terminal

\* The request knows what was heard, nothing that plays is stale, and at the end every answer is
\* settled.
LEMMA SpeechIsKept ==
  ASSUME Speech!TypeOK, SpeechInv
  PROVE  Speech!RequestKnowsWhatWasHeard /\ Speech!NoStaleAnswer /\ Speech!SettledAtEnd
<1>1. Speech!RequestKnowsWhatWasHeard
  <2>1. SUFFICES ASSUME assistant.at = "model", ~failed, NEW n \in 1..(assistant.reply - 1),
                        receipt[n] # "none"
                 PROVE  receipt[n] = IF n \in heard THEN "played" ELSE "interrupted"
    BY DEF Speech!RequestKnowsWhatWasHeard, Speech!At
  <2>2. n \in Speech!Reply
    BY BoundsAssumption DEF Speech!TypeOK, Speech!Assistant, Speech!Reply
  <2>3. updates = << >> /\ ~Held(n)
    BY <2>1 DEF SpeechInv, OutputIsFree, Answering, Requesting, Held, Holding
  <2>. QED
    BY <2>1, <2>2, <2>3, WrittenIsHeard
<1>2. Speech!SettledAtEnd
  <2>1. SUFFICES ASSUME assistant.at = "done", ~failed, NEW n \in Speech!Reply,
                        receipt[n] # "none"
                 PROVE  receipt[n] = IF n \in heard THEN "played" ELSE "interrupted"
    BY DEF Speech!SettledAtEnd, Speech!At
  <2>2. updates = << >> /\ ~Held(n)
    BY <2>1 DEF SpeechInv, OutputIsFree, TurnsInOrder, Speech!NoStaleAnswer, Held, Holding
  <2>. QED
    BY <2>1, <2>2, WrittenIsHeard
<1>. QED
  BY <1>1, <1>2 DEF SpeechInv

\* Whatever the caller, the webhooks, the recorder and the assistant do in whatever order: a call
\* is answered once and within the limits, no answered call is left to itself, nothing plays that
\* was talked over, and what the database says of an answer is what was heard of it.
THEOREM KeptCalls == ConversationsSpec => []CallsAreKept
<1>1. Calls!TypeOK /\ CallInv /\ Speech!TypeOK /\ SpeechInv => CallsAreKept
  BY AnsweredOnceHolds, NoCallIsForgottenHolds, SpeechIsKept DEF CallsAreKept
<1>. QED
  BY <1>1, CallInvariance, SpeechInvariance, PTL

-----------------------------------------------------------------------------
(* All of them *)

\* A behaviour of the conversations is, for the turns, one of AgentRun: what is proved of its
\* turns holds of them.
THEOREM TurnsOfConversations == ConversationsSpec => Spec
<1>1. ConversationsInit => Init
  BY DEF ConversationsInit
<1>2. [ConversationsNext]_allVars => [Next]_vars
  BY DEF ConversationsNext, TurnStep, CallStep, SpeechStep, MemoryStep, ReportStep, allVars
<1>. QED
  BY <1>1, <1>2, PTL DEF ConversationsSpec, Spec

\* The turns, the calls, what is said in them, the memory and the reports are what their types
\* say, for any turns, workers, formats and bounds.
THEOREM ConversationsTypes == ConversationsSpec => []ConversationsTypeOK
<1>1. /\ TypeOK /\ Calls!TypeOK /\ Speech!TypeOK /\ Memory!TypeOK /\ Reports!TypeOK
      => ConversationsTypeOK
  BY DEF ConversationsTypeOK
<1>. QED
  BY <1>1, TurnsOfConversations, TypeCorrect, CallInvariance, SpeechInvariance, MemoryInvariance,
    ReportInvariance, PTL

=============================================================================
