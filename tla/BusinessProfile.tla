---------------------------- MODULE BusinessProfile ----------------------------
(***************************************************************************)
(* The merchant's business profile (services/business_onboarding.py): a    *)
(* few questions answered into a draft, reviewed and saved, and changes    *)
(* the agent proposes and the merchant confirms.  The web application      *)
(* sends commands with the revision its page shows; a chat message is a    *)
(* command on the profile as it is; the agent's tool proposes.             *)
(*                                                                         *)
(* Every writer holds the tenant's row, so each handler is one step.       *)
(***************************************************************************)
EXTENDS Integers

CONSTANTS
  User,        \* owners and admins of the business
  Questions,   \* number of questions
  Value,       \* answers, a set of positive numbers
  MaxRevision  \* bound: changes of the profile

VARIABLES
  state,    \* the JSON state of the row
  armed,    \* of each user: the first WhatsApp message is to open the setup
  page,     \* of each user: the profile as their page shows it
  said      \* of each question: the last answer given or confirmed

vars == <<state, armed, page, said>>

Field == 1..Questions
Welcome == 0
Review == Questions + 1
Done == Questions + 2

Facts == [Field -> {0} \cup Value]
Unanswered == [f \in Field |-> 0]

NoUpdate == [user |-> "none", changes |-> Unanswered, expired |-> FALSE]

Profile == [status : {"not_started", "in_progress", "review", "paused", "completed"},
            step : Welcome..Done, draft : Facts, answers : Facts,
            pending : [user : User \cup {"none"}, changes : Facts, expired : BOOLEAN],
            revision : 0..MaxRevision + 3]

TypeOK ==
  /\ state \in Profile
  /\ armed \in [User -> BOOLEAN]
  /\ page \in [User -> Profile]
  /\ said \in Facts

Fresh == [status |-> "not_started", step |-> Welcome, draft |-> Unanswered, answers |-> Unanswered,
          pending |-> NoUpdate, revision |-> 0]

Init ==
  /\ state = Fresh
  /\ armed = [u \in User |-> FALSE]
  /\ page = [u \in User |-> Fresh]
  /\ said = Unanswered

-----------------------------------------------------------------------------
(* The commands of apply_command, on a profile s. *)

Updated(facts, changes) == [f \in Field |-> IF changes[f] # 0 THEN changes[f] ELSE facts[f]]

Saved(s) == [s EXCEPT !.revision = @ + 1]
Dropped(s) == [s EXCEPT !.pending = NoUpdate]

\* An edit of saved answers starts from a copy of them.
Opened(s) == [Dropped(s) EXCEPT !.draft = IF @ = Unanswered THEN s.answers ELSE @]

Missing(draft) == {f \in Field : draft[f] = 0}
First(fields) == CHOOSE f \in fields : \A g \in fields : f <= g
Ask(draft) == IF Missing(draft) = {} THEN Review ELSE First(Missing(draft))
At(s, step) ==
  [s EXCEPT !.step = step, !.status = IF step = Review THEN "review" ELSE "in_progress"]

Start(s) == Saved(At(Opened(s), Ask(Opened(s).draft)))
Edit(s, f) == Saved(At(Opened(s), f))
Pause(s) == Saved([s EXCEPT !.status = IF s.answers = Unanswered THEN "paused" ELSE "completed"])
Back(s) ==
  Saved(At(Dropped(s), IF s.step \in 2..Review THEN s.step - 1 ELSE 1))

\* The next open question after this one, then any open one, then the review.
AfterAnswer(draft, f) ==
  LET later == {g \in Missing(draft) : g > f}
  IN IF later = {} THEN Ask(draft) ELSE First(later)

MayAnswer(s, f) == s.status = "in_progress" /\ s.step = f
Answer(s, f, v) ==
  LET draft == [s.draft EXCEPT ![f] = v]
  IN Saved(At([Dropped(s) EXCEPT !.draft = draft], AfterAnswer(draft, f)))

MayComplete(s) == s.status = "review" /\ Missing(s.draft) = {}
Complete(s) ==
  Saved([Dropped(s) EXCEPT !.answers = s.draft, !.draft = Unanswered, !.status = "completed",
                           !.step = Done])

MayDecide(s, u) == s.pending.user = u /\ ~s.pending.expired
Reject(s) == Saved(Dropped(s))

\* Mutant of Confirm: a draft that was put aside keeps the old facts.
ConfirmAnswers(s) == Saved([Dropped(s) EXCEPT !.answers = Updated(@, s.pending.changes)])

Confirm(s) ==
  Saved([Dropped(s) EXCEPT
    !.answers = Updated(@, s.pending.changes),
    !.draft = IF @ = Unanswered THEN @ ELSE Updated(@, s.pending.changes)])

-----------------------------------------------------------------------------
(* The web application. *)

Load(u) ==
  /\ page' = [page EXCEPT ![u] = state]
  /\ UNCHANGED <<state, armed, said>>

Becomes(s) == state' = s /\ UNCHANGED <<armed, page>>

\* A command of a page of an older revision is a conflict.
Shown(u) == page[u].revision = state.revision

Command(u) ==
  /\ Shown(u)
  /\ state.revision < MaxRevision
  /\ \/ /\ \/ Becomes(Start(state)) \/ Becomes(Pause(state)) \/ Becomes(Back(state))
           \/ \E f \in Field : Becomes(Edit(state, f))
           \/ MayComplete(state) /\ Becomes(Complete(state))
           \/ MayDecide(state, u) /\ Becomes(Reject(state))
        /\ UNCHANGED said
     \/ \E f \in Field, v \in Value :
          /\ MayAnswer(state, f)
          /\ Becomes(Answer(state, f, v))
          /\ said' = [said EXCEPT ![f] = v]
     \/ /\ MayDecide(state, u)
        /\ Becomes(Confirm(state))
        /\ said' = Updated(said, state.pending.changes)

-----------------------------------------------------------------------------
(* Chat: chat_reply. *)

Setup == {"in_progress", "review"}
Explicit == {"pause", "start", "resume", "back", "save", "edit"}

\* What a message makes of the profile; most messages go on to the agent.
Reply(s, kind, f, v) ==
  CASE kind \in {"media", "pause", "help"} -> IF s.status \in Setup THEN Pause(s) ELSE s
    [] kind = "start" -> Start(s)
    [] kind = "resume" -> IF s.status # "completed" THEN Start(s) ELSE s
    [] kind = "back" -> IF s.status \in Setup THEN Back(s) ELSE s
    [] kind = "save" /\ s.step = Review -> IF MayComplete(s) THEN Complete(s) ELSE s
    [] kind = "edit" /\ s.step = Review -> IF s.status \in Setup THEN Edit(s, f) ELSE s
    [] kind \in {"text", "save", "edit"} /\ s.step = f -> IF MayAnswer(s, f) THEN Answer(s, f, v) ELSE s
    [] OTHER -> s

\* The first message of an armed number opens the setup; the message is answered by the
\* question that comes, unless it asks for help.
Opening(s, kind) ==
  LET disarmed == Saved(s)
  IN IF s.status \in {"not_started", "paused"} /\ kind \notin Explicit THEN Start(disarmed)
     ELSE disarmed

Message(u, kind, f, v) ==
  LET opens == armed[u] /\ kind # "media"
      s == IF opens THEN Opening(state, kind) ELSE state
      asked == opens /\ state.status \in {"not_started", "paused"} /\ kind = "text"
      after == IF asked THEN s ELSE Reply(s, kind, f, v)
  IN /\ state.revision < MaxRevision
     /\ state' = after
     /\ armed' = [armed EXCEPT ![u] = @ /\ kind = "media"]
     /\ said' = IF kind \in {"text", "save", "edit"} /\ ~asked /\ MayAnswer(s, f)
                THEN [said EXCEPT ![f] = v] ELSE said
     /\ UNCHANGED page

\* SAVE PROFILE with the code of the update, or KEEP PROFILE.
Decide(u) ==
  /\ state.revision < MaxRevision
  /\ MayDecide(state, u)
  /\ \/ Becomes(Confirm(state)) /\ said' = Updated(said, state.pending.changes)
     \/ Becomes(Reject(state)) /\ UNCHANGED said

-----------------------------------------------------------------------------
(* The agent, time, and the operator. *)

\* Mutant of Proposed: the page's revision still holds.
ProposedQuietly(s, u, changes) ==
  [s EXCEPT !.pending = [user |-> u, changes |-> changes, expired |-> FALSE]]

\* propose_update: a new proposal takes the place of the one before.
Proposed(s, u, changes) ==
  Saved([s EXCEPT !.pending = [user |-> u, changes |-> changes, expired |-> FALSE]])

Propose(u) ==
  /\ state.revision < MaxRevision
  /\ state.status = "completed"
  /\ \E changes \in Facts \ {Unanswered} : Becomes(Proposed(state, u, changes))
  /\ UNCHANGED said

Expire ==
  /\ state.pending.user # "none"
  /\ Becomes([state EXCEPT !.pending.expired = TRUE])
  /\ UNCHANGED said

\* arm_pilot_inbound_defaults.
Arm(u) ==
  /\ state.status # "completed" /\ ~armed[u]
  /\ state.revision < MaxRevision
  /\ armed' = [armed EXCEPT ![u] = TRUE]
  /\ state' = Saved(state)
  /\ UNCHANGED <<page, said>>

Kind == {"media", "pause", "help", "start", "resume", "back", "save", "edit", "text"}

Next ==
  \/ \E u \in User : Load(u) \/ Command(u) \/ Decide(u) \/ Propose(u) \/ Arm(u)
  \/ \E u \in User, kind \in Kind, f \in Field, v \in Value : Message(u, kind, f, v)
  \/ Expire

Spec == Init /\ [][Next]_vars

-----------------------------------------------------------------------------
\* Nothing the merchant said is lost between the two copies: a draft holds the last
\* answer to each of its questions, also where an update was confirmed while the draft
\* was put aside, and without a draft the saved answers are the last ones.
NothingSaidIsLost ==
  \A f \in Field :
    said[f] = IF state.draft[f] # 0 THEN state.draft[f] ELSE state.answers[f]

\* The revision of a page stands for all it shows: a page whose revision is current shows
\* the update, the question and the draft that its command will act on.
RevisionNamesTheProfile ==
  \A u \in User :
    Shown(u) => [page[u] EXCEPT !.pending.expired = FALSE] = [state EXCEPT !.pending.expired = FALSE]

=============================================================================
