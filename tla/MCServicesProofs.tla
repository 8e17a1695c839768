--------------------------- MODULE MCServicesProofs ---------------------------
(***************************************************************************)
(* What is proved of the services side by side.  The business profile, the *)
(* onboarding saga and the promotion of a release are proved here.  Of the *)
(* components whose proofs have modules of their own: a behaviour of the   *)
(* services is, seen through the variables of one component, a behaviour   *)
(* of it, so what is proved of the component is so here.                   *)
(***************************************************************************)
EXTENDS MCServices, WellFoundedInduction, TLAPS

USE NoneAssumption

\* The steps of the services, each of one component.
USE DEF SyncStep, ConnectorStep, InsightStep, SagaStep, ProfileStep, ReleaseStep, HermesStep,
        GateStep, HostStep, LoginStep, FleetStep, AlertStep, ReadStep

-----------------------------------------------------------------------------
(* BusinessProfile *)

\* A set of numbers has a smallest one.
Less == {p \in Nat \X Nat : p[1] < p[2]}
LEMMA Smallest ==
  ASSUME NEW T, T \subseteq Nat, T # {}
  PROVE  \E m \in T : \A y \in T : m <= y
<1>1. IsWellFoundedOn(Less, Nat)
  <2>1. Less = OpToRel(<, Nat)
    BY DEF OpToRel, Less
  <2>. QED
    BY <2>1, NatLessThanWellFounded
<1>2. PICK x \in T : \A y \in T : ~(<<y, x>> \in Less)
  BY <1>1, WFMin
<1>3. ASSUME NEW y \in T
      PROVE  x <= y
  <2>1. x \in Nat /\ y \in Nat /\ <<y, x>> \notin Less
    BY <1>2
  <2>. QED
    BY <2>1 DEF Less
<1>. QED
  BY <1>3

\* A profile, whatever its revision.
Row ==
  [status : {"not_started", "in_progress", "review", "paused", "completed"},
   step : Profile!Welcome..Profile!Done, draft : Profile!Facts, answers : Profile!Facts,
   pending : [user : User \cup {"none"}, changes : Profile!Facts, expired : BOOLEAN],
   revision : Nat]

\* The last answers k are in the draft, or among the saved answers.
Keeps(s, k) ==
  \A f \in Profile!Field : k[f] = IF s.draft[f] # 0 THEN s.draft[f] ELSE s.answers[f]

\* A command makes a profile of a later revision, which keeps what was said.
Moves(s, n) == n \in Row /\ n.revision > s.revision
Carries(s, n) == Moves(s, n) /\ \A k \in Profile!Facts : Keeps(s, k) => Keeps(n, k)

\* The first of some questions is one of them.
LEMMA FirstIsOne ==
  ASSUME NEW fields, fields \subseteq Profile!Field, fields # {}
  PROVE  Profile!First(fields) \in fields
<1>1. fields \subseteq Nat
  BY ServicesAssumption DEF Profile!Field
<1>2. \E f \in fields : \A g \in fields : f <= g
  BY <1>1, Smallest
<1>. QED
  BY <1>2 DEF Profile!First

\* The next question is one of those that are open, or the review.
LEMMA AskIsStep ==
  /\ \A draft : Profile!Ask(draft) \in 1..Profile!Review
  /\ \A draft, f : Profile!AfterAnswer(draft, f) \in 1..Profile!Review
<1>1. \A draft : Profile!Missing(draft) \subseteq Profile!Field
  BY DEF Profile!Missing
<1>2. Profile!Field \subseteq 1..Profile!Review /\ Profile!Review \in 1..Profile!Review
  BY ServicesAssumption DEF Profile!Field, Profile!Review
<1>3. ASSUME NEW draft
      PROVE  Profile!Ask(draft) \in 1..Profile!Review
  BY <1>1, <1>2, FirstIsOne DEF Profile!Ask
<1>4. ASSUME NEW draft, NEW f
      PROVE  Profile!AfterAnswer(draft, f) \in 1..Profile!Review
  <2>1. PICK later : later = {g \in Profile!Missing(draft) : g > f}
    OBVIOUS
  <2>2. later \subseteq Profile!Field
    BY <1>1, <2>1
  <2>3. Profile!AfterAnswer(draft, f) = IF later = {} THEN Profile!Ask(draft)
                                        ELSE Profile!First(later)
    BY <2>1 DEF Profile!AfterAnswer
  <2>. QED
    BY <1>2, <1>3, <2>2, <2>3, FirstIsOne
<1>. QED
  BY <1>3, <1>4

\* A profile of another step, without an update or with another draft, is a profile.
LEMMA RowParts ==
  ASSUME NEW s \in Row
  PROVE  /\ Profile!Saved(s) \in Row /\ Profile!Dropped(s) \in Row
         /\ \A d \in Profile!Facts : [s EXCEPT !.draft = d] \in Row
         /\ \A d \in Profile!Facts : [s EXCEPT !.answers = d] \in Row
         /\ \A i \in 1..Profile!Review : Profile!At(s, i) \in Row
<1>1. Profile!NoUpdate \in [user : User \cup {"none"}, changes : Profile!Facts, expired : BOOLEAN]
  BY DEF Profile!NoUpdate, Profile!Unanswered, Profile!Facts
<1>2. \A i \in 1..Profile!Review : i \in Profile!Welcome..Profile!Done
  BY ServicesAssumption DEF Profile!Welcome, Profile!Done, Profile!Review
<1>3. Profile!Dropped(s) \in Row
  BY <1>1 DEF Profile!Dropped, Row
<1>4. Profile!Saved(s) \in Row
  BY DEF Profile!Saved, Row
<1>5. \A d \in Profile!Facts : [s EXCEPT !.draft = d] \in Row
  BY DEF Row
<1>6. \A d \in Profile!Facts : [s EXCEPT !.answers = d] \in Row
  BY DEF Row
<1>7. \A i \in 1..Profile!Review : Profile!At(s, i) \in Row
  BY <1>2 DEF Profile!At, Row
<1>. QED
  BY <1>3, <1>4, <1>5, <1>6, <1>7

\* What a profile says after each of these.
LEMMA RowFields ==
  ASSUME NEW s \in Row
  PROVE  /\ Profile!Saved(s).revision = s.revision + 1
         /\ Profile!Saved(s).draft = s.draft /\ Profile!Saved(s).answers = s.answers
         /\ Profile!Dropped(s).revision = s.revision
         /\ Profile!Dropped(s).draft = s.draft /\ Profile!Dropped(s).answers = s.answers
         /\ \A i : /\ Profile!At(s, i).revision = s.revision
                   /\ Profile!At(s, i).draft = s.draft /\ Profile!At(s, i).answers = s.answers
<1>1. /\ Profile!Saved(s).revision = s.revision + 1
      /\ Profile!Saved(s).draft = s.draft /\ Profile!Saved(s).answers = s.answers
  BY DEF Profile!Saved, Row
<1>2. /\ Profile!Dropped(s).revision = s.revision
      /\ Profile!Dropped(s).draft = s.draft /\ Profile!Dropped(s).answers = s.answers
  BY DEF Profile!Dropped, Row
<1>3. \A i : /\ Profile!At(s, i).revision = s.revision
             /\ Profile!At(s, i).draft = s.draft /\ Profile!At(s, i).answers = s.answers
  BY DEF Profile!At, Row
<1>. QED
  BY <1>1, <1>2, <1>3

\* An edit starts from the saved answers.
LEMMA OpenedKeeps ==
  ASSUME NEW s \in Row
  PROVE  /\ Profile!Opened(s) \in Row /\ Profile!Opened(s).revision = s.revision
         /\ \A k \in Profile!Facts : Keeps(s, k) => Keeps(Profile!Opened(s), k)
<1>1. PICK r : r = Profile!Dropped(s)
  OBVIOUS
<1>2. r \in Row /\ r.revision = s.revision /\ r.draft = s.draft /\ r.answers = s.answers
  BY <1>1, RowParts, RowFields
<1>3. PICK d : d = IF r.draft = Profile!Unanswered THEN s.answers ELSE r.draft
  OBVIOUS
<1>4. d \in Profile!Facts
  BY <1>2, <1>3 DEF Row
<1>5. PICK n : n = [r EXCEPT !.draft = d]
  OBVIOUS
<1>6. Profile!Opened(s) = n
  BY <1>1, <1>3, <1>5 DEF Profile!Opened
<1>7. n \in Row
  BY <1>2, <1>4, <1>5, RowParts
<1>8. n.revision = s.revision /\ n.draft = d /\ n.answers = s.answers
  BY <1>2, <1>5 DEF Row
<1>9. ASSUME NEW k \in Profile!Facts, Keeps(s, k)
      PROVE  Keeps(n, k)
  BY <1>2, <1>3, <1>8, <1>9 DEF Keeps, Profile!Unanswered
<1>. QED
  BY <1>6, <1>7, <1>8, <1>9

\* A command that only asks keeps what was said.
LEMMA AskingCarries ==
  ASSUME NEW s \in Row
  PROVE  /\ Carries(s, Profile!Saved(s)) /\ Carries(s, Profile!Start(s))
         /\ Carries(s, Profile!Back(s)) /\ Carries(s, Profile!Pause(s))
         /\ Carries(s, Profile!Reject(s))
         /\ \A f \in Profile!Field : Carries(s, Profile!Edit(s, f))
<1>1. ASSUME NEW r \in Row, r.revision = s.revision,
             \A k \in Profile!Facts : Keeps(s, k) => Keeps(r, k)
      PROVE  /\ Carries(s, Profile!Saved(r))
             /\ \A i \in 1..Profile!Review : Carries(s, Profile!Saved(Profile!At(r, i)))
  <2>1. ASSUME NEW q \in Row, q.revision = s.revision, q.draft = r.draft, q.answers = r.answers
        PROVE  Carries(s, Profile!Saved(q))
    <3>1. PICK n : n = Profile!Saved(q)
      OBVIOUS
    <3>2. n \in Row /\ n.revision = s.revision + 1 /\ n.draft = r.draft /\ n.answers = r.answers
      BY <2>1, <3>1, RowParts, RowFields
    <3>. QED
      BY <1>1, <3>1, <3>2 DEF Carries, Moves, Keeps, Row
  <2>2. \A i \in 1..Profile!Review :
          /\ Profile!At(r, i) \in Row /\ Profile!At(r, i).revision = s.revision
          /\ Profile!At(r, i).draft = r.draft /\ Profile!At(r, i).answers = r.answers
    BY <1>1, RowParts, RowFields
  <2>. QED
    BY <1>1, <2>1, <2>2
<1>2. Carries(s, Profile!Saved(s))
  BY <1>1
<1>3. Carries(s, Profile!Start(s)) /\ \A f \in Profile!Field : Carries(s, Profile!Edit(s, f))
  <2>1. Profile!Field \subseteq 1..Profile!Review
    BY ServicesAssumption DEF Profile!Field, Profile!Review
  <2>. QED
    BY <1>1, <2>1, OpenedKeeps, AskIsStep DEF Profile!Start, Profile!Edit
<1>4. /\ Profile!Dropped(s) \in Row /\ Profile!Dropped(s).revision = s.revision
      /\ \A k \in Profile!Facts : Keeps(s, k) => Keeps(Profile!Dropped(s), k)
  BY RowParts, RowFields DEF Keeps
<1>5. Carries(s, Profile!Reject(s))
  BY <1>1, <1>4 DEF Profile!Reject
<1>6. Carries(s, Profile!Back(s))
  <2>1. (IF s.step \in 2..Profile!Review THEN s.step - 1 ELSE 1) \in 1..Profile!Review
    BY ServicesAssumption DEF Profile!Review
  <2>. QED
    BY <1>1, <1>4, <2>1 DEF Profile!Back
<1>7. Carries(s, Profile!Pause(s))
  <2>1. PICK n : n = [s EXCEPT !.status = IF s.answers = Profile!Unanswered THEN "paused"
                                          ELSE "completed"]
    OBVIOUS
  <2>2. /\ n \in Row /\ n.revision = s.revision
        /\ n.draft = s.draft /\ n.answers = s.answers
    BY <2>1 DEF Row
  <2>. QED
    BY <1>1, <2>1, <2>2 DEF Profile!Pause, Keeps
<1>. QED
  BY <1>2, <1>3, <1>5, <1>6, <1>7

\* An answer is the last one to its question.
LEMMA AnswerKeeps ==
  ASSUME NEW s \in Row, NEW f \in Profile!Field, NEW v \in Value,
         NEW k \in Profile!Facts, Keeps(s, k)
  PROVE  /\ Moves(s, Profile!Answer(s, f, v)) /\ [k EXCEPT ![f] = v] \in Profile!Facts
         /\ Keeps(Profile!Answer(s, f, v), [k EXCEPT ![f] = v])
<1>1. PICK r : r = Profile!Dropped(s)
  OBVIOUS
<1>2. r \in Row /\ r.revision = s.revision /\ r.draft = s.draft /\ r.answers = s.answers
  BY <1>1, RowParts, RowFields
<1>3. PICK d : d = [s.draft EXCEPT ![f] = v]
  OBVIOUS
<1>4. d \in Profile!Facts /\ d[f] = v /\ \A g \in Profile!Field : g # f => d[g] = s.draft[g]
  BY <1>3 DEF Row, Profile!Facts
<1>5. PICK q : q = [r EXCEPT !.draft = d]
  OBVIOUS
<1>6. q \in Row
  BY <1>2, <1>4, <1>5, RowParts
<1>7. q.revision = s.revision /\ q.draft = d /\ q.answers = s.answers
  BY <1>2, <1>5 DEF Row
<1>8. PICK n : n = Profile!Saved(Profile!At(q, Profile!AfterAnswer(d, f)))
  OBVIOUS
<1>9. /\ n \in Row /\ n.revision = s.revision + 1 /\ n.draft = d /\ n.answers = s.answers
  <2>1. PICK p : p = Profile!At(q, Profile!AfterAnswer(d, f))
    OBVIOUS
  <2>2. p \in Row /\ p.revision = s.revision /\ p.draft = d /\ p.answers = s.answers
    BY <1>6, <1>7, <2>1, RowParts, RowFields, AskIsStep
  <2>. QED
    BY <1>8, <2>1, <2>2, RowParts, RowFields
<1>10. n = Profile!Answer(s, f, v)
  BY <1>1, <1>3, <1>5, <1>8 DEF Profile!Answer
<1>11. v # 0
  BY ServicesAssumption
<1>12. PICK l : l = [k EXCEPT ![f] = v]
  OBVIOUS
<1>13. l \in Profile!Facts /\ l[f] = v /\ \A g \in Profile!Field : g # f => l[g] = k[g]
  BY <1>12 DEF Profile!Facts
<1>14. Keeps(n, l)
  BY <1>4, <1>9, <1>11, <1>13 DEF Keeps
<1>. QED
  BY <1>9, <1>10, <1>12, <1>13, <1>14 DEF Moves, Row

\* The draft that is saved is the last answer to every question.
LEMMA CompleteCarries ==
  ASSUME NEW s \in Row, Profile!MayComplete(s)
  PROVE  Carries(s, Profile!Complete(s))
<1>1. PICK r : r = Profile!Dropped(s)
  OBVIOUS
<1>2. r \in Row /\ r.revision = s.revision
  BY <1>1, RowParts, RowFields
<1>3. PICK q : q = [r EXCEPT !.answers = s.draft, !.draft = Profile!Unanswered,
                             !.status = "completed", !.step = Profile!Done]
  OBVIOUS
<1>4. Profile!Unanswered \in Profile!Facts /\ s.draft \in Profile!Facts
      /\ Profile!Done \in Profile!Welcome..Profile!Done
  BY ServicesAssumption DEF Profile!Unanswered, Profile!Facts, Profile!Welcome, Profile!Done, Row
<1>5. q \in Row
  BY <1>2, <1>3, <1>4 DEF Row
<1>6. q.revision = s.revision /\ q.draft = Profile!Unanswered /\ q.answers = s.draft
  BY <1>2, <1>3 DEF Row
<1>7. PICK n : n = Profile!Saved(q)
  OBVIOUS
<1>8. n = Profile!Complete(s)
  BY <1>1, <1>3, <1>7 DEF Profile!Complete
<1>9. /\ n \in Row /\ n.revision = s.revision + 1 /\ n.draft = Profile!Unanswered
      /\ n.answers = s.draft
  BY <1>5, <1>6, <1>7, RowParts, RowFields
<1>10. \A f \in Profile!Field : s.draft[f] # 0
  BY DEF Profile!MayComplete, Profile!Missing
<1>. QED
  BY <1>8, <1>9, <1>10 DEF Carries, Moves, Keeps, Profile!Unanswered, Row

\* What is confirmed is the last answer to the questions it names.
LEMMA ConfirmKeeps ==
  ASSUME NEW s \in Row, NEW k \in Profile!Facts, Keeps(s, k)
  PROVE  /\ Moves(s, Profile!Confirm(s)) /\ Profile!Updated(k, s.pending.changes) \in Profile!Facts
         /\ Keeps(Profile!Confirm(s), Profile!Updated(k, s.pending.changes))
<1>1. PICK r : r = Profile!Dropped(s)
  OBVIOUS
<1>2. r \in Row /\ r.revision = s.revision /\ r.draft = s.draft /\ r.answers = s.answers
  BY <1>1, RowParts, RowFields
<1>3. PICK c : c = s.pending.changes
  OBVIOUS
<1>4. c \in Profile!Facts /\ s.draft \in Profile!Facts /\ s.answers \in Profile!Facts
  BY <1>3 DEF Row
<1>5. \A facts \in Profile!Facts :
        /\ Profile!Updated(facts, c) \in Profile!Facts
        /\ \A f \in Profile!Field :
             Profile!Updated(facts, c)[f] = IF c[f] # 0 THEN c[f] ELSE facts[f]
  BY <1>4 DEF Profile!Updated, Profile!Facts
<1>6. PICK a : a = Profile!Updated(s.answers, c)
  OBVIOUS
<1>7. PICK d : d = IF s.draft = Profile!Unanswered THEN s.draft ELSE Profile!Updated(s.draft, c)
  OBVIOUS
<1>8. a \in Profile!Facts /\ d \in Profile!Facts
  BY <1>4, <1>5, <1>6, <1>7
<1>9. PICK q : q = [r EXCEPT !.answers = a, !.draft = d]
  OBVIOUS
<1>10. q \in Row
  BY <1>2, <1>8, <1>9 DEF Row
<1>11. q.revision = s.revision /\ q.draft = d /\ q.answers = a
  BY <1>2, <1>9 DEF Row
<1>12. PICK n : n = Profile!Saved(q)
  OBVIOUS
<1>13. n = Profile!Confirm(s)
  BY <1>1, <1>2, <1>3, <1>6, <1>7, <1>9, <1>12 DEF Profile!Confirm, Row
<1>14. n \in Row /\ n.revision = s.revision + 1 /\ n.draft = d /\ n.answers = a
  BY <1>10, <1>11, <1>12, RowParts, RowFields
<1>15. PICK l : l = Profile!Updated(k, c)
  OBVIOUS
<1>16. Keeps(n, l)
  <2>1. ASSUME NEW f \in Profile!Field
        PROVE  l[f] = IF n.draft[f] # 0 THEN n.draft[f] ELSE n.answers[f]
    <3>1. /\ l[f] = (IF c[f] # 0 THEN c[f] ELSE k[f])
          /\ a[f] = (IF c[f] # 0 THEN c[f] ELSE s.answers[f])
          /\ k[f] = (IF s.draft[f] # 0 THEN s.draft[f] ELSE s.answers[f])
      BY <1>4, <1>5, <1>6, <1>15 DEF Keeps
    <3>2. CASE s.draft = Profile!Unanswered
      BY <1>7, <1>14, <3>1, <3>2 DEF Profile!Unanswered
    <3>3. CASE s.draft # Profile!Unanswered
      <4>1. d[f] = IF c[f] # 0 THEN c[f] ELSE s.draft[f]
        BY <1>4, <1>5, <1>7, <3>3
      <4>. QED
        BY <1>14, <3>1, <4>1
    <3>. QED
      BY <3>2, <3>3
  <2>. QED
    BY <2>1 DEF Keeps
<1>. QED
  BY <1>3, <1>5, <1>13, <1>14, <1>15, <1>16 DEF Moves, Row

\* A proposal changes nothing that was said.
LEMMA ProposedCarries ==
  ASSUME NEW s \in Row, NEW u \in User, NEW changes \in Profile!Facts
  PROVE  Carries(s, Profile!Proposed(s, u, changes))
<1>1. PICK q : q = [s EXCEPT !.pending = [user |-> u, changes |-> changes, expired |-> FALSE]]
  OBVIOUS
<1>2. /\ q \in Row /\ q.revision = s.revision
      /\ q.draft = s.draft /\ q.answers = s.answers
  BY <1>1 DEF Row
<1>3. PICK n : n = Profile!Saved(q)
  OBVIOUS
<1>4. n = Profile!Proposed(s, u, changes)
  BY <1>1, <1>3 DEF Profile!Proposed
<1>5. n \in Row /\ n.revision = s.revision + 1 /\ n.draft = s.draft /\ n.answers = s.answers
  BY <1>2, <1>3, RowParts, RowFields
<1>. QED
  BY <1>4, <1>5 DEF Carries, Moves, Keeps, Row

\* A message does nothing, or it is a command that asks, or an answer.
LEMMA ReplyIsCommand ==
  ASSUME NEW s \in Row, NEW kind \in Profile!Kind, NEW f \in Profile!Field, NEW v \in Value
  PROVE  \/ /\ \/ Profile!Reply(s, kind, f, v) = s
               \/ Carries(s, Profile!Reply(s, kind, f, v))
            /\ ~(kind \in {"text", "save", "edit"} /\ Profile!MayAnswer(s, f))
         \/ /\ kind \in {"text", "save", "edit"} /\ Profile!MayAnswer(s, f)
            /\ Profile!Reply(s, kind, f, v) = Profile!Answer(s, f, v)
<1>. USE DEF Profile!Setup
<1>1. f # Profile!Review /\ (Profile!MayAnswer(s, f) => s.step = f)
  BY ServicesAssumption DEF Profile!Field, Profile!Review, Profile!MayAnswer
<1>2. PICK n : n = Profile!Reply(s, kind, f, v)
  OBVIOUS
<1>3. CASE kind \in {"media", "pause", "help"}
  BY <1>2, <1>3, AskingCarries DEF Profile!Reply
<1>4. CASE kind = "start"
  BY <1>2, <1>4, AskingCarries DEF Profile!Reply
<1>5. CASE kind = "resume"
  BY <1>2, <1>5, AskingCarries DEF Profile!Reply
<1>6. CASE kind = "back"
  BY <1>2, <1>6, AskingCarries DEF Profile!Reply
<1>7. CASE kind = "save"
  <2>1. CASE s.step = Profile!Review
    <3>1. n = IF Profile!MayComplete(s) THEN Profile!Complete(s) ELSE s
      BY <1>1, <1>2, <1>7, <2>1 DEF Profile!Reply
    <3>. QED
      BY <1>1, <1>2, <2>1, <3>1, CompleteCarries
  <2>2. CASE s.step = f
    <3>1. n = IF Profile!MayAnswer(s, f) THEN Profile!Answer(s, f, v) ELSE s
      BY <1>1, <1>2, <1>7, <2>2 DEF Profile!Reply
    <3>. QED
      BY <1>2, <1>7, <3>1
  <2>3. CASE s.step # Profile!Review /\ s.step # f
    <3>1. n = s
      BY <1>2, <1>7, <2>3 DEF Profile!Reply
    <3>. QED
      BY <1>1, <1>2, <2>3, <3>1
  <2>. QED
    BY <2>1, <2>2, <2>3
<1>8. CASE kind = "edit"
  <2>1. CASE s.step = Profile!Review
    <3>1. n = IF s.status \in {"in_progress", "review"} THEN Profile!Edit(s, f) ELSE s
      BY <1>1, <1>2, <1>8, <2>1 DEF Profile!Reply
    <3>. QED
      BY <1>1, <1>2, <2>1, <3>1, AskingCarries
  <2>2. CASE s.step = f
    <3>1. n = IF Profile!MayAnswer(s, f) THEN Profile!Answer(s, f, v) ELSE s
      BY <1>1, <1>2, <1>8, <2>2 DEF Profile!Reply
    <3>. QED
      BY <1>2, <1>8, <3>1
  <2>3. CASE s.step # Profile!Review /\ s.step # f
    <3>1. n = s
      BY <1>2, <1>8, <2>3 DEF Profile!Reply
    <3>. QED
      BY <1>1, <1>2, <2>3, <3>1
  <2>. QED
    BY <2>1, <2>2, <2>3
<1>9. CASE kind = "text"
  <2>1. n = IF s.step = f THEN IF Profile!MayAnswer(s, f) THEN Profile!Answer(s, f, v) ELSE s
            ELSE s
    BY <1>2, <1>9 DEF Profile!Reply
  <2>. QED
    BY <1>1, <1>2, <1>9, <2>1
<1>. QED
  BY <1>3, <1>4, <1>5, <1>6, <1>7, <1>8, <1>9 DEF Profile!Kind

\* What a step makes of the profile s and of the last answers k, where it is no proposal's
\* end by time: it leaves both, or the profile is of a later revision and keeps the answers.
Goes(s, k, n, l) ==
  \/ n = s /\ l = k
  \/ Moves(s, n) /\ l \in Profile!Facts /\ Keeps(n, l)

\* A command on a later profile is one on the profile.
LEMMA GoesOn ==
  ASSUME NEW s \in Row, NEW k \in Profile!Facts, NEW r \in Row, NEW n, NEW l,
         r = s \/ Moves(s, r), Keeps(r, k), Goes(r, k, n, l)
  PROVE  Goes(s, k, n, l)
  BY DEF Goes, Moves, Row

\* The message that opens the setup, and what it says then, is kept.
LEMMA MessageGoes ==
  ASSUME NEW k \in Profile!Facts, state \in Row, said = k, Keeps(state, k),
         NEW u \in User, NEW kind \in Profile!Kind, NEW f \in Profile!Field, NEW v \in Value,
         Profile!Message(u, kind, f, v)
  PROVE  Goes(state, k, state', said')
<1>1. PICK opens \in BOOLEAN : opens = (armed[u] /\ kind # "media")
  OBVIOUS
<1>2. PICK s : s = IF opens THEN Profile!Opening(state, kind) ELSE state
  OBVIOUS
<1>3. PICK asked \in BOOLEAN :
        asked = (opens /\ state.status \in {"not_started", "paused"} /\ kind = "text")
  OBVIOUS
<1>4. state' = IF asked THEN s ELSE Profile!Reply(s, kind, f, v)
  BY <1>1, <1>2, <1>3, Zenon DEF Profile!Message
<1>5. said' = IF kind \in {"text", "save", "edit"} /\ ~asked /\ Profile!MayAnswer(s, f)
              THEN [k EXCEPT ![f] = v] ELSE k
  BY <1>1, <1>2, <1>3, Zenon DEF Profile!Message
<1>6. s \in Row /\ (s = state \/ Moves(state, s)) /\ Keeps(s, k)
  <2>1. Carries(state, Profile!Saved(state))
    BY AskingCarries
  <2>2. PICK r : r = Profile!Saved(state)
    OBVIOUS
  <2>3. r \in Row /\ Moves(state, r) /\ Keeps(r, k)
    BY <2>1, <2>2 DEF Carries, Moves
  <2>4. Carries(r, Profile!Start(r))
    BY <2>3, AskingCarries
  <2>5. Profile!Opening(state, kind) \in {r, Profile!Start(r)}
    BY <2>2 DEF Profile!Opening
  <2>6. Moves(state, Profile!Start(r)) /\ Keeps(Profile!Start(r), k)
    BY <2>3, <2>4 DEF Carries, Moves, Row
  <2>. QED
    BY <1>2, <2>3, <2>5, <2>6 DEF Moves
<1>7. CASE asked
  BY <1>4, <1>5, <1>6, <1>7 DEF Goes
<1>8. CASE ~asked
  <2>1. CASE /\ \/ Profile!Reply(s, kind, f, v) = s
                \/ Carries(s, Profile!Reply(s, kind, f, v))
             /\ ~(kind \in {"text", "save", "edit"} /\ Profile!MayAnswer(s, f))
    <3>1. said' = k
      BY <1>5, <2>1
    <3>2. Goes(s, k, state', said')
      BY <1>4, <1>6, <1>8, <2>1, <3>1 DEF Goes, Carries
    <3>. QED
      BY <1>6, <3>2, GoesOn
  <2>2. CASE /\ kind \in {"text", "save", "edit"} /\ Profile!MayAnswer(s, f)
             /\ Profile!Reply(s, kind, f, v) = Profile!Answer(s, f, v)
    <3>1. said' = [k EXCEPT ![f] = v] /\ state' = Profile!Answer(s, f, v)
      BY <1>4, <1>5, <1>8, <2>2
    <3>2. Goes(s, k, state', said')
      BY <1>6, <3>1, AnswerKeeps DEF Goes
    <3>. QED
      BY <1>6, <3>2, GoesOn
  <2>. QED
    BY <1>6, <2>1, <2>2, ReplyIsCommand
<1>. QED
  BY <1>7, <1>8

\* A command of a page, and a decision on an update, keeps what was said.
LEMMA CommandGoes ==
  ASSUME NEW k \in Profile!Facts, state \in Row, said = k, Keeps(state, k), NEW u \in User,
         Profile!Command(u) \/ Profile!Decide(u) \/ Profile!Propose(u) \/ Profile!Arm(u)
  PROVE  Goes(state, k, state', said') /\ UNCHANGED page
<1>. USE DEF Profile!Becomes
<1>1. ASSUME NEW n, Carries(state, n), state' = n, UNCHANGED said
      PROVE  Goes(state, k, state', said')
  BY <1>1 DEF Goes, Carries
<1>2. ASSUME state' = Profile!Confirm(state),
             said' = Profile!Updated(said, state.pending.changes)
      PROVE  Goes(state, k, state', said')
  BY <1>2, ConfirmKeeps DEF Goes
<1>3. CASE Profile!Command(u)
  <2>1. UNCHANGED page
    BY <1>3 DEF Profile!Command
  <2>2. CASE /\ \/ state' = Profile!Start(state) \/ state' = Profile!Pause(state)
                \/ state' = Profile!Back(state)
                \/ \E f \in Profile!Field : state' = Profile!Edit(state, f)
                \/ state' = Profile!Reject(state)
             /\ UNCHANGED said
    BY <1>1, <2>1, <2>2, AskingCarries
  <2>3. CASE Profile!MayComplete(state) /\ state' = Profile!Complete(state) /\ UNCHANGED said
    BY <1>1, <2>1, <2>3, CompleteCarries
  <2>4. CASE \E f \in Profile!Field, v \in Value :
               state' = Profile!Answer(state, f, v) /\ said' = [said EXCEPT ![f] = v]
    <3>1. PICK f \in Profile!Field, v \in Value :
            state' = Profile!Answer(state, f, v) /\ said' = [k EXCEPT ![f] = v]
      BY <2>4
    <3>2. /\ Moves(state, state') /\ said' \in Profile!Facts
          /\ Keeps(state', said')
      BY <3>1, AnswerKeeps
    <3>. QED
      BY <2>1, <3>2 DEF Goes
  <2>5. CASE /\ state' = Profile!Confirm(state)
             /\ said' = Profile!Updated(said, state.pending.changes)
    BY <1>2, <2>1, <2>5
  <2>. QED
    BY <1>3, <2>2, <2>3, <2>4, <2>5 DEF Profile!Command
<1>4. CASE Profile!Decide(u)
  <2>1. UNCHANGED page
    BY <1>4 DEF Profile!Decide
  <2>2. CASE state' = Profile!Reject(state) /\ UNCHANGED said
    BY <1>1, <2>1, <2>2, AskingCarries
  <2>3. CASE /\ state' = Profile!Confirm(state)
             /\ said' = Profile!Updated(said, state.pending.changes)
    BY <1>2, <2>1, <2>3
  <2>. QED
    BY <1>4, <2>2, <2>3 DEF Profile!Decide
<1>5. CASE Profile!Propose(u)
  BY <1>1, <1>5, ProposedCarries DEF Profile!Propose
<1>6. CASE Profile!Arm(u)
  BY <1>1, <1>6, AskingCarries DEF Profile!Arm
<1>. QED
  BY <1>3, <1>4, <1>5, <1>6

\* Two profiles differ in the expiry of their update at most.
Same(p, s) == [p EXCEPT !.pending.expired = FALSE] = [s EXCEPT !.pending.expired = FALSE]

\* What holds of the profile: what is said is kept, and no page is ahead of it.
ProfileInv ==
  /\ state \in Row /\ said \in Profile!Facts /\ page \in [User -> Row]
  /\ Keeps(state, said)
  /\ \A u \in User : page[u].revision <= state.revision
  /\ \A u \in User : page[u].revision = state.revision => Same(page[u], state)

\* A profile holds what was said, and its pages are of earlier revisions or show it.
LEMMA ProfileInvariance == Spec => []ProfileInv
<1>1. ASSUME Profile!Init
      PROVE  ProfileInv
  <2>1. Profile!Unanswered \in Profile!Facts
    BY DEF Profile!Unanswered, Profile!Facts
  <2>2. Profile!Fresh \in Row
    BY <2>1, ServicesAssumption DEF Profile!Fresh, Profile!NoUpdate, Profile!Welcome, Profile!Done, Row
  <2>3. Keeps(Profile!Fresh, Profile!Unanswered)
    BY DEF Keeps, Profile!Fresh, Profile!Unanswered
  <2>4. Profile!Fresh.revision <= Profile!Fresh.revision
    BY DEF Profile!Fresh
  <2>. QED
    BY <1>1, <2>1, <2>2, <2>3, <2>4 DEF ProfileInv, Profile!Init, Same
<1>2. ASSUME ProfileInv, Goes(state, said, state', said'), UNCHANGED page
      PROVE  ProfileInv'
  <2>1. CASE state' = state /\ said' = said
    BY <1>2, <2>1 DEF ProfileInv, Keeps, Same
  <2>2. CASE Moves(state, state') /\ said' \in Profile!Facts /\ Keeps(state', said')
    <3>1. state' \in Row /\ Keeps(state, said)' /\ state'.revision > state.revision
      BY <2>2 DEF Moves, Keeps
    <3>2. \A u \in User : page[u].revision < state'.revision
      <4>1. ASSUME NEW u \in User
            PROVE  page[u].revision < state'.revision
        <5>1. page[u] \in Row /\ page[u].revision <= state.revision /\ state \in Row
          BY <1>2 DEF ProfileInv
        <5>2. page[u].revision \in Nat /\ state.revision \in Nat /\ state'.revision \in Nat
          BY <3>1, <5>1 DEF Row
        <5>. QED
          BY <3>1, <5>1, <5>2
      <4>. QED
        BY <4>1
    <3>3. \A u \in User : page[u].revision \in Nat /\ state'.revision \in Nat
      BY <1>2, <3>1 DEF ProfileInv, Row
    <3>4. /\ \A u \in User : page'[u].revision <= state'.revision
          /\ \A u \in User : page'[u].revision # state'.revision
      BY <1>2, <3>2, <3>3
    <3>. QED
      BY <1>2, <2>2, <3>1, <3>4 DEF ProfileInv
  <2>. QED
    BY <1>2, <2>1, <2>2 DEF Goes
<1>3. ASSUME ProfileInv, NEW u \in User, Profile!Load(u)
      PROVE  ProfileInv'
  <2>1. UNCHANGED <<state, said>> /\ page' = [page EXCEPT ![u] = state]
    BY <1>3 DEF Profile!Load
  <2>2. \A w \in User : page'[w] = IF w = u THEN state ELSE page[w]
    BY <1>3, <2>1 DEF ProfileInv
  <2>3. state.revision <= state.revision /\ Same(state, state)
    BY <1>3 DEF ProfileInv, Row, Same
  <2>4. page' \in [User -> Row]
    BY <1>3, <2>1 DEF ProfileInv
  <2>5. Keeps(state, said)'
    BY <1>3, <2>1 DEF ProfileInv, Keeps
  <2>6. /\ \A w \in User : page'[w].revision <= state'.revision
        /\ \A w \in User : page'[w].revision = state'.revision => Same(page'[w], state')
    BY <1>3, <2>1, <2>2, <2>3 DEF ProfileInv
  <2>. QED
    BY <1>3, <2>1, <2>4, <2>5, <2>6 DEF ProfileInv, Same
<1>4. ASSUME ProfileInv, Profile!Expire
      PROVE  ProfileInv'
  <2>1. UNCHANGED <<page, said>> /\ state' = [state EXCEPT !.pending.expired = TRUE]
    BY <1>4 DEF Profile!Expire, Profile!Becomes
  <2>2. state \in Row
    BY <1>4 DEF ProfileInv
  <2>3. state' \in Row
    BY <2>1, <2>2 DEF Row
  <2>4. state'.revision = state.revision /\ state'.draft = state.draft
        /\ state'.answers = state.answers
    BY <2>1, <2>2 DEF Row
  <2>5. Keeps(state, said)'
    BY <1>4, <2>1, <2>4 DEF ProfileInv, Keeps
  <2>6. [state' EXCEPT !.pending.expired = FALSE] = [state EXCEPT !.pending.expired = FALSE]
    BY <2>1, <2>2 DEF Row
  <2>7. /\ \A w \in User : page'[w].revision <= state'.revision
        /\ \A w \in User : page'[w].revision = state'.revision => Same(page'[w], state')
    BY <1>4, <2>1, <2>4, <2>6 DEF ProfileInv, Same
  <2>. QED
    BY <1>4, <2>1, <2>3, <2>5, <2>7 DEF ProfileInv, Same
<1>5. ASSUME ProfileInv, [Next]_vars
      PROVE  ProfileInv'
  <2>1. CASE UNCHANGED profileVars
    BY <1>5, <2>1 DEF ProfileInv, Keeps, Same, profileVars
  <2>2. CASE Profile!Next
    <3>1. ASSUME NEW u \in User, Profile!Load(u)
          PROVE  ProfileInv'
      BY <1>3, <1>5, <3>1
    <3>2. ASSUME NEW u \in User,
                 Profile!Command(u) \/ Profile!Decide(u) \/ Profile!Propose(u) \/ Profile!Arm(u)
          PROVE  ProfileInv'
      <4>1. state \in Row /\ said \in Profile!Facts /\ Keeps(state, said)
        BY <1>5 DEF ProfileInv
      <4>. QED
        BY <1>2, <1>5, <3>2, <4>1, CommandGoes
    <3>3. ASSUME NEW u \in User, NEW kind \in Profile!Kind, NEW f \in Profile!Field, NEW v \in Value,
                 Profile!Message(u, kind, f, v)
          PROVE  ProfileInv'
      <4>1. state \in Row /\ said \in Profile!Facts /\ Keeps(state, said)
        BY <1>5 DEF ProfileInv
      <4>2. UNCHANGED page
        BY <3>3 DEF Profile!Message
      <4>. QED
        BY <1>2, <1>5, <3>3, <4>1, <4>2, MessageGoes
    <3>. QED
      BY <1>4, <1>5, <2>2, <3>1, <3>2, <3>3 DEF Profile!Next
  <2>3. Profile!Next \/ UNCHANGED profileVars
    BY <1>5 DEF Next, vars
  <2>. QED
    BY <2>1, <2>2, <2>3
<1>6. Init => ProfileInv
  BY <1>1 DEF Init
<1>. QED
  BY <1>5, <1>6, PTL DEF Spec

\* The last answer to every question is kept, in the draft or among the saved answers, and a
\* page whose revision is current shows the profile its command will act on, for any number
\* of users and questions (business_onboarding.py).
THEOREM KeptProfile == Spec => []ProfileIsKept
<1>1. ProfileInv => ProfileIsKept
  BY DEF ProfileInv, ProfileIsKept, Profile!NothingSaidIsLost, Profile!RevisionNamesTheProfile,
    Profile!Shown, Keeps, Same
<1>. QED
  BY <1>1, ProfileInvariance, PTL

-----------------------------------------------------------------------------
(* Onboarding *)

\* What a change of the saga's row may do.
OneStep(table, next) ==
  /\ next.step # table.step =>
       \E i \in 1..6 : table.step = Saga!Step[i] /\ next.step = Saga!Step[i + 1]
  /\ table.step = "completed" => next.status = "completed"

\* The row agrees with the constraint of its table, and a request remembers one that could
\* still change.
SagaInv ==
  /\ Saga!TypeOK
  /\ Saga!Consistent(saga)
  /\ \A o \in Process : operation[o] # Saga!Idle => operation[o].saga.revision < MaxRevision

\* The steps have names.
LEMMA StepNames ==
  /\ Saga!Steps = {"owner", "phone", "bumpa", "initial_sync", "hermes", "review", "completed"}
  /\ Saga!Step[1] = "owner" /\ Saga!Step[2] = "phone" /\ Saga!Step[3] = "bumpa"
  /\ Saga!Step[4] = "initial_sync" /\ Saga!Step[5] = "hermes" /\ Saga!Step[6] = "review"
  /\ Saga!Step[7] = "completed"
<1>1. /\ Saga!Step[1] = "owner" /\ Saga!Step[2] = "phone" /\ Saga!Step[3] = "bumpa"
      /\ Saga!Step[4] = "initial_sync" /\ Saga!Step[5] = "hermes" /\ Saga!Step[6] = "review"
      /\ Saga!Step[7] = "completed"
  BY DEF Saga!Step
<1>2. 1..7 = {1, 2, 3, 4, 5, 6, 7}
  OBVIOUS
<1>3. PICK step : step = Saga!Step
  OBVIOUS
<1>4. Saga!Steps = {step[i] : i \in {1, 2, 3, 4, 5, 6, 7}}
  BY <1>2, <1>3 DEF Saga!Steps
<1>. QED
  BY <1>1, <1>3, <1>4

\* What _record_command, _advance and _mark_failure make of a row with room.
LEMMA RowChanges ==
  ASSUME NEW table \in Saga!SagaRow, table.revision < MaxRevision
  PROVE  /\ /\ Saga!Recorded(table) \in Saga!SagaRow /\ Saga!Recorded(table).step = table.step
            /\ Saga!Recorded(table).status = IF table.status = "completed" THEN "completed"
                                           ELSE "in_progress"
         /\ \A next \in Saga!Steps :
              /\ Saga!Advanced(table, next) \in Saga!SagaRow
              /\ Saga!Advanced(table, next).step = next
              /\ Saga!Advanced(table, next).status = IF table.status = "completed" THEN "completed"
                                                   ELSE "in_progress"
         /\ \A step \in Saga!Steps :
              /\ Saga!Marked(table, step) \in Saga!SagaRow /\ Saga!Marked(table, step).step = table.step
              /\ Saga!Marked(table, step).status = "attention_required"
<1>1. table.revision + 1 \in 0..MaxRevision
  BY ServicesAssumption DEF Saga!SagaRow
<1>2. ASSUME NEW r \in Saga!SagaRow, r.revision = table.revision
      PROVE  /\ Saga!Recorded(r) \in Saga!SagaRow /\ Saga!Recorded(r).step = r.step
             /\ Saga!Recorded(r).status = IF r.status = "completed" THEN "completed"
                                          ELSE "in_progress"
  BY <1>1, <1>2 DEF Saga!SagaRow, Saga!Recorded
<1>3. ASSUME NEW next \in Saga!Steps
      PROVE  /\ Saga!Advanced(table, next) \in Saga!SagaRow
             /\ Saga!Advanced(table, next).step = next
             /\ Saga!Advanced(table, next).status = IF table.status = "completed" THEN "completed"
                                                  ELSE "in_progress"
  <2>1. PICK r : r = [table EXCEPT !.step = next]
    OBVIOUS
  <2>2. r \in Saga!SagaRow /\ r.revision = table.revision /\ r.step = next /\ r.status = table.status
    BY <2>1 DEF Saga!SagaRow
  <2>. QED
    BY <1>2, <2>1, <2>2 DEF Saga!Advanced
<1>4. ASSUME NEW step \in Saga!Steps
      PROVE  /\ Saga!Marked(table, step) \in Saga!SagaRow /\ Saga!Marked(table, step).step = table.step
             /\ Saga!Marked(table, step).status = "attention_required"
  BY <1>1 DEF Saga!Marked, Saga!SagaRow
<1>. QED
  BY <1>2, <1>3, <1>4

\* A row that fits the saga is of its table, and one step on at most.
Fits(table) == table \in Saga!SagaRow /\ Saga!Consistent(table) /\ OneStep(saga, table)

\* A command takes the saga one step on, or leaves it where it is.
LEMMA CommandFits ==
  ASSUME SagaInv, Saga!Room, saga.step # "completed"
  PROVE  /\ \A i \in 1..5 : saga.step = Saga!Step[i] => Fits(Saga!Advanced(saga, Saga!Step[i + 1]))
         /\ Fits(Saga!Recorded(saga))
         /\ \A step \in Saga!Steps : Fits(Saga!Marked(saga, step))
<1>1. saga \in Saga!SagaRow /\ saga.revision < MaxRevision /\ saga.status # "completed"
  BY DEF SagaInv, Saga!TypeOK, Saga!Room, Saga!Consistent
<1>2. ASSUME NEW i \in 1..5, saga.step = Saga!Step[i]
      PROVE  Fits(Saga!Advanced(saga, Saga!Step[i + 1]))
  <2>1. PICK next : next = Saga!Step[i + 1]
    OBVIOUS
  <2>2. next \in Saga!Steps /\ next # "completed" /\ i \in 1..6
    BY <1>2, <2>1, StepNames
  <2>3. PICK table : table = Saga!Advanced(saga, next)
    OBVIOUS
  <2>4. table \in Saga!SagaRow /\ table.step = next /\ table.status = "in_progress"
    BY <1>1, <2>2, <2>3, RowChanges
  <2>. QED
    BY <1>2, <2>1, <2>2, <2>3, <2>4 DEF Fits, OneStep, Saga!Consistent
<1>3. Fits(Saga!Recorded(saga))
  BY <1>1, RowChanges DEF Fits, OneStep, Saga!Consistent
<1>4. \A step \in Saga!Steps : Fits(Saga!Marked(saga, step))
  BY <1>1, RowChanges DEF Fits, OneStep, Saga!Consistent
<1>. QED
  BY <1>2, <1>3, <1>4

\* A failure that is written over the row as it was loaded, at a step the saga left, does
\* not take it back: the step is not among the columns that changed, and a completed row is
\* defended by the constraint of the row.
LEMMA FailureFits ==
  ASSUME SagaInv, NEW o \in Process, Saga!ActivationFails(o)
  PROVE  Fits(saga')
<1>1. PICK loaded : loaded = operation[o].saga
  OBVIOUS
<1>2. loaded \in Saga!SagaRow /\ loaded.revision < MaxRevision /\ saga \in Saga!SagaRow
  BY <1>1 DEF SagaInv, Saga!TypeOK, Saga!ActivationFails, Saga!Waiting, Saga!Idle
<1>3. PICK new : new = Saga!Marked(loaded, "hermes")
  OBVIOUS
<1>4. new \in Saga!SagaRow /\ new.step = loaded.step
  BY <1>2, <1>3, RowChanges, StepNames
<1>5. PICK table : table = Saga!Flushed(saga, loaded, new)
  OBVIOUS
<1>6. table \in Saga!SagaRow /\ table.step = saga.step
  BY <1>2, <1>4, <1>5 DEF Saga!Flushed, Saga!SagaRow
<1>7. (saga' = table /\ Saga!Consistent(table)) \/ saga' = saga
  BY <1>1, <1>3, <1>5 DEF Saga!ActivationFails
<1>8. saga \in Saga!SagaRow /\ Saga!Consistent(saga)
  BY <1>2 DEF SagaInv
<1>9. Fits(saga)
  BY <1>8 DEF Fits, OneStep, Saga!Consistent
<1>10. Saga!Consistent(table) => Fits(table)
  BY <1>6 DEF Fits, OneStep, Saga!Consistent
<1>. QED
  BY <1>7, <1>9, <1>10

\* The step of every action that moves the saga is the one it requires.
LEMMA SagaMoves ==
  ASSUME SagaInv, Saga!Next
  PROVE  Fits(saga')
<1>0. Fits(saga)
  BY DEF SagaInv, Fits, OneStep, Saga!TypeOK, Saga!Consistent
<1>1. CASE Saga!SetOwner
  <2>1. /\ saga.step = Saga!Step[1] /\ saga' = Saga!Advanced(saga, Saga!Step[1 + 1])
        /\ Saga!Room /\ saga.step # "completed"
    BY <1>1, StepNames DEF Saga!SetOwner
  <2>. QED
    BY <2>1, CommandFits
<1>2. CASE Saga!ApprovePhone
  <2>1. /\ saga.step = Saga!Step[2] /\ saga' = Saga!Advanced(saga, Saga!Step[2 + 1])
        /\ Saga!Room /\ saga.step # "completed"
    BY <1>2, StepNames DEF Saga!ApprovePhone
  <2>. QED
    BY <2>1, CommandFits
<1>3. CASE Saga!AcceptSync
  <2>1. saga.step = Saga!Step[4] /\ Saga!Room /\ saga.step # "completed"
    BY <1>3, StepNames DEF Saga!AcceptSync
  <2>2. PICK ran : ran = [saga EXCEPT !.run = saga.attempt]
    OBVIOUS
  <2>3. ran \in Saga!SagaRow /\ ran.revision < MaxRevision /\ ran.status = saga.status
    BY <2>1, <2>2, ServicesAssumption DEF SagaInv, Saga!TypeOK, Saga!SagaRow, Saga!Room
  <2>4. PICK table : table = Saga!Advanced(ran, "hermes")
    OBVIOUS
  <2>5. table \in Saga!SagaRow /\ table.step = "hermes" /\ table.status # "completed"
    BY <2>1, <2>3, <2>4, RowChanges, StepNames DEF SagaInv, Saga!Consistent
  <2>6. Fits(table)
    <3>1. 4 \in 1..6 /\ table.step = Saga!Step[4 + 1]
      BY <2>5, StepNames
    <3>. QED
      BY <2>1, <2>5, <3>1 DEF Fits, OneStep, Saga!Consistent
  <2>7. Fits(Saga!Marked(saga, "initial_sync"))
    BY <2>1, CommandFits, StepNames
  <2>8. saga' = table \/ saga' = Saga!Marked(saga, "initial_sync")
    BY <1>3, <2>2, <2>4 DEF Saga!AcceptSync
  <2>. QED
    BY <2>6, <2>7, <2>8
<1>4. ASSUME NEW o \in Process, NEW same \in BOOLEAN, Saga!Connect(o, same)
      PROVE  Fits(saga')
  <2>1. \/ saga' = saga
        \/ /\ saga.step = Saga!Step[3] /\ saga' = Saga!Advanced(saga, Saga!Step[3 + 1])
           /\ Saga!Room /\ saga.step # "completed"
    BY <1>4, StepNames DEF Saga!Connect, Saga!Holds, Saga!RequireStep
  <2>. QED
    BY <1>0, <2>1, CommandFits
<1>5. ASSUME NEW o \in Process, Saga!ConnectFails(o) \/ Saga!CompletionFails(o)
      PROVE  Fits(saga')
  <2>1. \/ saga' = saga
        \/ \E step \in {"bumpa", "review"} :
             /\ saga.step = step /\ saga' = Saga!Marked(saga, step) /\ Saga!Room
             /\ saga.step # "completed"
    BY <1>5 DEF Saga!ConnectFails, Saga!CompletionFails, Saga!PersistFailure
  <2>. QED
    BY <1>0, <2>1, CommandFits, StepNames
<1>6. ASSUME NEW o \in Process, Saga!TriggerSync(o)
      PROVE  Fits(saga')
  <2>1. CASE saga' = saga
    BY <1>0, <2>1
  <2>2. CASE saga' # saga
    <3>1. PICK begun : begun = [saga EXCEPT !.attempt = saga.attempt + 1, !.run = 0]
      OBVIOUS
    <3>2. /\ saga.step = "initial_sync" /\ Saga!Room /\ saga.attempt < MaxAttempt
          /\ saga' = Saga!Recorded(begun)
      BY <1>6, <2>2, <3>1 DEF Saga!TriggerSync, Saga!Holds, Saga!RequireStep
    <3>3. saga.attempt + 1 \in 0..MaxAttempt
      BY <3>2, ServicesAssumption DEF SagaInv, Saga!TypeOK, Saga!SagaRow
    <3>4. /\ begun \in Saga!SagaRow /\ begun.revision < MaxRevision
          /\ begun.step = saga.step /\ begun.status = saga.status
      <4>1. saga \in Saga!SagaRow /\ saga.revision < MaxRevision
        BY <3>2 DEF SagaInv, Saga!TypeOK, Saga!Room
      <4>2. 0 \in 0..MaxAttempt
        BY ServicesAssumption
      <4>. QED
        BY <3>1, <3>3, <4>1, <4>2 DEF Saga!SagaRow
    <3>5. saga' \in Saga!SagaRow /\ saga'.step = saga.step /\ saga'.status # "completed"
      BY <3>2, <3>4, RowChanges DEF SagaInv, Saga!Consistent
    <3>. QED
      BY <3>2, <3>5 DEF Fits, OneStep, Saga!Consistent
  <2>. QED
    BY <2>1, <2>2
<1>7. ASSUME NEW o \in Process, Saga!Activated(o)
      PROVE  Fits(saga')
  <2>1. \/ saga' = saga
        \/ /\ saga.step = Saga!Step[5] /\ saga' = Saga!Advanced(saga, Saga!Step[5 + 1])
           /\ Saga!Room /\ saga.step # "completed"
    BY <1>7, StepNames DEF Saga!Activated, Saga!Holds, Saga!RequireStep
  <2>. QED
    BY <1>0, <2>1, CommandFits
<1>8. ASSUME NEW o \in Process, Saga!ActivationFails(o)
      PROVE  Fits(saga')
  BY <1>8, FailureFits
<1>9. ASSUME NEW o \in Process, Saga!Complete(o)
      PROVE  Fits(saga')
  <2>1. CASE saga' = saga
    BY <1>0, <2>1
  <2>2. CASE saga' # saga
    <3>1. PICK ended : ended = [saga EXCEPT !.step = "completed", !.status = "completed"]
      OBVIOUS
    <3>2. saga.step = "review" /\ Saga!Room /\ saga' = Saga!Recorded(ended)
      BY <1>9, <2>2, <3>1 DEF Saga!Complete, Saga!Holds, Saga!RequireStep
    <3>3. /\ ended \in Saga!SagaRow /\ ended.revision < MaxRevision
          /\ ended.step = "completed" /\ ended.status = "completed"
      BY <3>1, <3>2, StepNames DEF SagaInv, Saga!TypeOK, Saga!SagaRow, Saga!Room
    <3>4. saga' \in Saga!SagaRow /\ saga'.step = "completed" /\ saga'.status = "completed"
      BY <3>2, <3>3, RowChanges
    <3>5. 6 \in 1..6 /\ saga.step = Saga!Step[6] /\ saga'.step = Saga!Step[6 + 1]
      BY <3>2, <3>4, StepNames
    <3>. QED
      BY <3>4, <3>5 DEF Fits, OneStep, Saga!Consistent
  <2>. QED
    BY <2>1, <2>2
<1>10. CASE \/ Saga!ReplaceConnection \/ Saga!OptOut
            \/ \E o \in Process :
                 \/ Saga!BeginBumpa(o) \/ Saga!BeginSync(o) \/ Saga!Unready(o) \/ Saga!BeginHermes(o)
                 \/ Saga!BeginComplete(o) \/ Saga!Crash(o)
            \/ \E n \in Saga!Attempt, status \in {"usable", "unusable", "failed"} :
                 Saga!JobEnds(n, status)
            \/ \E end \in {"active", "degraded"} : Saga!Reactivate(end)
            \/ \E status \in {"active", "suspended"} : Saga!PatchTenant(status)
  <2>1. UNCHANGED saga
    BY <1>10
      DEF Saga!ReplaceConnection, Saga!OptOut, Saga!BeginBumpa, Saga!BeginSync, Saga!Unready,
        Saga!BeginHermes, Saga!BeginComplete, Saga!Crash, Saga!JobEnds, Saga!Reactivate,
        Saga!PatchTenant
  <2>. QED
    BY <1>0, <2>1
<1>. QED
  BY <1>1, <1>2, <1>3, <1>4, <1>5, <1>6, <1>7, <1>8, <1>9, <1>10 DEF Saga!Next

\* A request remembers the saga and the profile as they are when it begins, and nothing else.
LEMMA RequestsFit ==
  ASSUME SagaInv, Saga!Next, hermes' \in Saga!Profiles
  PROVE  /\ operation' \in [Process -> {Saga!Idle} \cup Saga!Waiting]
         /\ \A o \in Process : operation'[o] # Saga!Idle => operation'[o].saga.revision < MaxRevision
<1>. DEFINE Right(r) == r = Saga!Idle \/ (r \in Saga!Waiting /\ r.saga.revision < MaxRevision)
<1>1. operation \in [Process -> {Saga!Idle} \cup Saga!Waiting] /\ \A o \in Process : Right(operation[o])
  BY DEF SagaInv, Saga!TypeOK
<1>2. \/ operation' = operation
      \/ \E o \in Process : \E r : Right(r) /\ operation' = [operation EXCEPT ![o] = r]
  <2>1. ASSUME NEW o \in Process, Saga!Ends(o)
        PROVE  \E r : Right(r) /\ operation' = [operation EXCEPT ![o] = r]
    BY <2>1 DEF Saga!Ends
  <2>2. ASSUME NEW o \in Process, NEW place \in {"bumpa", "sync", "hermes", "complete"},
               Saga!Begin(o, place), UNCHANGED saga
        PROVE  \E r : Right(r) /\ operation' = [operation EXCEPT ![o] = r]
    <3>1. PICK r : r = [at |-> place, saga |-> saga', profile |-> hermes']
      OBVIOUS
    <3>2. operation' = [operation EXCEPT ![o] = r] /\ saga.revision < MaxRevision
      BY <2>2, <3>1 DEF Saga!Begin, Saga!Room
    <3>3. r \in Saga!Waiting /\ r.saga = saga
      BY <2>2, <3>1 DEF SagaInv, Saga!TypeOK, Saga!Waiting
    <3>. QED
      BY <3>2, <3>3
  <2>3. ASSUME NEW o \in Process,
               \/ Saga!BeginBumpa(o) \/ Saga!BeginSync(o) \/ Saga!BeginHermes(o)
               \/ Saga!BeginComplete(o)
        PROVE  \E r : Right(r) /\ operation' = [operation EXCEPT ![o] = r]
    BY <2>2, <2>3 DEF Saga!BeginBumpa, Saga!BeginSync, Saga!BeginHermes, Saga!BeginComplete
  <2>4. ASSUME NEW o \in Process,
               \/ Saga!ConnectFails(o) \/ \E same \in BOOLEAN : Saga!Connect(o, same)
               \/ Saga!TriggerSync(o) \/ Saga!Unready(o) \/ Saga!Activated(o)
               \/ Saga!ActivationFails(o) \/ Saga!Complete(o) \/ Saga!CompletionFails(o)
               \/ Saga!Crash(o)
        PROVE  Saga!Ends(o)
    BY <2>4
      DEF Saga!ConnectFails, Saga!Connect, Saga!TriggerSync, Saga!Unready, Saga!Activated,
        Saga!ActivationFails, Saga!Complete, Saga!CompletionFails, Saga!Crash
  <2>5. CASE \/ Saga!SetOwner \/ Saga!ApprovePhone \/ Saga!AcceptSync \/ Saga!ReplaceConnection
             \/ Saga!OptOut
             \/ \E n \in Saga!Attempt, status \in {"usable", "unusable", "failed"} :
                  Saga!JobEnds(n, status)
             \/ \E end \in {"active", "degraded"} : Saga!Reactivate(end)
             \/ \E status \in {"active", "suspended"} : Saga!PatchTenant(status)
    BY <2>5
      DEF Saga!SetOwner, Saga!ApprovePhone, Saga!AcceptSync, Saga!ReplaceConnection, Saga!OptOut,
        Saga!JobEnds, Saga!Reactivate, Saga!PatchTenant
  <2>. QED
    BY <2>1, <2>3, <2>4, <2>5 DEF Saga!Next
<1>3. \A o \in Process : Right(operation'[o])
  BY <1>1, <1>2
<1>4. operation' \in [Process -> {Saga!Idle} \cup Saga!Waiting]
  BY <1>1, <1>2
<1>. QED
  BY <1>3, <1>4

\* The jobs, the boundary and the rest keep their types.
LEMMA SagaTypes ==
  ASSUME SagaInv, Saga!Next
  PROVE  /\ tenant' \in {"provisioning", "active", "suspended"} /\ owner' \in BOOLEAN
         /\ boundary' \in 0..MaxBoundary /\ hermes' \in Saga!Profiles
         /\ job' \in [Saga!Attempt ->
                        [status : {"none", "open", "usable", "unusable", "failed"},
                         boundary : 0..MaxBoundary]]
<1>1. tenant' \in {"provisioning", "active", "suspended"}
  <2>1. tenant' \in {tenant, "active", "suspended"}
    BY DEF Saga!Next, Saga!SetOwner, Saga!ApprovePhone, Saga!AcceptSync, Saga!ReplaceConnection,
      Saga!OptOut, Saga!BeginBumpa, Saga!ConnectFails, Saga!Connect, Saga!BeginSync,
      Saga!TriggerSync, Saga!Unready, Saga!BeginHermes, Saga!Activated, Saga!ActivationFails,
      Saga!BeginComplete, Saga!Complete, Saga!CompletionFails, Saga!Crash, Saga!JobEnds,
      Saga!Reactivate, Saga!PatchTenant
  <2>. QED
    BY <2>1 DEF SagaInv, Saga!TypeOK
<1>2. owner' \in BOOLEAN
  <2>1. owner' \in {owner, TRUE, FALSE}
    BY DEF Saga!Next, Saga!SetOwner, Saga!ApprovePhone, Saga!AcceptSync, Saga!ReplaceConnection,
      Saga!OptOut, Saga!BeginBumpa, Saga!ConnectFails, Saga!Connect, Saga!BeginSync,
      Saga!TriggerSync, Saga!Unready, Saga!BeginHermes, Saga!Activated, Saga!ActivationFails,
      Saga!BeginComplete, Saga!Complete, Saga!CompletionFails, Saga!Crash, Saga!JobEnds,
      Saga!Reactivate, Saga!PatchTenant
  <2>. QED
    BY <2>1 DEF SagaInv, Saga!TypeOK
<1>3. hermes' \in Saga!Profiles
  <2>1. hermes' \in {hermes, "provisioning", "active", "degraded"}
    BY DEF Saga!Next, Saga!SetOwner, Saga!ApprovePhone, Saga!AcceptSync, Saga!ReplaceConnection,
      Saga!OptOut, Saga!BeginBumpa, Saga!ConnectFails, Saga!Connect, Saga!BeginSync,
      Saga!TriggerSync, Saga!Unready, Saga!BeginHermes, Saga!Activated, Saga!ActivationFails,
      Saga!BeginComplete, Saga!Complete, Saga!CompletionFails, Saga!Crash, Saga!JobEnds,
      Saga!Reactivate, Saga!PatchTenant
  <2>. QED
    BY <2>1 DEF SagaInv, Saga!TypeOK, Saga!Profiles
<1>4. boundary' \in 0..MaxBoundary
  <2>1. \/ boundary' = boundary \/ (boundary < MaxBoundary /\ boundary' = boundary + 1)
        \/ \E o \in Process, same \in BOOLEAN : Saga!Connect(o, same)
    BY DEF Saga!Next, Saga!SetOwner, Saga!ApprovePhone, Saga!AcceptSync, Saga!ReplaceConnection,
      Saga!OptOut, Saga!BeginBumpa, Saga!ConnectFails, Saga!BeginSync,
      Saga!TriggerSync, Saga!Unready, Saga!BeginHermes, Saga!Activated, Saga!ActivationFails,
      Saga!BeginComplete, Saga!Complete, Saga!CompletionFails, Saga!Crash, Saga!JobEnds,
      Saga!Reactivate, Saga!PatchTenant
  <2>. QED
    BY <2>1, ServicesAssumption DEF SagaInv, Saga!TypeOK, Saga!Connect
<1>5. job' \in [Saga!Attempt ->
                   [status : {"none", "open", "usable", "unusable", "failed"},
                    boundary : 0..MaxBoundary]]
  <2>0. /\ boundary \in 0..MaxBoundary
        /\ job \in [Saga!Attempt ->
                      [status : {"none", "open", "usable", "unusable", "failed"},
                       boundary : 0..MaxBoundary]]
    BY DEF SagaInv, Saga!TypeOK
  <2>1. CASE UNCHANGED job
    BY <2>0, <2>1
  <2>2. ASSUME NEW o \in Process, Saga!TriggerSync(o), job' # job
        PROVE  job' \in [Saga!Attempt ->
                           [status : {"none", "open", "usable", "unusable", "failed"},
                            boundary : 0..MaxBoundary]]
    <3>1. PICK r : r = [status |-> "open", boundary |-> boundary]
      OBVIOUS
    <3>2. job' = [job EXCEPT ![saga.attempt + 1] = r]
      BY <2>2, <3>1 DEF Saga!TriggerSync
    <3>3. r \in [status : {"none", "open", "usable", "unusable", "failed"}, boundary : 0..MaxBoundary]
      BY <2>0, <3>1
    <3>. QED
      BY <2>0, <3>2, <3>3
  <2>3. ASSUME NEW n \in Saga!Attempt, NEW status \in {"usable", "unusable", "failed"},
               Saga!JobEnds(n, status)
        PROVE  job' \in [Saga!Attempt ->
                           [status : {"none", "open", "usable", "unusable", "failed"},
                            boundary : 0..MaxBoundary]]
    <3>1. PICK r : r = [job[n] EXCEPT !.status = status]
      OBVIOUS
    <3>2. job' = [job EXCEPT ![n] = r]
      BY <2>3, <3>1 DEF Saga!JobEnds
    <3>3. r \in [status : {"none", "open", "usable", "unusable", "failed"}, boundary : 0..MaxBoundary]
      BY <2>0, <3>1
    <3>. QED
      BY <2>0, <3>2, <3>3
  <2>4. \/ UNCHANGED job \/ \E o \in Process : Saga!TriggerSync(o)
        \/ \E n \in Saga!Attempt, status \in {"usable", "unusable", "failed"} :
             Saga!JobEnds(n, status)
    BY DEF Saga!Next, Saga!SetOwner, Saga!ApprovePhone, Saga!AcceptSync, Saga!ReplaceConnection,
      Saga!OptOut, Saga!BeginBumpa, Saga!ConnectFails, Saga!Connect, Saga!BeginSync,
      Saga!Unready, Saga!BeginHermes, Saga!Activated, Saga!ActivationFails,
      Saga!BeginComplete, Saga!Complete, Saga!CompletionFails, Saga!Crash,
      Saga!Reactivate, Saga!PatchTenant
  <2>. QED
    BY <2>1, <2>2, <2>3, <2>4
<1>. QED
  BY <1>1, <1>2, <1>3, <1>4, <1>5

\* The saga agrees with its row.
LEMMA SagaInvariance == Spec => []SagaInv
<1>1. ASSUME Saga!Init
      PROVE  SagaInv
  <2>1. saga \in Saga!SagaRow /\ Saga!Consistent(saga)
    BY <1>1, ServicesAssumption, StepNames DEF Saga!Init, Saga!SagaRow, Saga!Consistent
  <2>2. /\ tenant \in {"provisioning", "active", "suspended"} /\ owner \in BOOLEAN
        /\ boundary \in 0..MaxBoundary /\ hermes \in Saga!Profiles
    <3>1. 0 \in 0..MaxBoundary
      BY ServicesAssumption
    <3>. QED
      BY <1>1, <3>1 DEF Saga!Init, Saga!Profiles
  <2>3. job \in [Saga!Attempt ->
                   [status : {"none", "open", "usable", "unusable", "failed"},
                    boundary : 0..MaxBoundary]]
    BY <1>1, ServicesAssumption DEF Saga!Init
  <2>4. /\ operation \in [Process -> {Saga!Idle} \cup Saga!Waiting]
        /\ \A o \in Process : operation[o] = Saga!Idle
    BY <1>1 DEF Saga!Init
  <2>. QED
    BY <2>1, <2>2, <2>3, <2>4 DEF SagaInv, Saga!TypeOK
<1>2. ASSUME SagaInv, [Next]_vars
      PROVE  SagaInv'
  <2>1. CASE UNCHANGED sagaVars
    BY <1>2, <2>1 DEF SagaInv, Saga!TypeOK, Saga!Consistent, sagaVars
  <2>2. CASE Saga!Next
    <3>1. saga' \in Saga!SagaRow /\ Saga!Consistent(saga)'
      BY <1>2, <2>2, SagaMoves DEF Fits, Saga!Consistent
    <3>2. /\ tenant' \in {"provisioning", "active", "suspended"} /\ owner' \in BOOLEAN
          /\ boundary' \in 0..MaxBoundary /\ hermes' \in Saga!Profiles
          /\ job' \in [Saga!Attempt ->
                          [status : {"none", "open", "usable", "unusable", "failed"},
                           boundary : 0..MaxBoundary]]
      BY <1>2, <2>2, SagaTypes
    <3>3. /\ operation' \in [Process -> {Saga!Idle} \cup Saga!Waiting]
          /\ \A o \in Process :
               operation'[o] # Saga!Idle => operation'[o].saga.revision < MaxRevision
      BY <1>2, <2>2, <3>2, RequestsFit
    <3>. QED
      BY <3>1, <3>2, <3>3 DEF SagaInv, Saga!TypeOK
  <2>3. Saga!Next \/ UNCHANGED sagaVars
    BY <1>2 DEF Next, vars
  <2>. QED
    BY <2>1, <2>2, <2>3
<1>3. Init => SagaInv
  BY <1>1 DEF Init
<1>. QED
  BY <1>2, <1>3, PTL DEF Spec

\* The saga moves one step at a time and never back, and no late failure makes a completed
\* one ask for attention, for any number of operators, requests and boundaries
\* (onboarding.py: _require_step, _persist_failure and the constraint of its table).
THEOREM OrderedSteps == Spec => StepsInOrder
<1>1. SagaInv /\ [Next]_vars =>
        [/\ saga'.step # saga.step =>
              \E i \in 1..6 : saga.step = Saga!Step[i] /\ saga'.step = Saga!Step[i + 1]
         /\ saga.step = "completed" => saga'.status = "completed"]_(Saga!vars)
  <2>1. SUFFICES ASSUME SagaInv, [Next]_vars
                 PROVE  [OneStep(saga, saga')]_(Saga!vars)
    BY DEF OneStep
  <2>2. Saga!Next \/ UNCHANGED Saga!vars
    BY <2>1 DEF Next, vars, sagaVars, Saga!vars
  <2>. QED
    BY <2>1, <2>2, SagaMoves DEF Fits
<1>. QED
  BY <1>1, SagaInvariance, PTL DEF Spec, StepsInOrder, Saga!StepsInOrder

-----------------------------------------------------------------------------
(* Promotion *)

\* The host agrees with itself.
Agrees ==
  /\ env.app = record.app /\ env.infra = record.infra
  /\ stamp = Release!StampOf(record) /\ head = record.ops
  /\ schema \in record.app .. record.ops /\ (record.app < schema => record.app \in Contract)
  /\ live.app \in {0, record.app}

\* No record and no migration has been written: what ran before may run again.
Untouched ==
  /\ record = flow.prior /\ stamp = Release!StampOf(flow.prior) /\ ~flow.rewritten
  /\ schema \in flow.prior.app .. flow.prior.ops
  /\ flow.prior.app < schema => flow.prior.app \in Contract
  /\ flow.was \in {0, flow.prior.app} /\ live.app \in {0, flow.prior.app}

\* The migrations of the target may have happened.
Crossed == schema \in flow.prior.app .. flow.target

\* The target runs, or the previous release with the infrastructure of the target.
Started == schema = flow.target /\ live = [app |-> flow.target, auth |-> env.auth]
Contained == Crossed /\ flow.prior.app \in Contract
Back ==
  /\ Contained /\ env = Release!Hybrid
  /\ live = [app |-> flow.prior.app, auth |-> flow.prior.auth]

\* The record, and then the revision, name what runs.
Named(chosen) ==
  /\ record = [app |-> chosen.app, infra |-> chosen.infra, auth |-> chosen.auth,
               ops |-> flow.target]
  /\ flow.rewritten
Stamped(chosen) == Named(chosen) /\ stamp = Release!StampOf(record)

\* What a terminal state stands for.
Outcome(end) ==
  /\ end = "PREVIOUS_RESTORED" => Untouched
  /\ end = "COMMITTED" => Started /\ Stamped(Release!Target)
  /\ end = "HYBRID_PERSISTED" => Back /\ Stamped(Release!Hybrid)

Before == {"checkout", "pointers", "restart"} \cup Release!Early

\* What holds at each step of a promotion that asks for no operator.
Place ==
  /\ flow.at \in {"locked", "snapshot", "child"} => Untouched /\ inner = "none" /\ ~flow.ok
  /\ flow.at \in Before => Untouched /\ inner = "PRE_BOUNDARY"
  /\ flow.at \in Release!Late => inner = "FORWARD_BOUNDARY" /\ Crossed
  /\ flow.at = "migrate" => live.app = 0
  /\ flow.at = "start" => live.app = 0 /\ schema = flow.target
  /\ flow.at \in {"record", "stamp", "commit"} => Started
  /\ flow.at = "stamp" => Named(Release!Target)
  /\ flow.at = "commit" => Stamped(Release!Target)
  /\ flow.at = "rollback" => Contained
  /\ flow.at \in {"rerecord", "restamp"} => Back
  /\ flow.at = "restamp" => Named(Release!Hybrid)
  /\ flow.at = "exit" =>
       inner # "none" /\ (inner = "PRE_BOUNDARY" => Untouched) /\ Outcome(inner)
  /\ flow.at = "validate" =>
       /\ inner = "none"
       /\ IF flow.ok THEN Outcome("COMMITTED")
                     ELSE Outcome("PREVIOUS_RESTORED") \/ Outcome("HYBRID_PERSISTED")
  /\ flow.at = "archive" =>
       /\ inner = "none" /\ outer \in Release!Terminal /\ Outcome(outer)
       /\ env = Release!BoundaryOf(record) /\ head = record.ops

ReleaseInv ==
  /\ Release!TypeOK /\ Release!WritersFitSchema
  /\ flow.at = "none" /\ outer = "none" /\ ~mark => inner = "none" /\ Agrees
  /\ flow.at = "resume" => outer = "none" /\ ~mark /\ inner = "none" /\ Agrees
  /\ flow \in Release!Flow =>
       /\ outer # "none" /\ flow.target >= flow.prior.ops /\ flow.prior.app <= flow.prior.ops
       /\ mark => flow.at \in {"exit", "validate"}
       /\ ~mark => Place

-----------------------------------------------------------------------------
\* A step of the workflow keeps what the workflow remembers.
Remembers ==
  /\ flow'.target = flow.target /\ flow'.infra = flow.infra /\ flow'.prior = flow.prior
  /\ flow'.was = flow.was
Steps == Before \cup Release!Late \cup {"locked", "snapshot", "child", "exit", "validate", "archive"}

\* A workflow moves to another step, and may note something on the way.
LEMMA FlowMoves ==
  ASSUME flow \in Release!Flow, NEW step \in Steps
  PROVE  /\ \A b \in BOOLEAN :
              /\ [flow EXCEPT !.at = step] \in Release!Flow
              /\ [flow EXCEPT !.at = step, !.ok = b] \in Release!Flow
              /\ [flow EXCEPT !.at = step, !.stopped = b] \in Release!Flow
              /\ [flow EXCEPT !.at = step, !.restored = b] \in Release!Flow
              /\ [flow EXCEPT !.at = step, !.role = b] \in Release!Flow
              /\ [flow EXCEPT !.at = step, !.rewritten = b] \in Release!Flow
         /\ Release!Go(step) =>
              flow'.at = step /\ Remembers /\ flow'.rewritten = flow.rewritten /\ flow'.ok = flow.ok
<1>1. step \in Release!Early \cup Release!Late \cup
        {"locked", "snapshot", "child", "checkout", "pointers", "restart", "exit", "validate", "archive"}
  BY DEF Steps, Before
<1>2. ASSUME NEW b \in BOOLEAN
      PROVE  /\ [flow EXCEPT !.at = step] \in Release!Flow
             /\ [flow EXCEPT !.at = step, !.ok = b] \in Release!Flow
             /\ [flow EXCEPT !.at = step, !.stopped = b] \in Release!Flow
             /\ [flow EXCEPT !.at = step, !.restored = b] \in Release!Flow
             /\ [flow EXCEPT !.at = step, !.role = b] \in Release!Flow
             /\ [flow EXCEPT !.at = step, !.rewritten = b] \in Release!Flow
  <2>1. [flow EXCEPT !.at = step] \in Release!Flow
    BY <1>1 DEF Release!Flow
  <2>2. [flow EXCEPT !.at = step, !.ok = b] \in Release!Flow
    BY <1>1 DEF Release!Flow
  <2>3. [flow EXCEPT !.at = step, !.stopped = b] \in Release!Flow
    BY <1>1 DEF Release!Flow
  <2>4. [flow EXCEPT !.at = step, !.restored = b] \in Release!Flow
    BY <1>1 DEF Release!Flow
  <2>5. [flow EXCEPT !.at = step, !.role = b] \in Release!Flow
    BY <1>1 DEF Release!Flow
  <2>6. [flow EXCEPT !.at = step, !.rewritten = b] \in Release!Flow
    BY <1>1 DEF Release!Flow
  <2>. QED
    BY <2>1, <2>2, <2>3, <2>4, <2>5, <2>6
<1>3. ASSUME Release!Go(step)
      PROVE  flow'.at = step /\ Remembers /\ flow'.rewritten = flow.rewritten /\ flow'.ok = flow.ok
  BY <1>3 DEF Release!Go, Release!Flow, Remembers
<1>. QED
  BY <1>2, <1>3

\* Where a workflow is says which record it is.
LEMMA FlowKinds ==
  ASSUME Release!TypeOK
  PROVE  /\ flow \in Release!Flow <=> flow.at \notin {"none", "resume"}
         /\ flow \in Release!Flow => flow.at \in Steps
         /\ flow.at = "none" <=> flow = Release!Free
         /\ flow.at = "resume" <=> flow = Release!Resuming
<1>1. flow \in Release!Flow => flow.at \in Steps
  BY DEF Release!Flow, Steps, Before
<1>2. \A step \in Steps : step \notin {"none", "resume"}
  BY DEF Steps, Before, Release!Early, Release!Late
<1>3. Release!Free.at = "none" /\ Release!Resuming.at = "resume"
  BY DEF Release!Free, Release!Resuming
<1>. QED
  BY <1>1, <1>2, <1>3 DEF Release!TypeOK
\* What a workflow selects, records and stamps are boundaries, records and stamps.
LEMMA BoundaryTypes ==
  ASSUME Release!TypeOK
  PROVE  /\ flow \in Release!Flow =>
              /\ Release!BoundaryOf(flow.prior) \in Release!Boundaries
              /\ Release!Target \in Release!Boundaries /\ Release!Hybrid \in Release!Boundaries
              /\ flow.target \in Release!Release /\ flow.prior \in Release!Records
              /\ flow.was \in Release!Release \cup {0} /\ flow.infra \in Release!Release
         /\ Release!StampOf(record) \in [app : Release!Release, infra : Release!Release]
         /\ env.app \in Release!Release /\ env.auth \in Auth
<1>1. ASSUME flow \in Release!Flow
      PROVE  /\ flow.target \in Release!Release /\ flow.prior \in Release!Records
             /\ flow.was \in Release!Release \cup {0} /\ flow.infra \in Release!Release
  BY <1>1 DEF Release!Flow
<1>2. /\ record \in Release!Records /\ env \in Release!Boundaries
      /\ env.app \in Release!Release /\ env.auth \in Auth
  BY DEF Release!TypeOK, Release!Boundaries
<1>3. ASSUME flow \in Release!Flow
      PROVE  /\ Release!BoundaryOf(flow.prior) \in Release!Boundaries
             /\ Release!Target \in Release!Boundaries /\ Release!Hybrid \in Release!Boundaries
  BY <1>1, <1>2, <1>3
    DEF Release!BoundaryOf, Release!Target, Release!Hybrid, Release!Boundaries, Release!Records
<1>4. Release!StampOf(record) \in [app : Release!Release, infra : Release!Release]
  BY <1>2 DEF Release!StampOf, Release!Records
<1>. QED
  BY <1>1, <1>2, <1>3, <1>4

\* The files keep their types.
LEMMA FileTypes ==
  ASSUME Release!TypeOK, Release!Next
  PROVE  /\ env' \in Release!Boundaries /\ record' \in Release!Records
         /\ stamp' \in [app : Release!Release, infra : Release!Release]
         /\ head' \in Release!Release /\ schema' \in Release!Release
<1>1. \/ /\ flow \notin Release!Flow /\ UNCHANGED <<record, stamp, head, schema>>
         /\ \/ UNCHANGED env
            \/ \E auth \in Auth : env' = [env EXCEPT !.auth = auth]
      \/ /\ flow \in Release!Flow
         /\ env' \in {env, Release!BoundaryOf(flow.prior), Release!Target, Release!Hybrid}
         /\ \/ UNCHANGED record
            \/ record' = [app |-> Release!Target.app, infra |-> Release!Target.infra,
                          auth |-> Release!Target.auth, ops |-> flow.target]
            \/ record' = [app |-> Release!Hybrid.app, infra |-> Release!Hybrid.infra,
                          auth |-> Release!Hybrid.auth, ops |-> flow.target]
         /\ stamp' \in {stamp, Release!StampOf(record)}
         /\ head' \in {head, flow.target, flow.prior.ops}
         /\ schema' \in {schema, flow.target}
  <2>1. CASE \/ \E release, infra \in Release!Release : Release!Lock(release, infra)
             \/ Release!BackupStops \/ Release!BackupResumes
    BY <2>1, FlowKinds DEF Release!Lock, Release!BackupStops, Release!BackupResumes, Release!At
  <2>2. CASE \E auth \in Auth : Release!StageAuth(auth)
    BY <2>2, FlowKinds DEF Release!StageAuth, Release!At
  <2>3. CASE Release!Crash
    BY <2>3 DEF Release!Crash
  <2>4. CASE Release!Snapshot \/ Release!RunChild \/ Release!LoadBoundary \/ Release!LauncherFails
             \/ Release!Preflight \/ Release!VerifyImages \/ Release!StopWriters
             \/ Release!RestartPrevious \/ Release!CrossBoundary \/ Release!StartTarget
             \/ Release!Contain \/ Release!Archive \/ Release!KillDeploy
    <3>1. UNCHANGED <<env, record, stamp, head, schema>>
      BY <2>4
        DEF Release!Snapshot, Release!RunChild, Release!LoadBoundary, Release!LauncherFails,
          Release!Preflight, Release!VerifyImages, Release!StopWriters, Release!RestartPrevious,
          Release!CrossBoundary, Release!StartTarget, Release!Contain, Release!Archive,
          Release!KillDeploy
    <3>. QED
      BY <3>1
  <2>5. CASE Release!CoordinatorExits \/ Release!LoadFails \/ Release!RewritePointers
             \/ Release!Commit \/ Release!RollBack \/ Release!RollBackFails \/ Release!Validate
    <3>1. flow \in Release!Flow
      BY <2>5, FlowKinds
        DEF Release!CoordinatorExits, Release!LoadFails, Release!RewritePointers, Release!Commit,
          Release!RollBack, Release!RollBackFails, Release!Validate, Release!At
    <3>2. UNCHANGED <<record, stamp, head, schema>>
      BY <2>5
        DEF Release!CoordinatorExits, Release!LoadFails, Release!RewritePointers, Release!Commit,
          Release!RollBack, Release!RollBackFails, Release!Validate
    <3>3. env' \in {env, Release!BoundaryOf(flow.prior), Release!Target, Release!Hybrid}
      BY <2>5
        DEF Release!CoordinatorExits, Release!LoadFails, Release!RewritePointers, Release!Commit,
          Release!RollBack, Release!RollBackFails, Release!Validate, Release!Repaired
    <3>. QED
      BY <3>1, <3>2, <3>3
  <2>6. CASE Release!Checkout \/ Release!LauncherExits \/ Release!DeployFails
    <3>1. flow \in Release!Flow
      BY <2>6, FlowKinds
        DEF Release!Checkout, Release!LauncherExits, Release!DeployFails, Release!Early, Release!At
    <3>2. /\ UNCHANGED <<record, stamp, schema>>
          /\ env' \in {env, Release!BoundaryOf(flow.prior)}
          /\ head' \in {head, flow.target, flow.prior.ops}
      BY <2>6
        DEF Release!Checkout, Release!LauncherExits, Release!DeployFails, Release!RestoreBoundary
    <3>. QED
      BY <3>1, <3>2
  <2>7. CASE Release!Migrate \/ Release!ForwardFails \/ Release!StampTarget \/ Release!StampHybrid
    <3>1. flow \in Release!Flow
      BY <2>7, FlowKinds
        DEF Release!Migrate, Release!ForwardFails, Release!StampTarget, Release!StampHybrid,
          Release!At
    <3>2. /\ UNCHANGED <<env, record, head>> /\ stamp' \in {stamp, Release!StampOf(record)}
          /\ schema' \in {schema, flow.target}
      BY <2>7
        DEF Release!Migrate, Release!ForwardFails, Release!StampTarget, Release!StampHybrid
    <3>. QED
      BY <3>1, <3>2
  <2>8. CASE Release!RecordTarget \/ Release!RecordHybrid
    <3>1. flow \in Release!Flow
      BY <2>8, FlowKinds DEF Release!RecordTarget, Release!RecordHybrid, Release!At
    <3>. QED
      BY <2>8, <3>1 DEF Release!RecordTarget, Release!RecordHybrid, Release!Record
  <2>. QED
    BY <2>1, <2>2, <2>3, <2>4, <2>5, <2>6, <2>7, <2>8 DEF Release!Next
<1>2. CASE flow \notin Release!Flow
  <2>1. ASSUME NEW auth \in Auth
        PROVE  [env EXCEPT !.auth = auth] \in Release!Boundaries
    BY <2>1 DEF Release!TypeOK, Release!Boundaries
  <2>. QED
    BY <1>1, <1>2, <2>1 DEF Release!TypeOK
<1>3. CASE flow \in Release!Flow
  <2>1. record' \in Release!Records
    <3>1. ASSUME NEW b \in Release!Boundaries
          PROVE  [app |-> b.app, infra |-> b.infra, auth |-> b.auth, ops |-> flow.target]
                   \in Release!Records
      BY <1>3, BoundaryTypes DEF Release!Boundaries, Release!Records
    <3>. QED
      BY <1>1, <1>3, <3>1, BoundaryTypes DEF Release!TypeOK
  <2>2. env' \in Release!Boundaries
    BY <1>1, <1>3, BoundaryTypes DEF Release!TypeOK
  <2>3. flow.prior.ops \in Release!Release
    BY <1>3, BoundaryTypes DEF Release!Records
  <2>. QED
    BY <1>1, <1>3, <2>1, <2>2, <2>3, BoundaryTypes DEF Release!TypeOK
<1>. QED
  BY <1>2, <1>3
\* What runs keeps its type.
LEMMA LiveTypes ==
  ASSUME Release!TypeOK, Release!Next
  PROVE  live' \in [app : Release!Release \cup {0}, auth : Auth]
<1>. DEFINE Lives == [app : Release!Release \cup {0}, auth : Auth]
<1>1. live \in Lives
  BY DEF Release!TypeOK
<1>2. ASSUME NEW app \in Release!Release \cup {0}
      PROVE  [live EXCEPT !.app = app] \in Lives
  BY <1>1, <1>2
<1>3. [app |-> env.app, auth |-> env.auth] \in Lives
  BY BoundaryTypes
<1>4. ASSUME flow \in Release!Flow
      PROVE  /\ [app |-> flow.target, auth |-> env.auth] \in Lives
             /\ [app |-> flow.prior.app, auth |-> flow.prior.auth] \in Lives
             /\ flow.was \in Release!Release \cup {0}
  BY <1>4, BoundaryTypes DEF Release!Records
<1>5. CASE \/ \E release, infra \in Release!Release : Release!Lock(release, infra)
           \/ \E auth \in Auth : Release!StageAuth(auth)
           \/ Release!Snapshot \/ Release!RunChild \/ Release!CoordinatorExits
           \/ Release!LoadBoundary \/ Release!LoadFails \/ Release!Checkout
           \/ Release!RewritePointers \/ Release!LauncherFails \/ Release!LauncherExits
           \/ Release!Preflight \/ Release!VerifyImages \/ Release!CrossBoundary
           \/ Release!Migrate \/ Release!StampTarget \/ Release!Commit \/ Release!StampHybrid
  <2>1. UNCHANGED live
    BY <1>5
      DEF Release!Lock, Release!StageAuth, Release!Snapshot, Release!RunChild,
        Release!CoordinatorExits, Release!LoadBoundary, Release!LoadFails, Release!Checkout,
        Release!RewritePointers, Release!LauncherFails, Release!LauncherExits,
        Release!Preflight, Release!VerifyImages, Release!CrossBoundary, Release!Migrate,
        Release!StampTarget, Release!Commit, Release!StampHybrid
  <2>. QED
    BY <1>1, <2>1
<1>6. CASE Release!RecordTarget \/ Release!RecordHybrid \/ Release!Validate \/ Release!Archive
           \/ Release!KillDeploy \/ Release!Crash
  <2>1. UNCHANGED live
    BY <1>6
      DEF Release!RecordTarget, Release!RecordHybrid, Release!Record, Release!Validate,
        Release!Archive, Release!KillDeploy, Release!Crash
  <2>. QED
    BY <1>1, <2>1
<1>7. CASE Release!StopWriters \/ Release!DeployFails \/ Release!Contain \/ Release!BackupStops
           \/ Release!BackupResumes
  <2>1. live' \in {live, [live EXCEPT !.app = 0], [app |-> env.app, auth |-> env.auth]}
    BY <1>7
      DEF Release!StopWriters, Release!DeployFails, Release!Contain, Release!BackupStops,
        Release!BackupResumes
  <2>. QED
    BY <1>1, <1>2, <1>3, <2>1
<1>8. CASE Release!RestartPrevious
  <2>1. flow \in Release!Flow
    BY <1>8, FlowKinds DEF Release!RestartPrevious, Release!At
  <2>2. live' \in {live, [live EXCEPT !.app = flow.was]}
    BY <1>8 DEF Release!RestartPrevious
  <2>. QED
    BY <1>1, <1>2, <1>4, <2>1, <2>2
<1>9. CASE Release!StartTarget \/ Release!ForwardFails \/ Release!RollBack \/ Release!RollBackFails
  <2>1. flow \in Release!Flow
    BY <1>9, FlowKinds
      DEF Release!StartTarget, Release!ForwardFails, Release!RollBack, Release!RollBackFails,
        Release!At
  <2>2. live' \in {live, [live EXCEPT !.app = 0], [app |-> flow.target, auth |-> env.auth],
                   [app |-> flow.prior.app, auth |-> flow.prior.auth]}
    BY <1>9
      DEF Release!StartTarget, Release!ForwardFails, Release!RollBack, Release!RollBackFails
  <2>. QED
    BY <1>1, <1>2, <1>4, <2>1, <2>2
<1>. QED
  BY <1>5, <1>6, <1>7, <1>8, <1>9 DEF Release!Next

\* The journals and the interlock keep their types.
LEMMA JournalTypes ==
  ASSUME Release!TypeOK, Release!Next
  PROVE  /\ outer' \in Release!Terminal \cup {"none", "LOCKED", "SNAPSHOT_RECORDED", "CHILD_RUNNING",
                                              "MAINTENANCE_REQUIRED"}
         /\ inner' \in Release!Terminal \cup {"none", "PRE_BOUNDARY", "FORWARD_BOUNDARY"}
         /\ mark' \in BOOLEAN
<1>1. outer' \in {outer, "LOCKED", "SNAPSHOT_RECORDED", "CHILD_RUNNING", "PREVIOUS_RESTORED",
                  "COMMITTED", "HYBRID_PERSISTED", "MAINTENANCE_REQUIRED", "none"}
  <2>1. CASE \/ \E release, infra \in Release!Release : Release!Lock(release, infra)
             \/ Release!Snapshot \/ Release!RunChild \/ Release!CoordinatorExits \/ Release!Archive
    BY <2>1
      DEF Release!Lock, Release!Snapshot, Release!RunChild, Release!CoordinatorExits,
        Release!Archive
  <2>2. CASE Release!Validate
    BY <2>2 DEF Release!Validate, Release!Found
  <2>3. CASE \/ \E auth \in Auth : Release!StageAuth(auth)
             \/ Release!LoadBoundary \/ Release!LoadFails \/ Release!Checkout
             \/ Release!RewritePointers \/ Release!LauncherFails \/ Release!LauncherExits
             \/ Release!Preflight \/ Release!VerifyImages \/ Release!CrossBoundary
             \/ Release!Migrate \/ Release!StampTarget \/ Release!Commit \/ Release!StampHybrid
    BY <2>3
      DEF Release!StageAuth, Release!LoadBoundary, Release!LoadFails, Release!Checkout,
        Release!RewritePointers, Release!LauncherFails, Release!LauncherExits,
        Release!Preflight, Release!VerifyImages, Release!CrossBoundary, Release!Migrate,
        Release!StampTarget, Release!Commit, Release!StampHybrid
  <2>4. CASE Release!StopWriters \/ Release!DeployFails \/ Release!RestartPrevious
             \/ Release!StartTarget \/ Release!RecordTarget \/ Release!ForwardFails
             \/ Release!Contain \/ Release!RollBack \/ Release!RecordHybrid
             \/ Release!RollBackFails \/ Release!KillDeploy \/ Release!Crash
             \/ Release!BackupStops \/ Release!BackupResumes
    BY <2>4
      DEF Release!StopWriters, Release!DeployFails, Release!RestartPrevious,
        Release!StartTarget, Release!RecordTarget, Release!ForwardFails, Release!Contain,
        Release!RollBack, Release!RecordHybrid, Release!Record, Release!RollBackFails,
        Release!KillDeploy, Release!Crash, Release!BackupStops, Release!BackupResumes
  <2>. QED
    BY <2>1, <2>2, <2>3, <2>4 DEF Release!Next
<1>2. /\ inner' \in {inner, "none", "PRE_BOUNDARY", "PREVIOUS_RESTORED", "FORWARD_BOUNDARY",
                     "COMMITTED", "HYBRID_PERSISTED"}
      /\ mark' \in {mark, TRUE}
  <2>1. CASE Release!LoadBoundary \/ Release!LauncherExits \/ Release!DeployFails
             \/ Release!RestartPrevious \/ Release!CrossBoundary \/ Release!Commit
             \/ Release!StampHybrid \/ Release!CoordinatorExits
    <3>1. inner' \in {inner, "none", "PRE_BOUNDARY", "PREVIOUS_RESTORED", "FORWARD_BOUNDARY",
                      "COMMITTED", "HYBRID_PERSISTED"}
      BY <2>1
        DEF Release!LoadBoundary, Release!LauncherExits, Release!DeployFails,
          Release!RestartPrevious, Release!CrossBoundary, Release!Commit, Release!StampHybrid,
          Release!CoordinatorExits, Release!Restart
    <3>2. mark' \in {mark, TRUE}
      BY <2>1
        DEF Release!LoadBoundary, Release!LauncherExits, Release!DeployFails,
          Release!RestartPrevious, Release!CrossBoundary, Release!Commit, Release!StampHybrid,
          Release!CoordinatorExits, Release!Restart, Release!Mark
    <3>. QED
      BY <3>1, <3>2
  <2>2. CASE \/ \E auth \in Auth : Release!StageAuth(auth)
             \/ \E release, infra \in Release!Release : Release!Lock(release, infra)
             \/ Release!Snapshot \/ Release!RunChild \/ Release!Archive \/ Release!Validate
             \/ Release!LoadFails \/ Release!Checkout
             \/ Release!RewritePointers \/ Release!LauncherFails
             \/ Release!Preflight \/ Release!VerifyImages
             \/ Release!Migrate \/ Release!StampTarget
    BY <2>2
      DEF Release!StageAuth, Release!Lock, Release!Snapshot, Release!RunChild, Release!Archive,
        Release!Validate, Release!LoadFails, Release!Checkout,
        Release!RewritePointers, Release!LauncherFails, Release!Preflight,
        Release!VerifyImages, Release!Migrate, Release!StampTarget, Release!Mark
  <2>3. CASE Release!StopWriters
             \/ Release!StartTarget \/ Release!RecordTarget \/ Release!ForwardFails
             \/ Release!Contain \/ Release!RollBack \/ Release!RecordHybrid
             \/ Release!RollBackFails \/ Release!KillDeploy \/ Release!Crash
             \/ Release!BackupStops \/ Release!BackupResumes
    BY <2>3
      DEF Release!StopWriters, Release!StartTarget, Release!RecordTarget,
        Release!ForwardFails, Release!Contain, Release!RollBack, Release!RecordHybrid,
        Release!Record, Release!RollBackFails, Release!KillDeploy, Release!Crash,
        Release!BackupStops, Release!BackupResumes, Release!Mark
  <2>. QED
    BY <2>1, <2>2, <2>3 DEF Release!Next
<1>. QED
  BY <1>1, <1>2 DEF Release!TypeOK, Release!Terminal

\* The workflow keeps its type.
LEMMA FlowTypes ==
  ASSUME Release!TypeOK, Release!Next
  PROVE  flow' \in {Release!Free, Release!Resuming} \cup Release!Flow
<1>1. CASE \E release, infra \in Release!Release : Release!Lock(release, infra)
  <2>1. PICK release \in Release!Release, infra \in Release!Release : Release!Lock(release, infra)
    BY <1>1
  <2>2. record \in Release!Records /\ live.app \in Release!Release \cup {0}
    BY DEF Release!TypeOK
  <2>3. flow' = [at |-> "locked", target |-> release, infra |-> infra, prior |-> record,
                 was |-> live.app, role |-> FALSE, stopped |-> FALSE, restored |-> FALSE,
                 rewritten |-> FALSE, ok |-> FALSE]
    BY <2>1 DEF Release!Lock
  <2>. QED
    BY <2>1, <2>2, <2>3 DEF Release!Flow
<1>2. CASE Release!BackupStops \/ Release!BackupResumes \/ Release!Crash \/ Release!Archive
    BY <1>2 DEF Release!BackupStops, Release!BackupResumes, Release!Crash, Release!Archive
<1>3. CASE \E auth \in Auth : Release!StageAuth(auth)
  BY <1>3 DEF Release!StageAuth, Release!TypeOK
<1>4. ASSUME flow \in Release!Flow,
             \/ flow' = Release!Free
             \/ \E step \in Steps : \E b \in BOOLEAN :
                  \/ Release!Go(step)
                  \/ flow' = [flow EXCEPT !.at = step, !.ok = b]
                  \/ flow' = [flow EXCEPT !.at = step, !.stopped = b]
                  \/ flow' = [flow EXCEPT !.at = step, !.restored = b]
                  \/ flow' = [flow EXCEPT !.at = step, !.role = b]
                  \/ flow' = [flow EXCEPT !.at = step, !.rewritten = b]
      PROVE  flow' \in {Release!Free} \cup Release!Flow
  <2>1. CASE flow' = Release!Free
    BY <2>1
  <2>2. ASSUME NEW step \in Steps, NEW b \in BOOLEAN,
               \/ Release!Go(step)
               \/ flow' = [flow EXCEPT !.at = step, !.ok = b]
               \/ flow' = [flow EXCEPT !.at = step, !.stopped = b]
               \/ flow' = [flow EXCEPT !.at = step, !.restored = b]
               \/ flow' = [flow EXCEPT !.at = step, !.role = b]
               \/ flow' = [flow EXCEPT !.at = step, !.rewritten = b]
        PROVE  flow' \in Release!Flow
    <3>1. /\ [flow EXCEPT !.at = step] \in Release!Flow
          /\ [flow EXCEPT !.at = step, !.ok = b] \in Release!Flow
          /\ [flow EXCEPT !.at = step, !.stopped = b] \in Release!Flow
          /\ [flow EXCEPT !.at = step, !.restored = b] \in Release!Flow
          /\ [flow EXCEPT !.at = step, !.role = b] \in Release!Flow
          /\ [flow EXCEPT !.at = step, !.rewritten = b] \in Release!Flow
      BY <1>4, FlowMoves, Zenon
    <3>. QED
      BY <2>2, <3>1, Zenon DEF Release!Go
  <2>. QED
    BY <1>4, <2>1, <2>2
<1>5. {"snapshot", "child", "archive", "validate", "checkout", "pointers", "deploy", "exit", "images",
       "stop", "backup", "restart", "migrate", "start", "record", "stamp", "commit", "contain",
       "rollback", "rerecord", "restamp"} \subseteq Steps
  BY DEF Steps, Before, Release!Early, Release!Late
<1>6. CASE Release!Snapshot \/ Release!RunChild \/ Release!LoadBoundary \/ Release!LoadFails
           \/ Release!Checkout \/ Release!RewritePointers \/ Release!LauncherFails
           \/ Release!Preflight \/ Release!VerifyImages \/ Release!RestartPrevious
           \/ Release!Migrate \/ Release!StartTarget \/ Release!StampTarget \/ Release!Commit
           \/ Release!Contain \/ Release!RollBack \/ Release!StampHybrid
           \/ Release!RollBackFails \/ Release!KillDeploy
  <2>1. flow \in Release!Flow
    BY <1>6, FlowKinds
      DEF Release!Snapshot, Release!RunChild, Release!LoadBoundary, Release!LoadFails,
        Release!Checkout, Release!RewritePointers, Release!LauncherFails, Release!Preflight,
        Release!VerifyImages, Release!RestartPrevious, Release!Migrate, Release!StartTarget,
        Release!StampTarget, Release!Commit, Release!Contain, Release!RollBack,
        Release!StampHybrid, Release!RollBackFails, Release!KillDeploy, Release!Early,
        Release!Late, Release!At
  <2>2. \E step \in Steps : Release!Go(step)
    BY <1>5, <1>6
      DEF Release!Snapshot, Release!RunChild, Release!LoadBoundary, Release!LoadFails,
        Release!Checkout, Release!RewritePointers, Release!LauncherFails, Release!Preflight,
        Release!VerifyImages, Release!RestartPrevious, Release!Migrate, Release!StartTarget,
        Release!StampTarget, Release!Commit, Release!Contain, Release!RollBack,
        Release!StampHybrid, Release!RollBackFails, Release!KillDeploy
  <2>. QED
    BY <1>4, <2>1, <2>2
<1>7. CASE Release!CoordinatorExits \/ Release!LauncherExits \/ Release!StopWriters
           \/ Release!DeployFails \/ Release!CrossBoundary \/ Release!RecordTarget
           \/ Release!ForwardFails \/ Release!RecordHybrid \/ Release!Validate
  <2>1. flow \in Release!Flow
    BY <1>7, FlowKinds
      DEF Release!CoordinatorExits, Release!LauncherExits, Release!StopWriters,
        Release!DeployFails, Release!CrossBoundary, Release!RecordTarget, Release!ForwardFails,
        Release!RecordHybrid, Release!Validate, Release!Early, Release!At
  <2>2. CASE Release!CoordinatorExits \/ Release!Validate
    BY <1>4, <1>5, <2>1, <2>2 DEF Release!CoordinatorExits, Release!Validate
  <2>3. CASE Release!LauncherExits
    <3>1. flow' = [flow EXCEPT !.at = "validate", !.ok = inner = "COMMITTED"]
      BY <2>3 DEF Release!LauncherExits
    <3>2. PICK b \in BOOLEAN : b = (inner = "COMMITTED")
      OBVIOUS
    <3>3. flow' = [flow EXCEPT !.at = "validate", !.ok = b]
      BY <3>1, <3>2, Zenon
    <3>. QED
      BY <1>4, <1>5, <2>1, <3>3
  <2>4. CASE Release!StopWriters \/ Release!CrossBoundary
    BY <1>4, <1>5, <2>1, <2>4 DEF Release!StopWriters, Release!CrossBoundary
  <2>5. CASE Release!DeployFails
    BY <1>4, <1>5, <2>1, <2>5 DEF Release!DeployFails, Release!Restart
  <2>6. CASE Release!RecordTarget \/ Release!RecordHybrid
    BY <1>4, <1>5, <2>1, <2>6 DEF Release!RecordTarget, Release!RecordHybrid, Release!Record
  <2>7. CASE Release!ForwardFails
    <3>1. PICK b \in BOOLEAN : flow' = [flow EXCEPT !.at = "contain", !.role = b]
      BY <2>7 DEF Release!ForwardFails
    <3>. QED
      BY <1>4, <1>5, <2>1, <3>1
  <2>. QED
    BY <1>7, <2>2, <2>3, <2>4, <2>5, <2>6, <2>7
<1>. QED
  BY <1>1, <1>2, <1>3, <1>6, <1>7 DEF Release!Next
-----------------------------------------------------------------------------
\* Every variable keeps its type.
LEMMA ReleaseTypes ==
  ASSUME Release!TypeOK, Release!Next
  PROVE  Release!TypeOK'
BY FileTypes, LiveTypes, JournalTypes, FlowTypes DEF Release!TypeOK

\* A promotion that asks for no operator is at a known place.
LEMMA Here ==
  ASSUME ReleaseInv, flow.at \notin {"none", "resume", "exit", "validate"}
  PROVE  flow \in Release!Flow /\ outer # "none" /\ ~mark /\ Place
BY FlowKinds DEF ReleaseInv

\* A promotion that goes on keeps the invariant when it keeps its place.
LEMMA Onward ==
  ASSUME ReleaseInv, Release!Next, flow \in Release!Flow, Remembers, flow'.at \in Steps,
         outer' # "none", mark' => flow'.at \in {"exit", "validate"}, Release!WritersFitSchema',
         ~mark' => Place'
  PROVE  ReleaseInv'
<1>1. Release!TypeOK'
  BY ReleaseTypes DEF ReleaseInv
<1>2. flow'.at \notin {"none", "resume"}
  BY DEF Steps, Before, Release!Early, Release!Late
<1>3. flow'.target >= flow'.prior.ops /\ flow'.prior.app <= flow'.prior.ops
  BY DEF ReleaseInv, Remembers
<1>. QED
  BY <1>1, <1>2, <1>3 DEF ReleaseInv

\* A workflow that stops leaves a journal, the interlock or a host that agrees.
LEMMA Stops ==
  ASSUME ReleaseInv, Release!Next, flow' = Release!Free, Release!WritersFitSchema',
         outer' = "none" /\ ~mark' => inner' = "none" /\ Agrees'
  PROVE  ReleaseInv'
<1>1. Release!TypeOK'
  BY ReleaseTypes DEF ReleaseInv
<1>2. flow'.at = "none" /\ flow' \notin Release!Flow
  <2>1. Release!Free.at = "none"
    BY DEF Release!Free
  <2>2. \A f \in Release!Flow : f.at # "none"
    BY DEF Release!Flow, Release!Early, Release!Late
  <2>. QED
    BY <2>1, <2>2
<1>. QED
  BY <1>1, <1>2 DEF ReleaseInv

\* What ran before may run.
LEMMA UntouchedFits ==
  ASSUME Untouched, flow.prior.app \in Int
  PROVE  Release!WritersFitSchema
BY DEF Untouched, Release!WritersFitSchema

\* A step that writes no record and migrates nothing leaves what was there untouched.
LEMMA StaysUntouched ==
  ASSUME ReleaseInv, flow \in Release!Flow, Untouched, Remembers,
         flow'.rewritten = flow.rewritten, UNCHANGED <<record, stamp, schema>>,
         live'.app \in {live.app, 0, flow.prior.app}
  PROVE  Untouched' /\ Release!WritersFitSchema'
<1>1. Untouched'
  BY DEF Untouched, Remembers, Release!StampOf
<1>2. flow.prior.app \in Int
  BY BoundaryTypes DEF ReleaseInv, Release!Records, Release!Release
<1>3. Release!WritersFitSchema'
  BY <1>2 DEF Untouched, Release!WritersFitSchema
<1>. QED
  BY <1>1, <1>3

\* The places before the forward boundary.
LEMMA PlaceBefore ==
  ASSUME \/ flow'.at \in Before /\ inner' = "PRE_BOUNDARY"
         \/ flow'.at \in {"locked", "snapshot", "child"} /\ inner' = "none" /\ ~flow'.ok,
         Untouched'
  PROVE  Place'
<1>1. CASE flow'.at \in Before /\ inner' = "PRE_BOUNDARY"
  BY <1>1 DEF Place, Before, Release!Early, Release!Late
<1>2. CASE flow'.at \in {"locked", "snapshot", "child"} /\ inner' = "none" /\ ~flow'.ok
  BY <1>2 DEF Place, Before, Release!Early, Release!Late
<1>. QED
  BY <1>1, <1>2

\* The places after it.
LEMMA PlaceLate ==
  ASSUME flow'.at \in Release!Late, inner' = "FORWARD_BOUNDARY", Crossed',
         flow'.at = "migrate" => live'.app = 0,
         flow'.at = "start" => live'.app = 0 /\ schema' = flow'.target,
         flow'.at \in {"record", "stamp", "commit"} => Started',
         flow'.at = "stamp" => Named(Release!Target)',
         flow'.at = "commit" => Stamped(Release!Target)',
         flow'.at = "rollback" => Contained',
         flow'.at \in {"rerecord", "restamp"} => Back',
         flow'.at = "restamp" => Named(Release!Hybrid)'
  PROVE  Place'
BY DEF Place, Before, Release!Early, Release!Late

\* The end of the deployment.
LEMMA PlaceExit ==
  ASSUME flow'.at = "exit", inner' # "none",
         inner' = "PRE_BOUNDARY" => Untouched', Outcome(inner)'
  PROVE  Place'
BY DEF Place, Before, Release!Early, Release!Late
\* The end of a failed, and of a successful, launcher.
LEMMA PlaceValidate ==
  ASSUME flow'.at = "validate", inner' = "none",
         \/ flow'.ok /\ Outcome("COMMITTED")'
         \/ ~flow'.ok /\ (Outcome("PREVIOUS_RESTORED")' \/ Outcome("HYBRID_PERSISTED")')
  PROVE  Place'
BY DEF Place, Before, Release!Early, Release!Late

\* The terminal states the coordinator archives.
LEMMA PlaceArchive ==
  ASSUME flow'.at = "archive", inner' = "none", outer' \in Release!Terminal, Outcome(outer)',
         env' = Release!BoundaryOf(record'), head' = record'.ops
  PROVE  Place'
<1>1. Release!BoundaryOf(record)' = Release!BoundaryOf(record')
  BY DEF Release!BoundaryOf
<1>. QED
  BY <1>1 DEF Place, Before, Release!Early, Release!Late

\* Where the untouched state leads.
LEMMA OnwardUntouched ==
  ASSUME ReleaseInv, Release!Next, flow.at \notin {"none", "resume", "exit", "validate"}, Untouched,
         Remembers, flow'.rewritten = flow.rewritten, UNCHANGED <<record, stamp, schema>>,
         live'.app \in {live.app, 0, flow.prior.app}, outer' # "none",
         \/ flow'.at \in Before /\ inner' = "PRE_BOUNDARY" /\ ~mark'
         \/ flow'.at \in {"locked", "snapshot", "child"} /\ inner' = "none" /\ ~flow'.ok /\ ~mark'
         \/ flow'.at = "exit" /\ inner' \in {"PRE_BOUNDARY", "PREVIOUS_RESTORED"}
         \/ flow'.at = "validate" /\ inner' = "none" /\ ~flow'.ok
  PROVE  ReleaseInv'
<1>1. flow \in Release!Flow
  BY Here
<1>2. Untouched' /\ Release!WritersFitSchema'
  BY <1>1, StaysUntouched
<1>3. flow'.at \in Steps
  BY DEF Steps
<1>4. Place'
  <2>1. CASE flow'.at = "exit" /\ inner' \in {"PRE_BOUNDARY", "PREVIOUS_RESTORED"}
    <3>1. Outcome(inner)'
      BY <1>2, <2>1 DEF Outcome
    <3>. QED
      BY <1>2, <2>1, <3>1, PlaceExit
  <2>2. CASE flow'.at = "validate" /\ inner' = "none" /\ ~flow'.ok
    <3>1. Outcome("PREVIOUS_RESTORED")'
      BY <1>2 DEF Outcome
    <3>. QED
      BY <2>2, <3>1, PlaceValidate
  <2>. QED
    BY <1>2, <2>1, <2>2, PlaceBefore
<1>5. mark' => flow'.at \in {"exit", "validate"}
  BY DEF Before
<1>. QED
  BY <1>1, <1>2, <1>3, <1>4, <1>5, Onward

\* The coordinator takes the lock of a host that agrees with itself.
LEMMA LockKeeps ==
  ASSUME ReleaseInv, Release!Next, NEW release \in Release!Release, NEW infra \in Release!Release,
         Release!Lock(release, infra)
  PROVE  ReleaseInv'
<1>1. Agrees /\ inner = "none" /\ ~mark /\ Release!WritersFitSchema /\ release >= record.ops
  BY DEF Release!Lock, Release!At, ReleaseInv
<1>2. PICK f : f = [at |-> "locked", target |-> release, infra |-> infra, prior |-> record,
                    was |-> live.app, role |-> FALSE, stopped |-> FALSE, restored |-> FALSE,
                    rewritten |-> FALSE, ok |-> FALSE]
  OBVIOUS
<1>3. /\ f.at = "locked" /\ f.target = release /\ f.prior = record /\ f.was = live.app
      /\ ~f.rewritten /\ ~f.ok
  BY <1>2
<1>4. flow' = f /\ UNCHANGED <<env, record, stamp, head, schema, live, inner, mark>> /\ outer' = "LOCKED"
  BY <1>2 DEF Release!Lock
<1>5. Untouched'
  <2>1. Release!StampOf(flow.prior)' = Release!StampOf(record)
    BY <1>3, <1>4 DEF Release!StampOf
  <2>. QED
    BY <1>1, <1>3, <1>4, <2>1 DEF Untouched, Agrees
<1>6. Place'
  BY <1>1, <1>3, <1>4, <1>5, PlaceBefore
<1>7. Release!TypeOK'
  BY ReleaseTypes DEF ReleaseInv
<1>8. record.app \in Int /\ record.ops \in Int /\ schema \in Int
  BY DEF ReleaseInv, Release!TypeOK, Release!Records, Release!Release
<1>9. record.app <= record.ops
  BY <1>1, <1>8 DEF Agrees
<1>10. Release!WritersFitSchema'
  BY <1>1, <1>4 DEF Release!WritersFitSchema
<1>. QED
  BY <1>1, <1>3, <1>4, <1>6, <1>7, <1>9, <1>10 DEF ReleaseInv

\* The steps before the forward boundary that cannot fail.
LEMMA ForwardKeeps ==
  ASSUME ReleaseInv, Release!Next,
         \/ Release!Snapshot \/ Release!RunChild \/ Release!LoadBoundary \/ Release!LoadFails
         \/ Release!Checkout \/ Release!RewritePointers \/ Release!LauncherFails
         \/ Release!Preflight \/ Release!VerifyImages \/ Release!StopWriters
  PROVE  ReleaseInv'
<1>1. CASE Release!Snapshot \/ Release!RunChild
  <2>1. flow.at \in {"locked", "snapshot"}
    BY <1>1 DEF Release!Snapshot, Release!RunChild, Release!At
  <2>2. flow \in Release!Flow /\ Untouched /\ inner = "none" /\ ~flow.ok /\ ~mark
    BY <2>1, Here DEF Place
  <2>3. /\ \E step \in {"snapshot", "child"} : Release!Go(step)
        /\ UNCHANGED <<record, stamp, schema, live, inner, mark>> /\ outer' # "none"
    BY <1>1 DEF Release!Snapshot, Release!RunChild
  <2>4. {"snapshot", "child"} \subseteq Steps
    BY DEF Steps
  <2>5. /\ flow'.at \in {"snapshot", "child"} /\ Remembers
        /\ flow'.rewritten = flow.rewritten /\ flow'.ok = flow.ok
    BY <2>2, <2>3, <2>4, FlowMoves
  <2>. QED
    BY <2>1, <2>2, <2>3, <2>5, OnwardUntouched
<1>2. CASE Release!LoadBoundary \/ Release!LoadFails
  <2>1. flow.at = "child"
    BY <1>2 DEF Release!LoadBoundary, Release!LoadFails, Release!At
  <2>2. flow \in Release!Flow /\ Untouched /\ inner = "none" /\ ~flow.ok /\ ~mark /\ outer # "none"
    BY <2>1, Here DEF Place
  <2>3. /\ \/ Release!Go("checkout") /\ inner' = "PRE_BOUNDARY"
           \/ Release!Go("validate") /\ inner' = inner
        /\ UNCHANGED <<record, stamp, schema, live, outer, mark>>
    BY <1>2 DEF Release!LoadBoundary, Release!LoadFails
  <2>4. {"checkout", "validate"} \subseteq Steps /\ "checkout" \in Before
    BY DEF Steps, Before
  <2>5. /\ \/ flow'.at = "checkout" /\ inner' = "PRE_BOUNDARY"
           \/ flow'.at = "validate" /\ inner' = inner
        /\ Remembers /\ flow'.rewritten = flow.rewritten /\ flow'.ok = flow.ok
    BY <2>2, <2>3, <2>4, FlowMoves
  <2>. QED
    BY <2>1, <2>2, <2>3, <2>4, <2>5, OnwardUntouched
<1>3. CASE \/ Release!Checkout \/ Release!RewritePointers \/ Release!LauncherFails
           \/ Release!Preflight \/ Release!VerifyImages
  <2>1. flow.at \in {"checkout", "pointers", "deploy", "images"}
    BY <1>3
      DEF Release!Checkout, Release!RewritePointers, Release!LauncherFails, Release!Preflight,
        Release!VerifyImages, Release!At
  <2>2. {"checkout", "pointers", "deploy", "images", "stop"} \subseteq Before
    BY DEF Before, Release!Early
  <2>3. flow \in Release!Flow /\ Untouched /\ inner = "PRE_BOUNDARY" /\ ~mark /\ outer # "none"
    BY <2>1, <2>2, Here DEF Place
  <2>4. /\ \E step \in {"pointers", "deploy", "images", "stop", "exit"} : Release!Go(step)
        /\ UNCHANGED <<record, stamp, schema, live, inner, mark, outer>>
    BY <1>3
      DEF Release!Checkout, Release!RewritePointers, Release!LauncherFails, Release!Preflight,
        Release!VerifyImages
  <2>5. {"pointers", "deploy", "images", "stop", "exit"} \subseteq Steps
    BY <2>2 DEF Steps
  <2>6. /\ flow'.at \in {"pointers", "deploy", "images", "stop", "exit"} /\ Remembers
        /\ flow'.rewritten = flow.rewritten
    BY <2>3, <2>4, <2>5, FlowMoves
  <2>. QED
    BY <2>1, <2>2, <2>3, <2>4, <2>6, OnwardUntouched
<1>4. CASE Release!StopWriters
  <2>1. flow.at = "stop" /\ {"stop", "backup"} \subseteq Before
    BY <1>4 DEF Release!StopWriters, Release!At, Before, Release!Early
  <2>2. flow \in Release!Flow /\ Untouched /\ inner = "PRE_BOUNDARY" /\ ~mark /\ outer # "none"
    BY <2>1, Here DEF Place
  <2>3. /\ flow' = [flow EXCEPT !.at = "backup", !.stopped = TRUE]
        /\ live' = [live EXCEPT !.app = 0]
        /\ UNCHANGED <<record, stamp, schema, inner, mark, outer>>
    BY <1>4 DEF Release!StopWriters
  <2>4. flow'.at = "backup" /\ Remembers /\ flow'.rewritten = flow.rewritten
    BY <2>2, <2>3 DEF Remembers, Release!Flow
  <2>5. live'.app = 0
    BY <2>3 DEF ReleaseInv, Release!TypeOK
  <2>. QED
    BY <2>1, <2>2, <2>3, <2>4, <2>5, OnwardUntouched
<1>. QED
  BY <1>1, <1>2, <1>3, <1>4
\* A deployment that fails, or is killed, before the forward boundary.
LEMMA EarlyFailureKeeps ==
  ASSUME ReleaseInv, Release!Next,
         \/ Release!DeployFails \/ Release!RestartPrevious
         \/ Release!KillDeploy /\ flow.at \notin Release!Late
  PROVE  ReleaseInv'
<1>1. flow.at \in Release!Early \cup {"restart"}
  BY DEF Release!DeployFails, Release!RestartPrevious, Release!KillDeploy, Release!At
<1>2. Release!Early \cup {"restart"} \subseteq Before /\ Before \subseteq Steps /\ "exit" \in Steps
  BY DEF Before, Steps
<1>3. flow.at \notin {"none", "resume", "exit", "validate"}
  BY <1>1 DEF Release!Early
<1>4. flow \in Release!Flow /\ Untouched /\ inner = "PRE_BOUNDARY" /\ ~mark /\ outer # "none"
  BY <1>1, <1>2, <1>3, Here DEF Place
<1>5. live \in [app : Release!Release \cup {0}, auth : Auth]
  BY DEF ReleaseInv, Release!TypeOK
<1>6. ASSUME Release!Go("exit")
      PROVE  flow'.at = "exit" /\ Remembers /\ flow'.rewritten = flow.rewritten
  BY <1>2, <1>4, <1>6, FlowMoves
<1>7. CASE Release!DeployFails
  <2>1. UNCHANGED <<record, stamp, schema, outer>> /\ live' \in {live, [live EXCEPT !.app = 0]}
    BY <1>7 DEF Release!DeployFails
  <2>2. live'.app \in {live.app, 0}
    BY <1>5, <2>1
  <2>3. \/ /\ \E restored \in BOOLEAN : Release!Restart(restored)
           /\ inner' = inner /\ mark' = mark
        \/ Release!Go("exit") /\ inner' \in {inner, "PREVIOUS_RESTORED"}
    BY <1>7 DEF Release!DeployFails
  <2>4. ASSUME NEW restored \in BOOLEAN, Release!Restart(restored)
        PROVE  flow'.at = "restart" /\ Remembers /\ flow'.rewritten = flow.rewritten
    BY <1>4, <2>4 DEF Release!Restart, Release!Flow, Remembers
  <2>5. /\ \/ flow'.at = "restart" /\ inner' = inner /\ mark' = mark
           \/ flow'.at = "exit" /\ inner' \in {inner, "PREVIOUS_RESTORED"}
        /\ Remembers /\ flow'.rewritten = flow.rewritten
    BY <1>6, <2>3, <2>4
  <2>6. "restart" \in Before
    BY DEF Before
  <2>. QED
    BY <1>3, <1>4, <2>1, <2>2, <2>5, <2>6, OnwardUntouched
<1>8. CASE Release!RestartPrevious
  <2>1. /\ Release!Go("exit") /\ UNCHANGED <<record, stamp, schema, outer>>
        /\ live' \in {live, [live EXCEPT !.app = flow.was]}
        /\ inner' \in {inner, "PREVIOUS_RESTORED"}
    BY <1>8 DEF Release!RestartPrevious
  <2>2. live'.app \in {live.app, flow.was}
    BY <1>5, <2>1
  <2>3. live'.app \in {live.app, 0, flow.prior.app}
    BY <1>4, <2>2 DEF Untouched
  <2>. QED
    BY <1>3, <1>4, <1>6, <2>1, <2>3, OnwardUntouched
<1>9. CASE Release!KillDeploy
  <2>1. Release!Go("exit") /\ UNCHANGED <<record, stamp, schema, live, outer, inner>>
    BY <1>9 DEF Release!KillDeploy
  <2>. QED
    BY <1>3, <1>4, <1>6, <2>1, OnwardUntouched
<1>. QED
  BY <1>7, <1>8, <1>9

\* What every step after the forward boundary starts from.
LEMMA LateHere ==
  ASSUME ReleaseInv, flow.at \in Release!Late
  PROVE  /\ flow \in Release!Flow /\ outer # "none" /\ ~mark /\ Place
         /\ inner = "FORWARD_BOUNDARY" /\ Crossed /\ Release!Late \subseteq Steps
         /\ flow.target \in Int /\ flow.prior.app \in Int /\ flow.prior.ops \in Int /\ schema \in Int
         /\ flow.prior.app <= flow.target
<1>1. flow.at \notin {"none", "resume", "exit", "validate"}
  BY DEF Release!Late
<1>2. flow \in Release!Flow /\ outer # "none" /\ ~mark /\ Place
  BY <1>1, Here
<1>3. inner = "FORWARD_BOUNDARY" /\ Crossed
  BY <1>2 DEF Place
<1>4. flow.target \in Int /\ flow.prior.app \in Int /\ flow.prior.ops \in Int /\ schema \in Int
  BY <1>2, BoundaryTypes DEF ReleaseInv, Release!TypeOK, Release!Records, Release!Release
<1>5. flow.prior.app <= flow.target
  BY <1>2, <1>4 DEF ReleaseInv
<1>6. Release!Late \subseteq Steps
  BY DEF Steps
<1>. QED
  BY <1>2, <1>3, <1>4, <1>5, <1>6

\* A deployment that stops after the boundary leaves its journal to the launcher.
LEMMA LateStops ==
  ASSUME ReleaseInv, Release!Next, flow.at \in Release!Late, Release!Go("exit"), outer' = outer,
         \/ inner' = "FORWARD_BOUNDARY"
         \/ inner' \in {"COMMITTED", "HYBRID_PERSISTED"} /\ Outcome(inner)',
         Release!WritersFitSchema'
  PROVE  ReleaseInv'
<1>1. "exit" \in Steps
  BY DEF Steps
<1>2. flow'.at = "exit" /\ Remembers
  BY <1>1, LateHere, FlowMoves
<1>3. Place'
  <2>1. CASE inner' = "FORWARD_BOUNDARY"
    <3>1. Outcome(inner)'
      BY <2>1 DEF Outcome
    <3>. QED
      BY <1>2, <2>1, <3>1, PlaceExit
  <2>2. CASE inner' \in {"COMMITTED", "HYBRID_PERSISTED"} /\ Outcome(inner)'
    BY <1>2, <2>2, PlaceExit
  <2>. QED
    BY <2>1, <2>2
<1>. QED
  BY <1>1, <1>2, <1>3, LateHere, Onward

\* A deployment that goes on after the boundary.
LEMMA LateGoesOn ==
  ASSUME ReleaseInv, Release!Next, flow \in Release!Flow, Remembers, flow'.at \in Release!Late,
         outer' # "none", ~mark', inner' = "FORWARD_BOUNDARY", Crossed',
         Release!WritersFitSchema',
         flow'.at = "migrate" => live'.app = 0,
         flow'.at = "start" => live'.app = 0 /\ schema' = flow'.target,
         flow'.at \in {"record", "stamp", "commit"} => Started',
         flow'.at = "stamp" => Named(Release!Target)',
         flow'.at = "commit" => Stamped(Release!Target)',
         flow'.at = "rollback" => Contained',
         flow'.at \in {"rerecord", "restamp"} => Back',
         flow'.at = "restamp" => Named(Release!Hybrid)'
  PROVE  ReleaseInv'
<1>1. Place'
  BY PlaceLate
<1>2. flow'.at \in Steps
  BY DEF Steps
<1>. QED
  BY <1>1, <1>2, Onward

\* The writers are stopped and the boundary is crossed; then the migrations run.
LEMMA CrossingKeeps ==
  ASSUME ReleaseInv, Release!Next, Release!CrossBoundary \/ Release!Migrate
  PROVE  ReleaseInv'
<1>1. CASE Release!CrossBoundary
  <2>1. flow.at = "backup" /\ live.app = 0
    BY <1>1 DEF Release!CrossBoundary, Release!At
  <2>2. flow \in Release!Flow /\ outer # "none" /\ ~mark /\ Untouched
    BY <2>1, Here DEF Place, Before, Release!Early
  <2>3. /\ flow' = [flow EXCEPT !.at = "migrate", !.role = TRUE] /\ inner' = "FORWARD_BOUNDARY"
        /\ UNCHANGED <<schema, live, outer, mark>>
    BY <1>1 DEF Release!CrossBoundary
  <2>4. flow'.at = "migrate" /\ Remembers
    BY <2>2, <2>3 DEF Release!Flow, Remembers
  <2>5. Crossed'
    <3>1. /\ flow.target \in Int /\ flow.prior.app \in Int /\ flow.prior.ops \in Int /\ schema \in Int
          /\ flow.target >= flow.prior.ops
      BY <2>2, BoundaryTypes DEF ReleaseInv, Release!TypeOK, Release!Records, Release!Release
    <3>. QED
      BY <2>2, <2>3, <2>4, <3>1 DEF Untouched, Crossed, Remembers
  <2>6. Release!WritersFitSchema'
    BY <2>1, <2>3 DEF Release!WritersFitSchema
  <2>7. flow'.at \in Release!Late
    BY <2>4 DEF Release!Late
  <2>. QED
    BY <2>1, <2>2, <2>3, <2>4, <2>5, <2>6, <2>7, LateGoesOn
<1>2. CASE Release!Migrate
  <2>1. flow.at = "migrate" /\ {"migrate", "start"} \subseteq Release!Late
    BY <1>2 DEF Release!Migrate, Release!At, Release!Late
  <2>2. live.app = 0
    BY <2>1, LateHere DEF Place
  <2>3. Release!Go("start") /\ schema' = flow.target /\ UNCHANGED <<live, outer, inner, mark>>
    BY <1>2 DEF Release!Migrate
  <2>4. flow'.at = "start" /\ Remembers
    BY <2>1, <2>3, LateHere, FlowMoves
  <2>5. Crossed'
    BY <2>1, <2>3, <2>4, LateHere DEF Crossed, Remembers
  <2>6. Release!WritersFitSchema'
    BY <2>2, <2>3 DEF Release!WritersFitSchema
  <2>7. schema' = flow'.target
    BY <2>3, <2>4 DEF Remembers
  <2>. QED
    BY <2>1, <2>2, <2>3, <2>4, <2>5, <2>6, <2>7, LateHere, LateGoesOn
<1>. QED
  BY <1>1, <1>2
\* What a workflow selects does not change while it remembers what it began with.
LEMMA SameSelection ==
  ASSUME Remembers
  PROVE  /\ UNCHANGED env => Release!Target' = Release!Target
         /\ Release!Hybrid' = Release!Hybrid
BY DEF Remembers, Release!Target, Release!Hybrid

\* The target starts, is recorded, stamped and committed.
LEMMA TargetKeeps ==
  ASSUME ReleaseInv, Release!Next,
         \/ Release!StartTarget \/ Release!RecordTarget \/ Release!StampTarget \/ Release!Commit
  PROVE  ReleaseInv'
<1>0. flow.at \in {"start", "record", "stamp", "commit"}
  BY DEF Release!StartTarget, Release!RecordTarget, Release!StampTarget, Release!Commit, Release!At
<1>1. {"start", "record", "stamp", "commit"} \subseteq Release!Late
  BY DEF Release!Late
<1>2. /\ flow \in Release!Flow /\ outer # "none" /\ ~mark /\ Place
      /\ inner = "FORWARD_BOUNDARY" /\ Crossed /\ flow.at \in Release!Late
      /\ Release!Late \subseteq Steps /\ flow.target \in Int
  BY <1>0, <1>1, LateHere
<1>3. CASE Release!StartTarget
  <2>1. flow.at = "start" /\ schema = flow.target
    BY <1>2, <1>3 DEF Release!StartTarget, Release!At, Place
  <2>2. /\ Release!Go("record") /\ live' = [app |-> flow.target, auth |-> env.auth]
        /\ UNCHANGED <<env, schema, outer, inner, mark>>
    BY <1>3 DEF Release!StartTarget
  <2>3. flow'.at = "record" /\ Remembers
    BY <1>1, <1>2, <2>2, FlowMoves
  <2>4. Crossed' /\ Started'
    BY <1>2, <2>1, <2>2, <2>3 DEF Crossed, Started, Remembers
  <2>5. Release!WritersFitSchema'
    BY <1>2, <2>1, <2>2 DEF Release!WritersFitSchema
  <2>. QED
    BY <1>1, <1>2, <2>2, <2>3, <2>4, <2>5, LateGoesOn
<1>4. CASE Release!RecordTarget
  <2>1. flow.at = "record" /\ Started /\ Release!WritersFitSchema
    BY <1>2, <1>4 DEF Release!RecordTarget, Release!At, Place, ReleaseInv
  <2>2. /\ record' = [app |-> Release!Target.app, infra |-> Release!Target.infra,
                      auth |-> Release!Target.auth, ops |-> flow.target]
        /\ flow' = [flow EXCEPT !.at = "stamp", !.rewritten = TRUE]
        /\ UNCHANGED <<env, schema, live, outer, inner, mark>>
    BY <1>4 DEF Release!RecordTarget, Release!Record
  <2>3. flow'.at = "stamp" /\ Remembers /\ flow'.rewritten
    BY <1>2, <2>2 DEF Remembers, Release!Flow
  <2>4. Crossed' /\ Started'
    BY <1>2, <2>1, <2>2, <2>3 DEF Crossed, Started, Remembers
  <2>5. Named(Release!Target)'
    <3>1. Release!Target' = Release!Target
      BY <2>2, <2>3, SameSelection
    <3>. QED
      BY <2>2, <2>3, <3>1 DEF Named, Remembers
  <2>6. Release!WritersFitSchema'
    BY <2>1, <2>2 DEF Release!WritersFitSchema
  <2>. QED
    BY <1>1, <1>2, <2>2, <2>3, <2>4, <2>5, <2>6, LateGoesOn
<1>5. CASE Release!StampTarget
  <2>1. flow.at = "stamp" /\ Started /\ Named(Release!Target) /\ Release!WritersFitSchema
    BY <1>2, <1>5 DEF Release!StampTarget, Release!At, Place, ReleaseInv
  <2>2. /\ Release!Go("commit") /\ stamp' = Release!StampOf(record)
        /\ UNCHANGED <<env, record, schema, live, outer, inner, mark>>
    BY <1>5 DEF Release!StampTarget
  <2>3. flow'.at = "commit" /\ Remembers /\ flow'.rewritten = flow.rewritten
    BY <1>1, <1>2, <2>2, FlowMoves
  <2>4. Crossed' /\ Started'
    BY <1>2, <2>1, <2>2, <2>3 DEF Crossed, Started, Remembers
  <2>5. Stamped(Release!Target)'
    <3>1. Release!Target' = Release!Target
      BY <2>2, <2>3, SameSelection
    <3>2. Named(Release!Target)'
      BY <2>1, <2>2, <2>3, <3>1 DEF Named, Remembers
    <3>3. stamp' = Release!StampOf(record)'
      BY <2>2 DEF Release!StampOf
    <3>. QED
      BY <3>2, <3>3 DEF Stamped
  <2>6. Release!WritersFitSchema'
    BY <2>1, <2>2 DEF Release!WritersFitSchema
  <2>. QED
    BY <1>1, <1>2, <2>2, <2>3, <2>4, <2>5, <2>6, LateGoesOn
<1>6. CASE Release!Commit
  <2>1. flow.at = "commit" /\ Started /\ Stamped(Release!Target) /\ Release!WritersFitSchema
    BY <1>2, <1>6 DEF Release!Commit, Release!At, Place, ReleaseInv
  <2>2. /\ Release!Go("exit") /\ env' = Release!Target /\ inner' = "COMMITTED"
        /\ UNCHANGED <<record, stamp, schema, live, outer>>
    BY <1>6 DEF Release!Commit
  <2>3. Remembers /\ flow'.rewritten = flow.rewritten
    <3>1. "exit" \in Steps
      BY DEF Steps
    <3>. QED
      BY <1>2, <2>2, <3>1, FlowMoves
  <2>4. env'.auth = env.auth /\ Release!Target' = Release!Target
    BY <2>2, <2>3 DEF Release!Target, Remembers
  <2>5. Started'
    BY <2>1, <2>2, <2>3, <2>4 DEF Started, Remembers
  <2>6. Stamped(Release!Target)'
    <3>1. Named(Release!Target)'
      BY <2>1, <2>2, <2>3, <2>4 DEF Stamped, Named, Remembers
    <3>2. stamp' = Release!StampOf(record)'
      BY <2>1, <2>2 DEF Stamped, Release!StampOf
    <3>. QED
      BY <3>1, <3>2 DEF Stamped
  <2>7. Outcome(inner)'
    BY <2>2, <2>5, <2>6 DEF Outcome
  <2>8. Release!WritersFitSchema'
    BY <2>1, <2>2 DEF Release!WritersFitSchema
  <2>. QED
    BY <1>2, <2>2, <2>7, <2>8, LateStops
<1>. QED
  BY <1>3, <1>4, <1>5, <1>6

\* The previous release comes back, is recorded and stamped.
LEMMA HybridKeeps ==
  ASSUME ReleaseInv, Release!Next,
         \/ Release!RollBack \/ Release!RecordHybrid \/ Release!StampHybrid
  PROVE  ReleaseInv'
<1>0. flow.at \in {"rollback", "rerecord", "restamp"}
  BY DEF Release!RollBack, Release!RecordHybrid, Release!StampHybrid, Release!At
<1>1. {"rollback", "rerecord", "restamp"} \subseteq Release!Late
  BY DEF Release!Late
<1>2. /\ flow \in Release!Flow /\ outer # "none" /\ ~mark /\ Place
      /\ inner = "FORWARD_BOUNDARY" /\ Crossed /\ flow.at \in Release!Late
      /\ Release!Late \subseteq Steps /\ flow.target \in Int
      /\ flow.prior.app \in Int /\ schema \in Int
  BY <1>0, <1>1, LateHere
<1>3. CASE Release!RollBack
  <2>1. flow.at = "rollback" /\ Contained
    BY <1>2, <1>3 DEF Release!RollBack, Release!At, Place
  <2>2. /\ Release!Go("rerecord") /\ env' = Release!Hybrid
        /\ live' = [app |-> flow.prior.app, auth |-> flow.prior.auth]
        /\ UNCHANGED <<schema, outer, inner, mark>>
    BY <1>3 DEF Release!RollBack
  <2>3. flow'.at = "rerecord" /\ Remembers
    BY <1>1, <1>2, <2>2, FlowMoves
  <2>4. Crossed'
    BY <1>2, <2>2, <2>3 DEF Crossed, Remembers
  <2>5. Back'
    <3>1. env' = Release!Hybrid'
      BY <2>2, <2>3, SameSelection
    <3>. QED
      BY <2>1, <2>2, <2>3, <2>4, <3>1 DEF Back, Contained, Remembers
  <2>6. Release!WritersFitSchema'
    BY <1>2, <2>1, <2>2 DEF Release!WritersFitSchema, Contained, Crossed
  <2>. QED
    BY <1>1, <1>2, <2>2, <2>3, <2>4, <2>5, <2>6, LateGoesOn
<1>4. CASE Release!RecordHybrid
  <2>1. flow.at = "rerecord" /\ Back /\ Release!WritersFitSchema
    BY <1>2, <1>4 DEF Release!RecordHybrid, Release!At, Place, ReleaseInv
  <2>2. /\ record' = [app |-> Release!Hybrid.app, infra |-> Release!Hybrid.infra,
                      auth |-> Release!Hybrid.auth, ops |-> flow.target]
        /\ flow' = [flow EXCEPT !.at = "restamp", !.rewritten = TRUE]
        /\ UNCHANGED <<env, schema, live, outer, inner, mark>>
    BY <1>4 DEF Release!RecordHybrid, Release!Record
  <2>3. flow'.at = "restamp" /\ Remembers /\ flow'.rewritten
    BY <1>2, <2>2 DEF Remembers, Release!Flow
  <2>4. Crossed'
    BY <1>2, <2>2, <2>3 DEF Crossed, Remembers
  <2>5. Release!Hybrid' = Release!Hybrid
    BY <2>3, SameSelection
  <2>6. Back'
    BY <2>1, <2>2, <2>3, <2>4, <2>5 DEF Back, Contained, Remembers
  <2>7. Named(Release!Hybrid)'
    BY <2>2, <2>3, <2>5 DEF Named, Remembers
  <2>8. Release!WritersFitSchema'
    BY <2>1, <2>2 DEF Release!WritersFitSchema
  <2>. QED
    BY <1>1, <1>2, <2>2, <2>3, <2>4, <2>6, <2>7, <2>8, LateGoesOn
<1>5. CASE Release!StampHybrid
  <2>1. flow.at = "restamp" /\ Back /\ Named(Release!Hybrid) /\ Release!WritersFitSchema
    BY <1>2, <1>5 DEF Release!StampHybrid, Release!At, Place, ReleaseInv
  <2>2. /\ Release!Go("exit") /\ stamp' = Release!StampOf(record) /\ inner' = "HYBRID_PERSISTED"
        /\ UNCHANGED <<env, record, schema, live, outer>>
    BY <1>5 DEF Release!StampHybrid
  <2>3. Remembers /\ flow'.rewritten = flow.rewritten
    <3>1. "exit" \in Steps
      BY DEF Steps
    <3>. QED
      BY <1>2, <2>2, <3>1, FlowMoves
  <2>4. Release!Hybrid' = Release!Hybrid
    BY <2>3, SameSelection
  <2>5. Back'
    BY <1>2, <2>1, <2>2, <2>3, <2>4 DEF Back, Contained, Crossed, Remembers
  <2>6. Stamped(Release!Hybrid)'
    <3>1. Named(Release!Hybrid)'
      BY <2>1, <2>2, <2>3, <2>4 DEF Named, Remembers
    <3>2. stamp' = Release!StampOf(record)'
      BY <2>2 DEF Release!StampOf
    <3>. QED
      BY <3>1, <3>2 DEF Stamped
  <2>7. Outcome(inner)'
    BY <2>2, <2>5, <2>6 DEF Outcome
  <2>8. Release!WritersFitSchema'
    BY <2>1, <2>2 DEF Release!WritersFitSchema
  <2>. QED
    BY <1>2, <2>2, <2>7, <2>8, LateStops
<1>. QED
  BY <1>3, <1>4, <1>5
\* A step after the boundary fails, what runs is contained, or the deployment is killed.
LEMMA LateFailureKeeps ==
  ASSUME ReleaseInv, Release!Next,
         \/ Release!ForwardFails \/ Release!Contain \/ Release!RollBackFails
         \/ Release!KillDeploy /\ flow.at \in Release!Late
  PROVE  ReleaseInv'
<1>0. flow.at \in Release!Late
  BY DEF Release!ForwardFails, Release!Contain, Release!RollBackFails, Release!Late, Release!At
<1>1. /\ flow \in Release!Flow /\ outer # "none" /\ ~mark /\ Place
      /\ inner = "FORWARD_BOUNDARY" /\ Crossed /\ Release!Late \subseteq Steps
      /\ flow.target \in Int /\ flow.prior.app \in Int /\ schema \in Int
      /\ flow.prior.app <= flow.target
  BY <1>0, LateHere
<1>2. live \in [app : Release!Release \cup {0}, auth : Auth] /\ Release!WritersFitSchema
  BY DEF ReleaseInv, Release!TypeOK
<1>3. {"contain", "rollback"} \subseteq Release!Late
  BY DEF Release!Late
<1>4. CASE Release!ForwardFails
  <2>1. PICK verified \in BOOLEAN : flow' = [flow EXCEPT !.at = "contain", !.role = verified]
    BY <1>4 DEF Release!ForwardFails
  <2>2. flow'.at = "contain" /\ Remembers
    BY <1>1, <2>1 DEF Release!Flow, Remembers
  <2>3. /\ UNCHANGED <<outer, inner, mark>>
        /\ schema' \in IF flow.at = "migrate" THEN {schema, flow.target} ELSE {schema}
        /\ live' \in IF flow.at = "start"
                       THEN {live, [app |-> flow.target, auth |-> env.auth]} ELSE {live}
    BY <1>4 DEF Release!ForwardFails, Release!At
  <2>4. Crossed'
    BY <1>1, <2>2, <2>3 DEF Crossed, Remembers
  <2>5. Release!WritersFitSchema'
    <3>1. CASE flow.at = "migrate"
      <4>1. live.app = 0 /\ live' = live
        BY <1>1, <2>3, <3>1 DEF Place
      <4>. QED
        BY <4>1 DEF Release!WritersFitSchema
    <3>2. CASE flow.at = "start"
      <4>1. schema = flow.target /\ schema' = schema /\ live'.app \in {live.app, flow.target}
        BY <1>1, <2>3, <3>2 DEF Place
      <4>. QED
        BY <1>1, <1>2, <4>1 DEF Release!WritersFitSchema
    <3>3. CASE flow.at \notin {"migrate", "start"}
      BY <1>2, <2>3, <3>3 DEF Release!WritersFitSchema
    <3>. QED
      BY <3>1, <3>2, <3>3
  <2>. QED
    BY <1>1, <1>3, <2>2, <2>3, <2>4, <2>5, LateGoesOn
<1>5. CASE Release!Contain
  <2>1. /\ live' \in {live, [live EXCEPT !.app = 0]} /\ UNCHANGED <<schema, outer, inner>>
        /\ \/ Release!Go("rollback") /\ mark' = mark /\ flow.prior.app \in Contract
           \/ Release!Go("exit")
    BY <1>5 DEF Release!Contain, Release!MayRollBack
  <2>2. Release!WritersFitSchema'
    <3>1. live'.app \in {live.app, 0}
      BY <1>2, <2>1
    <3>. QED
      BY <1>2, <2>1, <3>1 DEF Release!WritersFitSchema
  <2>3. CASE Release!Go("rollback") /\ mark' = mark /\ flow.prior.app \in Contract
    <3>1. flow'.at = "rollback" /\ Remembers
      BY <1>1, <1>3, <2>3, FlowMoves
    <3>2. Crossed'
      BY <1>1, <2>1, <3>1 DEF Crossed, Remembers
    <3>3. Contained'
      BY <2>3, <3>1, <3>2 DEF Contained, Remembers
    <3>. QED
      BY <1>1, <1>3, <2>1, <2>2, <2>3, <3>1, <3>2, <3>3, LateGoesOn
  <2>4. CASE Release!Go("exit")
    BY <1>0, <1>1, <2>1, <2>2, <2>4, LateStops
  <2>. QED
    BY <2>1, <2>3, <2>4
<1>6. CASE Release!RollBackFails
  <2>1. flow.at \in {"rollback", "rerecord", "restamp"}
    BY <1>6 DEF Release!RollBackFails
  <2>2. flow.prior.app \in Contract
    BY <1>1, <2>1 DEF Place, Back, Contained
  <2>3. /\ live' \in {[live EXCEPT !.app = 0], live,
                      [app |-> flow.prior.app, auth |-> flow.prior.auth]}
        /\ Release!Go("exit") /\ UNCHANGED <<schema, outer, inner>>
    BY <1>6 DEF Release!RollBackFails
  <2>4. live'.app \in {0, live.app, flow.prior.app}
    BY <1>2, <2>3
  <2>5. Release!WritersFitSchema'
    BY <1>1, <1>2, <2>2, <2>3, <2>4 DEF Release!WritersFitSchema, Crossed
  <2>. QED
    BY <1>0, <1>1, <2>3, <2>5, LateStops
<1>7. CASE Release!KillDeploy
  <2>1. Release!Go("exit") /\ UNCHANGED <<schema, live, outer, inner>>
    BY <1>7 DEF Release!KillDeploy
  <2>2. Release!WritersFitSchema'
    BY <1>2, <2>1 DEF Release!WritersFitSchema
  <2>. QED
    BY <1>0, <1>1, <2>1, <2>2, LateStops
<1>. QED
  BY <1>4, <1>5, <1>6, <1>7

\* What a terminal state stands for does not go away by itself.
LEMMA OutcomeStays ==
  ASSUME Remembers, flow'.rewritten = flow.rewritten, NEW end, Outcome(end),
         UNCHANGED <<record, stamp, schema, live>>,
         end = "PREVIOUS_RESTORED" \/ UNCHANGED env
  PROVE  Outcome(end)'
<1>1. end = "PREVIOUS_RESTORED" => Untouched'
  <2>1. Release!StampOf(flow.prior)' = Release!StampOf(flow.prior)
    BY DEF Release!StampOf, Remembers
  <2>. QED
    BY <2>1 DEF Outcome, Untouched, Remembers
<1>2. Release!StampOf(record)' = Release!StampOf(record) /\ Release!Hybrid' = Release!Hybrid
  BY SameSelection DEF Release!StampOf
<1>3. end = "COMMITTED" => Started' /\ Stamped(Release!Target)'
  <2>1. CASE UNCHANGED env
    <3>1. Release!Target' = Release!Target
      BY <2>1, SameSelection
    <3>2. Started => Started'
      BY <2>1 DEF Started, Remembers
    <3>3. Stamped(Release!Target) => Stamped(Release!Target)'
      BY <1>2, <3>1 DEF Stamped, Named, Remembers
    <3>. QED
      BY <3>2, <3>3 DEF Outcome
  <2>. QED
    BY <2>1
<1>4. end = "HYBRID_PERSISTED" => Back' /\ Stamped(Release!Hybrid)'
  <2>1. CASE UNCHANGED env
    <3>1. Back => Back'
      BY <1>2, <2>1 DEF Back, Contained, Crossed, Remembers
    <3>2. Stamped(Release!Hybrid) => Stamped(Release!Hybrid)'
      BY <1>2 DEF Stamped, Named, Remembers
    <3>. QED
      BY <3>1, <3>2 DEF Outcome
  <2>. QED
    BY <2>1
<1>. QED
  BY <1>1, <1>3, <1>4 DEF Outcome

\* The launcher's trap.
LEMMA LauncherKeeps ==
  ASSUME ReleaseInv, Release!Next, Release!LauncherExits
  PROVE  ReleaseInv'
<1>1. flow.at = "exit" /\ flow \in Release!Flow
  BY FlowKinds DEF Release!LauncherExits, Release!At, ReleaseInv
<1>2. outer # "none" /\ (~mark => Place) /\ Release!WritersFitSchema
  BY <1>1 DEF ReleaseInv
<1>3. flow' = [flow EXCEPT !.at = "validate", !.ok = inner = "COMMITTED"]
      /\ UNCHANGED <<record, stamp, schema, live, outer>>
  BY DEF Release!LauncherExits
<1>4. flow'.at = "validate" /\ Remembers /\ flow'.rewritten = flow.rewritten
  BY <1>1, <1>3 DEF Release!Flow, Remembers
<1>5. flow'.ok <=> inner = "COMMITTED"
  BY <1>1, <1>3, Zenon DEF Release!Flow
<1>6. Release!WritersFitSchema'
  BY <1>2, <1>3 DEF Release!WritersFitSchema
<1>7. ASSUME ~mark'
      PROVE  Place'
  <2>1. /\ inner' = "none" /\ ~mark
        /\ inner = "PRE_BOUNDARY" \/ (inner \in Release!Terminal /\ UNCHANGED env)
    <3>1. mark' # TRUE
      BY <1>7, Zenon
    <3>2. /\ inner' = "none" /\ mark' = mark
          /\ inner = "PRE_BOUNDARY" \/ (inner \in Release!Terminal /\ UNCHANGED env)
      BY <3>1 DEF Release!LauncherExits, Release!Mark
    <3>. QED
      BY <1>7, <3>2, Zenon
  <2>2. (inner = "PRE_BOUNDARY" => Untouched) /\ Outcome(inner)
    BY <1>1, <1>2, <2>1 DEF Place
  <2>3. CASE inner = "PRE_BOUNDARY"
    <3>1. Outcome("PREVIOUS_RESTORED")
      BY <2>2, <2>3 DEF Outcome
    <3>2. Outcome("PREVIOUS_RESTORED")'
      BY <1>3, <1>4, <3>1, OutcomeStays
    <3>. QED
      BY <1>4, <1>5, <2>1, <2>3, <3>2, PlaceValidate
  <2>4. CASE inner \in Release!Terminal /\ UNCHANGED env
    <3>1. CASE inner = "COMMITTED"
      <4>1. Outcome("COMMITTED")'
        BY <1>3, <1>4, <2>2, <2>4, <3>1, OutcomeStays
      <4>. QED
        BY <1>4, <1>5, <2>1, <3>1, <4>1, PlaceValidate
    <3>2. CASE inner = "PREVIOUS_RESTORED"
      <4>1. Outcome("PREVIOUS_RESTORED")'
        BY <1>3, <1>4, <2>2, <2>4, <3>2, OutcomeStays
      <4>. QED
        BY <1>4, <1>5, <2>1, <3>2, <4>1, PlaceValidate
    <3>3. CASE inner = "HYBRID_PERSISTED"
      <4>1. Outcome("HYBRID_PERSISTED")'
        BY <1>3, <1>4, <2>2, <2>4, <3>3, OutcomeStays
      <4>. QED
        BY <1>4, <1>5, <2>1, <3>3, <4>1, PlaceValidate
    <3>. QED
      BY <2>4, <3>1, <3>2, <3>3 DEF Release!Terminal
  <2>. QED
    BY <2>1, <2>3, <2>4
<1>8. "validate" \in Steps
  BY DEF Steps
<1>. QED
  BY <1>1, <1>2, <1>3, <1>4, <1>6, <1>7, <1>8, Onward
\* A promotion that may be archived left a host that agrees with itself, as its state says.
LEMMA Archived ==
  ASSUME ReleaseInv, flow.at = "archive"
  PROVE  /\ Agrees /\ inner = "none" /\ outer \in Release!Terminal
         /\ outer = "COMMITTED" =>
              record.app = flow.target /\ live = [app |-> flow.target, auth |-> record.auth]
         /\ outer = "HYBRID_PERSISTED" =>
              /\ env.auth = flow.prior.auth
              /\ live = [app |-> flow.prior.app, auth |-> flow.prior.auth]
         /\ outer = "PREVIOUS_RESTORED" =>
              env = Release!BoundaryOf(flow.prior) /\ schema <= flow.prior.ops
<1>1. /\ flow \in Release!Flow /\ inner = "none" /\ outer \in Release!Terminal /\ Outcome(outer)
      /\ env = Release!BoundaryOf(record) /\ head = record.ops
  BY Here DEF Place
<1>2. /\ flow.target \in Int /\ flow.prior.app \in Int /\ flow.prior.ops \in Int /\ schema \in Int
      /\ record.app \in Int
  BY <1>1, BoundaryTypes DEF ReleaseInv, Release!TypeOK, Release!Records, Release!Release
<1>3. env.app = record.app /\ env.infra = record.infra /\ env.auth = record.auth
  BY <1>1 DEF Release!BoundaryOf
<1>4. CASE outer = "PREVIOUS_RESTORED"
  <2>1. Untouched
    BY <1>1, <1>4 DEF Outcome
  <2>2. Agrees
    BY <1>1, <1>3, <2>1 DEF Agrees, Untouched
  <2>3. schema <= flow.prior.ops /\ env = Release!BoundaryOf(flow.prior)
    BY <1>1, <1>2, <2>1 DEF Untouched
  <2>. QED
    BY <1>1, <1>4, <2>2, <2>3
<1>5. CASE outer = "COMMITTED"
  <2>1. Started /\ Stamped(Release!Target)
    BY <1>1, <1>5 DEF Outcome
  <2>2. record.app = flow.target /\ record.auth = env.auth /\ record.ops = flow.target
    BY <2>1 DEF Stamped, Named, Release!Target
  <2>3. stamp = Release!StampOf(record)
    BY <2>1 DEF Stamped
  <2>4. schema = flow.target /\ live = [app |-> flow.target, auth |-> env.auth]
    BY <2>1 DEF Started
  <2>5. Agrees
    BY <1>1, <1>2, <1>3, <2>2, <2>3, <2>4 DEF Agrees
  <2>. QED
    BY <1>1, <1>5, <2>2, <2>4, <2>5
<1>6. CASE outer = "HYBRID_PERSISTED"
  <2>1. Back /\ Stamped(Release!Hybrid)
    BY <1>1, <1>6 DEF Outcome
  <2>2. record.app = flow.prior.app /\ record.ops = flow.target
    BY <2>1 DEF Stamped, Named, Release!Hybrid
  <2>3. stamp = Release!StampOf(record)
    BY <2>1 DEF Stamped
  <2>4. /\ schema \in flow.prior.app .. flow.target /\ flow.prior.app \in Contract
        /\ live = [app |-> flow.prior.app, auth |-> flow.prior.auth]
        /\ env.auth = flow.prior.auth
    BY <2>1 DEF Back, Contained, Crossed, Release!Hybrid
  <2>5. Agrees
    BY <1>1, <1>2, <1>3, <2>2, <2>3, <2>4 DEF Agrees
  <2>. QED
    BY <1>1, <1>6, <2>4, <2>5
<1>. QED
  BY <1>1, <1>4, <1>5, <1>6 DEF Release!Terminal

\* A promotion whose launcher is done stands for one of the terminal states.
LEMMA Validating ==
  ASSUME ReleaseInv, flow.at = "validate", ~mark
  PROVE  /\ flow \in Release!Flow /\ outer # "none" /\ inner = "none"
         /\ flow.ok => Outcome("COMMITTED") /\ flow.rewritten
         /\ ~flow.ok => Untouched \/ (Outcome("HYBRID_PERSISTED") /\ flow.rewritten)
<1>1. flow \in Release!Flow /\ outer # "none" /\ Place
  BY FlowKinds DEF ReleaseInv
<1>2. /\ inner = "none"
      /\ flow.ok => Outcome("COMMITTED")
      /\ ~flow.ok => Outcome("PREVIOUS_RESTORED") \/ Outcome("HYBRID_PERSISTED")
  BY <1>1 DEF Place
<1>3. Outcome("COMMITTED") => flow.rewritten
  BY DEF Outcome, Stamped, Named
<1>4. Outcome("HYBRID_PERSISTED") => flow.rewritten
  BY DEF Outcome, Stamped, Named
<1>5. Outcome("PREVIOUS_RESTORED") => Untouched
  BY DEF Outcome
<1>6. ASSUME flow.ok
      PROVE  Outcome("COMMITTED") /\ flow.rewritten
  BY <1>2, <1>3, <1>6
<1>7. ASSUME ~flow.ok
      PROVE  Untouched \/ (Outcome("HYBRID_PERSISTED") /\ flow.rewritten)
  BY <1>2, <1>4, <1>5, <1>7
<1>. QED
  BY <1>1, <1>2, <1>6, <1>7

\* The coordinator goes on to archive what it found.
LEMMA ArchiveNext ==
  ASSUME ReleaseInv, Release!Next, flow \in Release!Flow, Release!Go("archive"),
         UNCHANGED <<record, stamp, head, schema, live, inner>>, inner = "none", ~mark',
         outer' \in Release!Terminal, Outcome(outer)', env' = Release!BoundaryOf(record),
         head = record.ops
  PROVE  ReleaseInv'
<1>1. "archive" \in Steps
  BY DEF Steps
<1>2. flow'.at = "archive" /\ Remembers
  BY <1>1, FlowMoves
<1>3. Place'
  BY <1>2, PlaceArchive
<1>4. Release!WritersFitSchema'
  BY DEF ReleaseInv, Release!WritersFitSchema
<1>5. outer' # "none"
  BY DEF Release!Terminal
<1>. QED
  BY <1>1, <1>2, <1>3, <1>4, <1>5, Onward

\* The coordinator's trap, and its validation of what the launcher left.
LEMMA CoordinatorKeeps ==
  ASSUME ReleaseInv, Release!Next, Release!CoordinatorExits \/ Release!Validate
  PROVE  ReleaseInv'
<1>1. Release!WritersFitSchema' /\ UNCHANGED <<record, stamp, head, schema, live, inner>>
  BY DEF ReleaseInv, Release!WritersFitSchema, Release!CoordinatorExits, Release!Validate
<1>2. flow.at \in {"locked", "snapshot", "validate"} /\ "archive" \in Steps
  BY DEF Release!CoordinatorExits, Release!Validate, Release!At, Steps
<1>3. flow \in Release!Flow
  BY <1>2, FlowKinds DEF ReleaseInv
<1>4. CASE Release!Mark /\ flow' = Release!Free
  <2>1. mark' = TRUE
    BY <1>4 DEF Release!Mark
  <2>. QED
    BY <1>1, <1>4, <2>1, Stops
<1>5. ASSUME Release!Go("archive"), ~mark, mark' = mark, outer' = "PREVIOUS_RESTORED",
             Release!PreviousRestored(env'), Untouched, inner = "none"
      PROVE  ReleaseInv'
  <2>1. flow'.at = "archive" /\ Remembers /\ flow'.rewritten = flow.rewritten
    BY <1>2, <1>3, <1>5, FlowMoves
  <2>2. Outcome("PREVIOUS_RESTORED")
    BY <1>5 DEF Outcome
  <2>3. Outcome("PREVIOUS_RESTORED")'
    BY <1>1, <2>1, <2>2, OutcomeStays
  <2>4. Outcome(outer)'
    BY <1>5, <2>3 DEF Outcome
  <2>5. env' = Release!BoundaryOf(record) /\ head = record.ops
    BY <1>5 DEF Untouched, Release!PreviousRestored
  <2>6. outer' \in Release!Terminal /\ ~mark'
    BY <1>5 DEF Release!Terminal
  <2>. QED
    BY <1>1, <1>3, <1>5, <2>4, <2>5, <2>6, ArchiveNext
<1>6. CASE Release!CoordinatorExits
  <2>1. \/ Release!Mark /\ flow' = Release!Free
        \/ /\ flow.at \in {"snapshot", "validate"} /\ inner = "none" /\ ~mark /\ mark' = mark
           /\ Release!PreviousRestored(env') /\ outer' = "PREVIOUS_RESTORED"
           /\ Release!Go("archive")
    BY <1>6 DEF Release!CoordinatorExits, Release!At
  <2>2. ASSUME flow.at \in {"snapshot", "validate"}, ~mark, ~flow.rewritten
        PROVE  Untouched
    <3>1. CASE flow.at = "snapshot"
      BY <3>1, Here DEF Place
    <3>2. CASE flow.at = "validate"
      BY <2>2, <3>2, Validating
    <3>. QED
      BY <2>2, <3>1, <3>2
  <2>3. Release!PreviousRestored(env') => ~flow.rewritten
    BY DEF Release!PreviousRestored
  <2>. QED
    BY <1>4, <1>5, <2>1, <2>2, <2>3
<1>7. CASE Release!Validate
  <2>1. /\ flow.at = "validate" /\ env' \in Release!Repaired
        /\ \/ Release!Mark /\ flow' = Release!Free
           \/ /\ Release!Found(env') # "none" /\ ~mark /\ outer' = Release!Found(env')
              /\ Release!Go("archive") /\ mark' = mark
    BY <1>7 DEF Release!Validate, Release!At
  <2>2. ASSUME Release!Found(env') # "none", ~mark, outer' = Release!Found(env'),
               Release!Go("archive"), mark' = mark
        PROVE  ReleaseInv'
    <3>1. /\ inner = "none"
          /\ flow.ok => Outcome("COMMITTED") /\ flow.rewritten
          /\ ~flow.ok => Untouched \/ (Outcome("HYBRID_PERSISTED") /\ flow.rewritten)
      BY <2>1, <2>2, Validating
    <3>2. flow'.at = "archive" /\ Remembers /\ flow'.rewritten = flow.rewritten
      BY <1>2, <1>3, <2>2, FlowMoves
    <3>3. \/ flow.ok /\ Release!Committed /\ outer' = "COMMITTED"
          \/ ~flow.ok /\ Release!PreviousRestored(env') /\ outer' = "PREVIOUS_RESTORED"
          \/ /\ ~flow.ok /\ ~Release!PreviousRestored(env') /\ head = flow.target /\ env' = env
             /\ Release!RecordMatches(flow.prior.app, flow.target)
             /\ outer' = "HYBRID_PERSISTED"
      BY <2>2 DEF Release!Found
    <3>4. CASE flow.ok /\ Release!Committed /\ outer' = "COMMITTED"
      <4>1. env' = env
        BY <2>1, <3>4 DEF Release!Repaired
      <4>2. Outcome("COMMITTED")'
        BY <1>1, <3>1, <3>2, <3>4, <4>1, OutcomeStays
      <4>3. Outcome(outer)'
        BY <3>4, <4>2 DEF Outcome
      <4>4. env' = Release!BoundaryOf(record) /\ head = record.ops
        BY <3>4, <4>1 DEF Release!Committed, Release!RecordMatches
      <4>5. outer' \in Release!Terminal /\ ~mark'
        BY <2>2, <3>4 DEF Release!Terminal
      <4>. QED
        BY <1>1, <1>3, <2>2, <3>1, <4>3, <4>4, <4>5, ArchiveNext
    <3>5. CASE ~flow.ok /\ Release!PreviousRestored(env') /\ outer' = "PREVIOUS_RESTORED"
      <4>1. Untouched
        BY <3>1, <3>5 DEF Release!PreviousRestored
      <4>. QED
        BY <1>5, <2>2, <3>1, <3>5, <4>1
    <3>6. CASE /\ ~flow.ok /\ ~Release!PreviousRestored(env') /\ head = flow.target /\ env' = env
               /\ Release!RecordMatches(flow.prior.app, flow.target)
               /\ outer' = "HYBRID_PERSISTED"
      <4>1. env' = Release!BoundaryOf(record) /\ head = record.ops
        BY <3>6 DEF Release!RecordMatches
      <4>2. ~Untouched
        BY <3>6, <4>1 DEF Untouched, Release!PreviousRestored
      <4>3. Outcome("HYBRID_PERSISTED")
        BY <3>1, <3>6, <4>2
      <4>4. Outcome("HYBRID_PERSISTED")'
        BY <1>1, <3>2, <3>6, <4>3, OutcomeStays
      <4>5. Outcome(outer)'
        BY <3>6, <4>4 DEF Outcome
      <4>6. outer' \in Release!Terminal /\ ~mark'
        BY <2>2, <3>6 DEF Release!Terminal
      <4>. QED
        BY <1>1, <1>3, <2>2, <3>1, <4>1, <4>5, <4>6, ArchiveNext
    <3>. QED
      BY <3>3, <3>4, <3>5, <3>6
  <2>. QED
    BY <1>4, <2>1, <2>2
<1>. QED
  BY <1>6, <1>7
\* The end of a promotion, a crash of the host, and the other workflows.
LEMMA OthersKeep ==
  ASSUME ReleaseInv, Release!Next,
         \/ Release!Archive \/ Release!Crash \/ Release!BackupStops \/ Release!BackupResumes
         \/ \E auth \in Auth : Release!StageAuth(auth)
  PROVE  ReleaseInv'
<1>1. Release!WritersFitSchema /\ live \in [app : Release!Release \cup {0}, auth : Auth]
  BY DEF ReleaseInv, Release!TypeOK
<1>2. UNCHANGED <<env, record, stamp, head, schema, live>> /\ Agrees => Agrees'
  BY DEF Agrees, Release!StampOf
<1>3. UNCHANGED <<schema, live>> => Release!WritersFitSchema'
  BY <1>1 DEF Release!WritersFitSchema
<1>4. CASE Release!Archive
  <2>1. /\ flow.at = "archive" /\ flow' = Release!Free
        /\ UNCHANGED <<env, record, stamp, head, schema, live, inner>>
    BY <1>4 DEF Release!Archive, Release!At
  <2>2. Agrees /\ inner = "none"
    BY <2>1, Archived
  <2>. QED
    BY <1>2, <1>3, <2>1, <2>2, Stops
<1>5. CASE Release!Crash
  <2>1. /\ flow.at # "none" /\ flow' = Release!Free
        /\ UNCHANGED <<env, record, stamp, head, schema, live, inner, outer, mark>>
    BY <1>5 DEF Release!Crash
  <2>2. outer = "none" => inner = "none" /\ Agrees
    <3>1. flow \in Release!Flow \/ flow.at = "resume"
      BY <2>1, FlowKinds DEF ReleaseInv
    <3>. QED
      BY <3>1 DEF ReleaseInv
  <2>. QED
    BY <1>2, <1>3, <2>1, <2>2, Stops
<1>6. CASE Release!BackupStops
  <2>1. /\ flow.at = "none" /\ outer = "none" /\ ~mark /\ inner = "none"
        /\ live' = [live EXCEPT !.app = 0] /\ flow' = Release!Resuming
        /\ UNCHANGED <<env, record, stamp, head, schema, outer, inner, mark>>
    BY <1>6 DEF Release!BackupStops, Release!BackupClear, Release!At
  <2>2. live'.app = 0
    BY <1>1, <2>1
  <2>3. Agrees'
    <3>1. Agrees
      BY <2>1 DEF ReleaseInv
    <3>. QED
      BY <2>1, <2>2, <3>1 DEF Agrees, Release!StampOf
  <2>4. Release!WritersFitSchema'
    BY <2>2 DEF Release!WritersFitSchema
  <2>5. flow'.at = "resume" /\ flow' \notin Release!Flow
    <3>1. \A f \in Release!Flow : f.at # "resume"
      BY DEF Release!Flow, Release!Early, Release!Late
    <3>2. Release!Resuming.at = "resume"
      BY DEF Release!Resuming
    <3>. QED
      BY <2>1, <3>1, <3>2
  <2>6. Release!TypeOK'
    BY ReleaseTypes DEF ReleaseInv
  <2>. QED
    BY <2>1, <2>3, <2>4, <2>5, <2>6 DEF ReleaseInv
<1>7. CASE Release!BackupResumes
  <2>1. /\ flow.at = "resume" /\ flow' = Release!Free
        /\ live' \in {[app |-> env.app, auth |-> env.auth], live}
        /\ UNCHANGED <<env, record, stamp, head, schema, outer, inner, mark>>
    BY <1>7 DEF Release!BackupResumes, Release!At
  <2>2. Agrees /\ inner = "none"
    BY <2>1 DEF ReleaseInv
  <2>3. live'.app \in {live.app, record.app}
    BY <2>1, <2>2 DEF Agrees
  <2>4. Agrees'
    BY <2>1, <2>2, <2>3 DEF Agrees, Release!StampOf
  <2>5. Release!WritersFitSchema'
    <3>1. record.app \in Int /\ schema \in Int
      BY DEF ReleaseInv, Release!TypeOK, Release!Records, Release!Release
    <3>. QED
      BY <1>1, <2>1, <2>2, <2>3, <3>1 DEF Agrees, Release!WritersFitSchema
  <2>. QED
    BY <2>1, <2>2, <2>4, <2>5, Stops
<1>8. CASE \E auth \in Auth : Release!StageAuth(auth)
  <2>1. PICK auth \in Auth : Release!StageAuth(auth)
    BY <1>8
  <2>2. /\ flow.at = "none" /\ inner = "none" /\ env' = [env EXCEPT !.auth = auth]
        /\ UNCHANGED <<record, stamp, head, schema, live, outer, inner, mark, flow>>
    BY <2>1 DEF Release!StageAuth, Release!At
  <2>3. env \in Release!Boundaries
    BY DEF ReleaseInv, Release!TypeOK
  <2>4. env'.app = env.app /\ env'.infra = env.infra
    BY <2>2, <2>3 DEF Release!Boundaries
  <2>5. Agrees => Agrees'
    BY <2>2, <2>4 DEF Agrees, Release!StampOf
  <2>6. flow' = Release!Free
    BY <2>2, FlowKinds DEF ReleaseInv
  <2>7. outer' = "none" /\ ~mark' => inner' = "none" /\ Agrees'
    BY <2>2, <2>5 DEF ReleaseInv
  <2>. QED
    BY <1>3, <2>2, <2>6, <2>7, Stops
<1>. QED
  BY <1>4, <1>5, <1>6, <1>7, <1>8

\* Every step keeps the invariant.
LEMMA ReleaseMoves ==
  ASSUME ReleaseInv, Release!Next
  PROVE  ReleaseInv'
<1>1. CASE \E release, infra \in Release!Release : Release!Lock(release, infra)
  BY <1>1, LockKeeps
<1>2. CASE \/ Release!Snapshot \/ Release!RunChild \/ Release!LoadBoundary \/ Release!LoadFails
           \/ Release!Checkout \/ Release!RewritePointers \/ Release!LauncherFails
           \/ Release!Preflight \/ Release!VerifyImages \/ Release!StopWriters
  BY <1>2, ForwardKeeps
<1>3. CASE Release!DeployFails \/ Release!RestartPrevious
  BY <1>3, EarlyFailureKeeps
<1>4. CASE Release!CrossBoundary \/ Release!Migrate
  BY <1>4, CrossingKeeps
<1>5. CASE Release!StartTarget \/ Release!RecordTarget \/ Release!StampTarget \/ Release!Commit
  BY <1>5, TargetKeeps
<1>6. CASE Release!RollBack \/ Release!RecordHybrid \/ Release!StampHybrid
  BY <1>6, HybridKeeps
<1>7. CASE Release!ForwardFails \/ Release!Contain \/ Release!RollBackFails
  BY <1>7, LateFailureKeeps
<1>8. CASE Release!KillDeploy
  BY <1>8, EarlyFailureKeeps, LateFailureKeeps
<1>9. CASE Release!LauncherExits
  BY <1>9, LauncherKeeps
<1>10. CASE Release!CoordinatorExits \/ Release!Validate
  BY <1>10, CoordinatorKeeps
<1>11. CASE \/ Release!Archive \/ Release!Crash \/ Release!BackupStops \/ Release!BackupResumes
            \/ \E auth \in Auth : Release!StageAuth(auth)
  BY <1>11, OthersKeep
<1>. QED
  BY <1>1, <1>2, <1>3, <1>4, <1>5, <1>6, <1>7, <1>8, <1>9, <1>10, <1>11 DEF Release!Next

\* The host keeps the invariant of its promotions.
LEMMA ReleaseInvariance == Spec => []ReleaseInv
<1>1. ASSUME Release!Init
      PROVE  ReleaseInv
  <2>1. PICK a \in Auth :
          /\ env = [app |-> 1, infra |-> 1, auth |-> a]
          /\ record = [app |-> 1, infra |-> 1, auth |-> a, ops |-> 1]
          /\ stamp = [app |-> 1, infra |-> 1] /\ head = 1 /\ schema = 1
          /\ live = [app |-> 1, auth |-> a]
          /\ outer = "none" /\ inner = "none" /\ mark = FALSE /\ flow = Release!Free
    BY <1>1 DEF Release!Init
  <2>2. 1 \in Release!Release
    BY ServicesAssumption DEF Release!Release
  <2>3. Release!TypeOK
    BY <2>1, <2>2 DEF Release!TypeOK, Release!Boundaries, Release!Records
  <2>4. Agrees
    BY <2>1 DEF Agrees, Release!StampOf
  <2>5. Release!WritersFitSchema
    BY <2>1 DEF Release!WritersFitSchema
  <2>6. flow.at = "none" /\ flow \notin Release!Flow
    BY <2>1, <2>3, FlowKinds
  <2>. QED
    BY <2>1, <2>3, <2>4, <2>5, <2>6 DEF ReleaseInv
<1>2. ASSUME ReleaseInv, [Next]_vars
      PROVE  ReleaseInv'
  <2>1. CASE UNCHANGED releaseVars
    <3>1. UNCHANGED <<env, record, stamp, head, schema, live, outer, inner, mark, flow>>
      BY <2>1 DEF releaseVars
    <3>2. Release!TypeOK' /\ Release!WritersFitSchema' /\ (Agrees => Agrees')
      BY <1>2, <3>1
        DEF ReleaseInv, Release!TypeOK, Release!WritersFitSchema, Agrees, Release!StampOf
    <3>3. Place => Place'
      <4>1. Untouched' = Untouched /\ Crossed' = Crossed /\ Started' = Started
        BY <3>1 DEF Untouched, Crossed, Started, Release!StampOf
      <4>2. Release!Target' = Release!Target /\ Release!Hybrid' = Release!Hybrid
        BY <3>1 DEF Release!Target, Release!Hybrid
      <4>3. Contained' = Contained /\ Back' = Back
        BY <3>1, <4>1, <4>2 DEF Back, Contained
      <4>4. /\ Named(Release!Target)' = Named(Release!Target)
            /\ Named(Release!Hybrid)' = Named(Release!Hybrid)
        BY <3>1, <4>2 DEF Named
      <4>5. /\ Stamped(Release!Target)' = Stamped(Release!Target)
            /\ Stamped(Release!Hybrid)' = Stamped(Release!Hybrid)
        BY <3>1, <4>4 DEF Stamped, Release!StampOf
      <4>6. Outcome(inner)' = Outcome(inner) /\ Outcome(outer)' = Outcome(outer)
        BY <3>1, <4>1, <4>3, <4>5 DEF Outcome
      <4>7. /\ Outcome("COMMITTED")' = Outcome("COMMITTED")
            /\ Outcome("PREVIOUS_RESTORED")' = Outcome("PREVIOUS_RESTORED")
            /\ Outcome("HYBRID_PERSISTED")' = Outcome("HYBRID_PERSISTED")
        BY <4>1, <4>3, <4>5 DEF Outcome
      <4>. QED
        BY <3>1, <4>1, <4>3, <4>4, <4>5, <4>6, <4>7 DEF Place, Release!BoundaryOf
    <3>. QED
      BY <1>2, <3>1, <3>2, <3>3 DEF ReleaseInv
  <2>2. CASE Release!Next
    BY <1>2, <2>2, ReleaseMoves
  <2>3. Release!Next \/ UNCHANGED releaseVars
    BY <1>2 DEF Next, vars
  <2>. QED
    BY <2>1, <2>2, <2>3
<1>3. Init => ReleaseInv
  BY <1>1 DEF Init
<1>. QED
  BY <1>2, <1>3, PTL DEF Spec

\* A host that asks for no operator agrees with itself, and no release runs against a schema
\* it cannot use, whatever fails, is killed or crashes on the way, for any number of releases,
\* any of them with the contract, and any auth boundaries (bumpabestie-promote,
\* promote_release.sh, deploy.sh and scheduled_backup.sh).
THEOREM ConsistentHost == Spec => []HostIsConsistent
<1>1. ReleaseInv => HostIsConsistent
  BY DEF ReleaseInv, Agrees, HostIsConsistent, Release!ClearHostAgrees, Release!Clear, Release!At
<1>. QED
  BY <1>1, ReleaseInvariance, PTL

\* What a promotion archives is so: a committed target runs with the auth it records, and one
\* that went back left no staged auth and no later migration behind (validate_committed,
\* validate_previous_restored and validate_hybrid of bumpabestie-promote).
THEOREM TrueTerminals == Spec => TerminalIsTrue
<1>1. ReleaseInv /\ [Next]_vars =>
        [(Release!At("archive") /\ flow'.at = "none" /\ outer' = "none") =>
           CASE outer = "COMMITTED" ->
                  record.app = flow.target /\ live = [app |-> flow.target, auth |-> record.auth]
             [] outer = "HYBRID_PERSISTED" ->
                  /\ env.auth = flow.prior.auth
                  /\ live = [app |-> flow.prior.app, auth |-> flow.prior.auth]
             [] OTHER -> env = Release!BoundaryOf(flow.prior) /\ schema <= flow.prior.ops]_(Release!vars)
  <2>1. SUFFICES ASSUME ReleaseInv, Release!At("archive")
                 PROVE  CASE outer = "COMMITTED" ->
                               /\ record.app = flow.target
                               /\ live = [app |-> flow.target, auth |-> record.auth]
                          [] outer = "HYBRID_PERSISTED" ->
                               /\ env.auth = flow.prior.auth
                               /\ live = [app |-> flow.prior.app, auth |-> flow.prior.auth]
                          [] OTHER ->
                               env = Release!BoundaryOf(flow.prior) /\ schema <= flow.prior.ops
    OBVIOUS
  <2>2. outer \in {"COMMITTED", "HYBRID_PERSISTED", "PREVIOUS_RESTORED"}
    BY <2>1, Archived DEF Release!At, Release!Terminal
  <2>3. CASE outer = "COMMITTED"
    BY <2>1, <2>3, Archived DEF Release!At
  <2>4. CASE outer = "HYBRID_PERSISTED"
    BY <2>1, <2>4, Archived DEF Release!At
  <2>5. CASE outer = "PREVIOUS_RESTORED"
    BY <2>1, <2>5, Archived DEF Release!At
  <2>. QED
    BY <2>2, <2>3, <2>4, <2>5
<1>. QED
  BY <1>1, ReleaseInvariance, PTL DEF Spec, TerminalIsTrue, Release!TerminalIsTrue

-----------------------------------------------------------------------------
(* The components whose proofs have modules of their own. *)

SyncP == INSTANCE BumpaSyncProofs WITH
  Worker <- Process, Order <- {1, 2}, Existing <- {1}, DayOf <- <<1, 2>>, Window <- {{2}, {1, 2}},
  PageSize <- 1, MaxGeneration <- 2, MaxRevision <- 2, MaxKey <- 2
ConnectorP == INSTANCE ConnectorActionsProofs WITH
  Decider <- Process, Action <- {"a1"}, MessageOf <- [a \in {"a1"} |-> "m1"], MaxCredential <- 2
InsightP == INSTANCE InsightDeliveryProofs WITH
  Worker <- Process, MaxSlot <- 1, MaxRevision <- 2, MaxGeneration <- 2
LoginP == INSTANCE WebLoginProofs WITH
  Request <- Process, MaxChallenge <- 2, MaxSession <- 2, MaxAttempts <- 1,
  holder <- lock, request <- visit

-----------------------------------------------------------------------------
(* BumpaSync *)

\* The syncs of the services are those that BumpaSyncProofs is about.
LEMMA SyncAlike == (Sync!Init <=> SyncP!Init) /\ (Sync!Next <=> SyncP!Next)
<1>1. Sync!Init <=> SyncP!Init
  BY DEF Sync!Idle, Sync!Init, SyncP!Idle, SyncP!Init
<1>2. Sync!Next <=> SyncP!Next
  BY DEF Sync!Cardinality, Sync!Datasets, Sync!Idle, Sync!Within, Sync!Page, Sync!LastPage,
    Sync!Witnessed, Sync!Create, Sync!Delete, Sync!Replace, Sync!RotateEnvelope, Sync!Capture,
    Sync!Matches, Sync!Claim, Sync!Conclude, Sync!FetchPage, Sync!PageFails, Sync!Abort,
    Sync!Failed, Sync!RunsWith, Sync!PersistFailure, Sync!Quality, Sync!AdvancesFreshness,
    Sync!Promote, Sync!MayPublish, Sync!Staged, Sync!PublishedRun, Sync!Publish, Sync!Superseded,
    Sync!Fenced, Sync!PublicationFails, Sync!Crash, Sync!Sync, Sync!Next, SyncP!Cardinality,
    SyncP!Datasets, SyncP!Idle, SyncP!Within, SyncP!Page, SyncP!LastPage, SyncP!Witnessed,
    SyncP!Create, SyncP!Delete, SyncP!Replace, SyncP!RotateEnvelope, SyncP!Capture, SyncP!Matches,
    SyncP!Claim, SyncP!Conclude, SyncP!FetchPage, SyncP!PageFails, SyncP!Abort, SyncP!Failed,
    SyncP!RunsWith, SyncP!PersistFailure, SyncP!Quality, SyncP!AdvancesFreshness, SyncP!Promote,
    SyncP!MayPublish, SyncP!Staged, SyncP!PublishedRun, SyncP!Publish, SyncP!Superseded,
    SyncP!Fenced, SyncP!PublicationFails, SyncP!Crash, SyncP!Sync, SyncP!Next
<1>. QED
  BY <1>1, <1>2

\* A behaviour of the services is one of BumpaSync.
LEMMA SyncBehaves == Spec => SyncP!Spec
<1>1. Init => SyncP!Init
  BY SyncAlike DEF Init
<1>2. [Next]_vars => [SyncP!Next]_(SyncP!vars)
  BY SyncAlike DEF Next, vars, syncVars, SyncP!vars
<1>. QED
  BY <1>1, <1>2, PTL DEF Spec, SyncP!Spec

-----------------------------------------------------------------------------
(* ConnectorActions *)

\* The approved actions of the services are those that ConnectorActionsProofs is about.
LEMMA ConnectorAlike == (Connector!Init <=> ConnectorP!Init) /\ (Connector!Next <=> ConnectorP!Next)
<1>1. Connector!Init <=> ConnectorP!Init
  BY DEF Connector!Settled, Connector!NoAction, Connector!Unheld, Connector!Requested,
    Connector!NoRequest, Connector!Init, ConnectorP!Settled, ConnectorP!NoAction,
    ConnectorP!Unheld, ConnectorP!Requested, ConnectorP!NoRequest, ConnectorP!Init
<1>2. Connector!Next <=> ConnectorP!Next
  BY DEF Connector!Permission, Connector!Settled, Connector!NoAction, Connector!Unheld,
    Connector!NoRequest, Connector!Dispatching, Connector!ConversationFree, Connector!RowFree,
    Connector!ConnectorStep, Connector!Withdrawn, Connector!Approve, Connector!Reject,
    Connector!Awaited, Connector!RequestReads, Connector!RequestWrites, Connector!StartOAuth,
    Connector!SetPermission, Connector!Exchanged, Connector!CompleteOAuth, Connector!FallBack,
    Connector!DeleteConnection, Connector!Authorized, Connector!Renewals, Connector!ReadRenews,
    Connector!SetActor, Connector!PendingOf, Connector!PrepareReads, Connector!Expired,
    Connector!PrepareCommits, Connector!NewReads, Connector!NewCommits, Connector!HolderAborts,
    Connector!Tell, Connector!Decides, Connector!DecideSettled, Connector!DecideLate,
    Connector!Deny, Connector!StillValid, Connector!Confirm, Connector!MayDispatch,
    Connector!Dispatch, Connector!DispatchFails, Connector!Record, Connector!Crash,
    Connector!Next, ConnectorP!Permission, ConnectorP!Settled, ConnectorP!NoAction,
    ConnectorP!Unheld, ConnectorP!NoRequest, ConnectorP!Dispatching, ConnectorP!ConversationFree,
    ConnectorP!RowFree, ConnectorP!ConnectorStep, ConnectorP!Withdrawn, ConnectorP!Approve,
    ConnectorP!Reject, ConnectorP!Awaited, ConnectorP!RequestReads, ConnectorP!RequestWrites,
    ConnectorP!StartOAuth, ConnectorP!SetPermission, ConnectorP!Exchanged,
    ConnectorP!CompleteOAuth, ConnectorP!FallBack, ConnectorP!DeleteConnection,
    ConnectorP!Authorized, ConnectorP!Renewals, ConnectorP!ReadRenews, ConnectorP!SetActor,
    ConnectorP!PendingOf, ConnectorP!PrepareReads, ConnectorP!Expired, ConnectorP!PrepareCommits,
    ConnectorP!NewReads, ConnectorP!NewCommits, ConnectorP!HolderAborts, ConnectorP!Tell,
    ConnectorP!Decides, ConnectorP!DecideSettled, ConnectorP!DecideLate, ConnectorP!Deny,
    ConnectorP!StillValid, ConnectorP!Confirm, ConnectorP!MayDispatch, ConnectorP!Dispatch,
    ConnectorP!DispatchFails, ConnectorP!Record, ConnectorP!Crash, ConnectorP!Next
<1>. QED
  BY <1>1, <1>2

\* A behaviour of the services is one of ConnectorActions.
LEMMA ConnectorBehaves == Spec => ConnectorP!Spec
<1>1. Init => ConnectorP!Init
  BY ConnectorAlike DEF Init
<1>2. [Next]_vars => [ConnectorP!Next]_(ConnectorP!vars)
  BY ConnectorAlike DEF Next, vars, connectorVars, ConnectorP!vars
<1>. QED
  BY <1>1, <1>2, PTL DEF Spec, ConnectorP!Spec

-----------------------------------------------------------------------------
(* InsightDelivery *)

\* The insights of the services are those that InsightDeliveryProofs is about.
LEMMA InsightAlike == (Insight!Init <=> InsightP!Init) /\ (Insight!Next <=> InsightP!Next)
<1>1. Insight!Init <=> InsightP!Init
  BY DEF Insight!LedgerInit, Insight!Slot, Insight!JobKey, Insight!NoRow, Insight!Init,
    InsightP!LedgerInit, InsightP!Slot, InsightP!JobKey, InsightP!NoRow, InsightP!Init
<1>2. Insight!Next <=> InsightP!Next
  BY DEF Insight!Open, Insight!Grant, Insight!Release, Insight!Decide, Insight!Abandon,
    Insight!Revoke, Insight!Slot, Insight!JobKey, Insight!jobVars, Insight!Locking,
    Insight!RowsFree, Insight!Save, Insight!SetReachable, Insight!NextSlot, Insight!Publish,
    Insight!Schedule, Insight!GoTo, Insight!Leave, Insight!RevisionOf, Insight!SlotOf,
    Insight!StatusOf, Insight!SetStatus, Insight!Take, Insight!Eligible, Insight!Skip,
    Insight!Intent, Insight!MayCompose, Insight!Composes, Insight!Prepare, Insight!Claimable,
    Insight!Resume, Insight!Claim, Insight!End, Insight!InsertedByAnother, Insight!Refuse,
    Insight!StillWanted, Insight!Authorize, Insight!Cancel, Insight!Accept, Insight!Decline,
    Insight!Outcome, Insight!Record, Insight!Overtaken, Insight!Recover, Insight!Next,
    InsightP!Open, InsightP!Grant, InsightP!Release, InsightP!Decide, InsightP!Abandon,
    InsightP!Revoke, InsightP!Slot, InsightP!JobKey, InsightP!jobVars, InsightP!Locking,
    InsightP!RowsFree, InsightP!Save, InsightP!SetReachable, InsightP!NextSlot, InsightP!Publish,
    InsightP!Schedule, InsightP!GoTo, InsightP!Leave, InsightP!RevisionOf, InsightP!SlotOf,
    InsightP!StatusOf, InsightP!SetStatus, InsightP!Take, InsightP!Eligible, InsightP!Skip,
    InsightP!Intent, InsightP!MayCompose, InsightP!Composes, InsightP!Prepare, InsightP!Claimable,
    InsightP!Resume, InsightP!Claim, InsightP!End, InsightP!InsertedByAnother, InsightP!Refuse,
    InsightP!StillWanted, InsightP!Authorize, InsightP!Cancel, InsightP!Accept, InsightP!Decline,
    InsightP!Outcome, InsightP!Record, InsightP!Overtaken, InsightP!Recover, InsightP!Next
<1>. QED
  BY <1>1, <1>2

\* A behaviour of the services is one of InsightDelivery.
LEMMA InsightBehaves == Spec => InsightP!Spec
<1>1. Init => InsightP!Init
  BY InsightAlike DEF Init
<1>2. [Next]_vars => [InsightP!Next]_(InsightP!vars)
  BY InsightAlike DEF Next, vars, insightVars, InsightP!jobVars, InsightP!vars
<1>. QED
  BY <1>1, <1>2, PTL DEF Spec, InsightP!Spec

-----------------------------------------------------------------------------
(* WebLogin *)

\* The logins of the services are those that WebLoginProofs is about.
LEMMA LoginAlike == (Login!Init <=> LoginP!Init) /\ (Login!Next <=> LoginP!Next)
<1>1. Login!Init <=> LoginP!Init
  BY DEF Login!Idle, Login!Init, LoginP!Idle, LoginP!Init
<1>2. Login!Next <=> LoginP!Next
  BY DEF Login!NewChallenge, Login!Idle, Login!At, Login!Go, Login!Newest, Login!Open,
    Login!Consumed, Login!RequestCode, Login!MayLock, Login!IssueOtp, Login!SendOtp,
    Login!IssuePin, Login!ReadChallenge, Login!Usable, Login!Ends, Login!Deny, Login!NewSession,
    Login!Verify, Login!CreateAccessToken, Login!Lost, Login!Pass, Login!Approve, Login!Next,
    LoginP!NewChallenge, LoginP!Idle, LoginP!At, LoginP!Go, LoginP!Newest, LoginP!Open,
    LoginP!Consumed, LoginP!RequestCode, LoginP!MayLock, LoginP!IssueOtp, LoginP!SendOtp,
    LoginP!IssuePin, LoginP!ReadChallenge, LoginP!Usable, LoginP!Ends, LoginP!Deny,
    LoginP!NewSession, LoginP!Verify, LoginP!CreateAccessToken, LoginP!Lost, LoginP!Pass,
    LoginP!Approve, LoginP!Next
<1>. QED
  BY <1>1, <1>2

\* A behaviour of the services is one of WebLogin.
LEMMA LoginBehaves == Spec => LoginP!Spec
<1>1. Init => LoginP!Init
  BY LoginAlike DEF Init
<1>2. [Next]_vars => [LoginP!Next]_(LoginP!vars)
  BY LoginAlike DEF Next, vars, loginVars, LoginP!vars
<1>. QED
  BY <1>1, <1>2, PTL DEF Spec, LoginP!Spec

-----------------------------------------------------------------------------
(* The theorems *)

\* PullIsWhole: a pull of orders that ends as available is whole, although the store changes
\* between its pages (_sync_orders).
THEOREM WholePulls == Spec => PullIsWhole
<1>1. SyncP!Parameters
  <2>1. {1, 2} = 1..2 /\ {1} = 1..1
    OBVIOUS
  <2>. QED
    BY <2>1 DEF SyncP!Parameters
<1>2. Spec => SyncP!PullIsWhole
  BY <1>1, SyncBehaves, SyncP!KeptPullIsWhole
<1>3. SyncP!PullIsWhole => PullIsWhole
  BY DEF PullIsWhole, Sync!PullIsWhole, SyncP!PullIsWhole, Sync!vars, SyncP!vars
<1>. QED
  BY <1>2, <1>3

\* ActionsAreTrue: an action is written at most once, one that was written reads so, and what
\* the user was told of it stays true (decide_action).
THEOREM TrueActions == Spec => []ActionsAreTrue
<1>1. ConnectorP!Parameters
  BY DEF ConnectorP!Parameters
<1>2. Spec => []ConnectorP!SentOnceAndRecorded /\ []ConnectorP!AnswersAreTrue
  BY <1>1, ConnectorBehaves, ConnectorP!WrittenOnce, ConnectorP!ToldTheTruth
<1>3. ConnectorP!SentOnceAndRecorded /\ ConnectorP!AnswersAreTrue => ActionsAreTrue
  BY DEF ActionsAreTrue, Connector!SentOnceAndRecorded, ConnectorP!SentOnceAndRecorded,
         Connector!AnswersAreTrue, ConnectorP!AnswersAreTrue
<1>. QED
  BY <1>2, <1>3, PTL

\* SentAsPreviewed: a write goes out only as it was previewed, approved and authorized.
THEOREM BindingPreviews == Spec => SentAsPreviewed
<1>1. ConnectorP!Parameters
  BY DEF ConnectorP!Parameters
<1>2. Spec => ConnectorP!SentAsPreviewed
  BY <1>1, ConnectorBehaves, ConnectorP!PreviewIsBinding
<1>3. ConnectorP!SentAsPreviewed => SentAsPreviewed
  BY DEF SentAsPreviewed, Connector!SentAsPreviewed, ConnectorP!SentAsPreviewed,
         Connector!vars, ConnectorP!vars
<1>. QED
  BY <1>2, <1>3

\* OneSummaryPerSlot: a slot of a subscription brings at most one summary.
THEOREM OneSummary == Spec => []OneSummaryPerSlot
<1>1. InsightP!Parameters
  BY DEF InsightP!Parameters, InsightP!JobKey, InsightP!Slot, Insight!JobKey, Insight!Slot
<1>2. Spec => []InsightP!OneSummaryPerSlot
  BY <1>1, InsightBehaves, InsightP!OneSummary
<1>3. InsightP!OneSummaryPerSlot => OneSummaryPerSlot
  BY DEF OneSummaryPerSlot, Insight!OneSummaryPerSlot, InsightP!OneSummaryPerSlot,
         Insight!Slot, InsightP!Slot
<1>. QED
  BY <1>2, <1>3, PTL

\* SentAsWanted: a summary goes out only as its subscriber wants it when it is sent.
THEOREM WantedSummaries == Spec => SentAsWanted
<1>1. InsightP!Parameters
  BY DEF InsightP!Parameters, InsightP!JobKey, InsightP!Slot, Insight!JobKey, Insight!Slot
<1>2. Spec => InsightP!SentAsWanted
  BY <1>1, InsightBehaves, InsightP!WantedSummaries
<1>3. InsightP!SentAsWanted => SentAsWanted
  BY DEF SentAsWanted, Insight!SentAsWanted, InsightP!SentAsWanted, Insight!Slot,
         InsightP!Slot, Insight!vars, InsightP!vars, Insight!jobVars, InsightP!jobVars
<1>. QED
  BY <1>2, <1>3

\* OneChallengeOneSession: a challenge buys at most one session, before the limit of its
\* attempts (verify_code).
THEOREM OneSession == Spec => []OneChallengeOneSession
<1>1. LoginP!Parameters
  BY DEF LoginP!Parameters
<1>2. Spec => []LoginP!OneChallengeOneSession
  BY <1>1, LoginBehaves, LoginP!OneSession
<1>3. LoginP!OneChallengeOneSession => OneChallengeOneSession
  BY DEF OneChallengeOneSession, Login!OneChallengeOneSession, LoginP!OneChallengeOneSession,
         Login!Open, LoginP!Open, Login!Cardinality, LoginP!Cardinality
<1>. QED
  BY <1>2, <1>3, PTL

=============================================================================
