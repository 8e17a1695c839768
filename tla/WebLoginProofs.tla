---------------------------- MODULE WebLoginProofs ----------------------------
(***************************************************************************)
(* What holds of WebLogin for any number of concurrent requests,           *)
(* challenges, sessions and attempts: a challenge buys one session at      *)
(* most, before the limit of wrong codes, and one is open at most.         *)
(*                                                                         *)
(* IInv adds what the locks are for: a code is checked against a row that  *)
(* stays as it was read, because every other request that would end or     *)
(* count it waits for the lock.                                            *)
(***************************************************************************)
EXTENDS WebLogin, FiniteSetTheorems, SequenceTheorems, TLAPS

\* The bounds are numbers, and None is no request.
Parameters ==
  /\ MaxChallenge \in Nat /\ MaxSession \in Nat /\ MaxAttempts \in Nat
  /\ None \notin Request

\* The challenges that were issued.
Issued == 1..Len(challenges)

\* A request knows challenges that were issued.
VisitsFit ==
  /\ Len(challenges) <= MaxChallenge
  /\ \A r \in Request :
       /\ At(r, "issuing") => request[r].read \subseteq Issued
       /\ At(r, "sending") \/ At(r, "checking") \/ At(r, "verified") => request[r].of \in Issued

\* Only the newest challenge may be open.
NewestIsOpen == \A c \in Issued : challenges[c].state = "open" => c = Len(challenges)

\* What a request checks a code against is locked and as it was read.
ReadIsLocked ==
  \A r \in Request : At(r, "checking") =>
    /\ holder = r
    /\ request[r].read.state = challenges[request[r].of].state
    /\ request[r].read.attempts = challenges[request[r].of].attempts

\* The wrong codes that were answered are those the rows count.
GuessesAreCounted ==
  /\ \A c \in Issued :
       guesses[c] = challenges[c].attempts /\ challenges[c].attempts <= MaxAttempts
  /\ \A c \in (1..MaxChallenge) \ Issued : guesses[c] = 0

\* A session was bought by a consumed challenge, and by none but it.
SessionsAreBought ==
  /\ \A s \in DOMAIN sessions :
       sessions[s] \in Issued /\ challenges[sessions[s]].state = "consumed"
  /\ \A s, t \in DOMAIN sessions : sessions[s] = sessions[t] => s = t

\* One that is about to be created will be the first of its challenge, and the only one.
VerifiedIsFirst ==
  \A r \in Request : At(r, "verified") =>
    /\ challenges[request[r].of].state = "consumed"
    /\ \A s \in DOMAIN sessions : sessions[s] # request[r].of
    /\ \A v \in Request : At(v, "verified") /\ request[v].of = request[r].of => v = r

IInv ==
  /\ VisitsFit
  /\ NewestIsOpen
  /\ ReadIsLocked
  /\ GuessesAreCounted
  /\ SessionsAreBought
  /\ VerifiedIsFirst

-----------------------------------------------------------------------------
(* Rows and requests *)

\* A function of the right domain is a sequence of its length.
LEMMA FunctionIsSeq ==
  ASSUME NEW S, NEW n \in Nat, NEW f \in [1..n -> S] PROVE f \in Seq(S) /\ Len(f) = n
<1>1. f \in Seq(S)
  BY SeqDef
<1>. QED
  BY <1>1, LenProperties

\* What the type says of the challenges.
LEMMA Rows ==
  ASSUME TypeOK
  PROVE  /\ Len(challenges) \in Nat /\ DOMAIN challenges = Issued
         /\ challenges \in [Issued -> Challenge]
         /\ \A c \in Issued : challenges[c] \in Challenge
BY LenProperties DEF TypeOK, Issued

\* Rows that are changed, one or several, stay as many.
LEMMA ChangedRows ==
  ASSUME TypeOK, NEW new, new \in [Issued -> Challenge]
  PROVE  new \in Seq(Challenge) /\ Len(new) = Len(challenges) /\ DOMAIN new = Issued
BY FunctionIsSeq, Rows DEF Issued

\* Consumed ends the challenges it is given and changes nothing else of any.
LEMMA ConsumedRows ==
  ASSUME TypeOK, NEW S
  PROVE  /\ Consumed(S) \in Seq(Challenge) /\ Len(Consumed(S)) = Len(challenges)
         /\ \A c \in Issued :
              /\ Consumed(S)[c].attempts = challenges[c].attempts
              /\ Consumed(S)[c].state = IF c \in S THEN "consumed" ELSE challenges[c].state
<1>1. Consumed(S) \in [Issued -> Challenge]
  BY Rows DEF Consumed, Challenge
<1>2. ASSUME NEW c \in Issued
      PROVE  /\ Consumed(S)[c].attempts = challenges[c].attempts
             /\ Consumed(S)[c].state = IF c \in S THEN "consumed" ELSE challenges[c].state
  BY Rows DEF Consumed, Challenge
<1>. QED
  BY <1>1, <1>2, ChangedRows

\* A new challenge after the ended ones.
LEMMA AppendedRows ==
  ASSUME TypeOK, NEW S, challenges' = Append(Consumed(S), NewChallenge)
  PROVE  /\ challenges' \in Seq(Challenge) /\ Len(challenges') = Len(challenges) + 1
         /\ challenges'[Len(challenges) + 1] = NewChallenge
         /\ \A c \in Issued :
              /\ challenges'[c].attempts = challenges[c].attempts
              /\ challenges'[c].state = IF c \in S THEN "consumed" ELSE challenges[c].state
<1>1. NewChallenge \in Challenge
  BY DEF NewChallenge, Challenge
<1>2. /\ challenges' \in Seq(Challenge) /\ Len(challenges') = Len(challenges) + 1
      /\ challenges'[Len(challenges) + 1] = NewChallenge
      /\ \A c \in Issued : challenges'[c] = Consumed(S)[c]
  BY <1>1, ConsumedRows, Rows, AppendProperties DEF Issued
<1>3. \A c \in Issued :
        /\ Consumed(S)[c].attempts = challenges[c].attempts
        /\ Consumed(S)[c].state = IF c \in S THEN "consumed" ELSE challenges[c].state
  BY ConsumedRows
<1>. QED
  BY <1>2, <1>3

\* What each kind of visit keeps.
LEMMA Visits ==
  ASSUME TypeOK, NEW r \in Request
  PROVE  /\ At(r, "issuing") => request[r].read \subseteq 1..MaxChallenge
         /\ At(r, "sending") \/ At(r, "checking") \/ At(r, "verified") =>
              request[r].of \in 1..MaxChallenge
         /\ At(r, "checking") => request[r].right \in BOOLEAN /\ request[r].read \in Challenge
BY DEF TypeOK, Visit, At, Idle

\* A request that holds or may take the lock, and checks no code, is the only one in the
\* way: nobody else checks one either.
LEMMA NobodyChecks ==
  ASSUME Parameters, IInv, NEW r \in Request, MayLock(r), ~At(r, "checking")
  PROVE  \A v \in Request : ~At(v, "checking")
BY DEF IInv, ReadIsLocked, MayLock, Parameters

\* What a step makes of the rows, as far as the invariant tells them apart.
LEMMA NewRows ==
  ASSUME TypeOK, challenges' \in [Issued -> Challenge]
  PROVE  challenges' \in Seq(Challenge) /\ Len(challenges)' = Len(challenges) /\ Issued' = Issued
BY FunctionIsSeq, Rows DEF Issued

\* One row is written over.
LEMMA RowWritten ==
  ASSUME TypeOK, NEW i \in Issued, NEW row \in Challenge,
         challenges' = [challenges EXCEPT ![i] = row]
  PROVE  /\ challenges' \in Seq(Challenge) /\ Len(challenges') = Len(challenges)
         /\ challenges'[i] = row
         /\ \A c \in Issued \ {i} : challenges'[c] = challenges[c]
<1>1. challenges \in [Issued -> Challenge]
  BY Rows
<1>2. challenges' \in [Issued -> Challenge]
  BY <1>1
<1>3. challenges'[i] = row /\ \A c \in Issued \ {i} : challenges'[c] = challenges[c]
  BY <1>1
<1>. QED
  BY <1>2, <1>3, NewRows

\* The row of a challenge whose message was sent.
LEMMA SentRow ==
  ASSUME TypeOK, NEW r \in Request, request[r].of \in Issued, SendOtp(r)
  PROVE  \E row \in Challenge :
           /\ challenges' = [challenges EXCEPT ![request[r].of] = row]
           /\ row.attempts = challenges[request[r].of].attempts
           /\ \/ row.state = challenges[request[r].of].state
              \/ row.state = "consumed" /\ MayLock(r)
<1>. DEFINE i == request[r].of
<1>1. challenges \in [Issued -> Challenge] /\ challenges[i] \in Challenge /\ i \in Issued
  BY Rows
<1>2. ASSUME NEW c \in Challenge, NEW d \in BOOLEAN
      PROVE  /\ [c EXCEPT !.delivered = d] \in Challenge
             /\ [c EXCEPT !.delivered = d, !.state = "consumed"] \in Challenge
  BY DEF Challenge
<1>3. ASSUME NEW d \in BOOLEAN,
             challenges' = [challenges EXCEPT ![i].delivered = d, ![i].state = @]
      PROVE  \E row \in Challenge :
               /\ challenges' = [challenges EXCEPT ![i] = row]
               /\ row.attempts = challenges[i].attempts /\ row.state = challenges[i].state
  <2>. DEFINE row == [challenges[i] EXCEPT !.delivered = d]
  <2>1. row \in Challenge
    BY <1>1, <1>2
  <2>2. row.attempts = challenges[i].attempts /\ row.state = challenges[i].state
    BY <1>1 DEF Challenge
  <2>3. challenges' = [challenges EXCEPT ![i] = row]
    BY <1>1, <1>3 DEF Challenge
  <2>. QED
    BY <2>1, <2>2, <2>3
<1>4. ASSUME NEW d \in BOOLEAN,
             challenges' = [challenges EXCEPT ![i].delivered = d, ![i].state = "consumed"]
      PROVE  \E row \in Challenge :
               /\ challenges' = [challenges EXCEPT ![i] = row]
               /\ row.attempts = challenges[i].attempts /\ row.state = "consumed"
  <2>. DEFINE row == [challenges[i] EXCEPT !.delivered = d, !.state = "consumed"]
  <2>1. row \in Challenge
    BY <1>1, <1>2
  <2>2. row.attempts = challenges[i].attempts /\ row.state = "consumed"
    BY <1>1 DEF Challenge
  <2>3. challenges' = [challenges EXCEPT ![i] = row]
    BY <1>1, <1>4
  <2>. QED
    BY <2>1, <2>2, <2>3
<1>5. \E d \in BOOLEAN :
        \/ challenges' = [challenges EXCEPT ![i].delivered = d, ![i].state = @]
        \/ /\ challenges' = [challenges EXCEPT ![i].delivered = d, ![i].state = "consumed"]
           /\ MayLock(r)
  <2>1. PICK d \in BOOLEAN, failed \in BOOLEAN :
          /\ failed => MayLock(r)
          /\ challenges' = [challenges EXCEPT ![i].delivered = d,
                                              ![i].state = IF failed THEN "consumed" ELSE @]
    BY DEF SendOtp
  <2>2. CASE failed = TRUE
    BY <2>1, <2>2
  <2>3. CASE failed = FALSE
    BY <2>1, <2>3
  <2>. QED
    BY <2>2, <2>3
<1>. HIDE DEF i
<1>. QED
  BY <1>3, <1>4, <1>5 DEF i

\* What a denied guess writes.
Guessed(r) ==
  challenges' = [challenges EXCEPT
    ![request[r].of].attempts = request[r].read.attempts + 1,
    ![request[r].of].state = IF Ends(request[r].read) THEN "consumed" ELSE @]

\* The row of a challenge whose code was guessed.
LEMMA CountedRow ==
  ASSUME TypeOK, NEW r \in Request, request[r].of \in Issued, request[r].read \in Challenge,
         Guessed(r)
  PROVE  \E row \in Challenge :
           /\ challenges' = [challenges EXCEPT ![request[r].of] = row]
           /\ row.attempts = request[r].read.attempts + 1
           /\ row.state \in {"consumed", challenges[request[r].of].state}
<1>. DEFINE i == request[r].of
            n == request[r].read.attempts + 1
<1>1. challenges \in [Issued -> Challenge] /\ challenges[i] \in Challenge /\ i \in Issued
  BY Rows
<1>2. n \in Nat
  BY DEF Challenge
<1>3. \E s \in {"consumed", challenges[i].state} :
        challenges' = [challenges EXCEPT ![i].attempts = n, ![i].state = s]
  <2>1. CASE Ends(request[r].read)
    BY <2>1 DEF Guessed
  <2>2. CASE ~Ends(request[r].read)
    BY <2>2 DEF Guessed
  <2>. QED
    BY <2>1, <2>2
<1>. HIDE DEF i, n
<1>4. PICK s \in {"consumed", challenges[i].state} :
        challenges' = [challenges EXCEPT ![i].attempts = n, ![i].state = s]
  BY <1>3
<1>. DEFINE row == [challenges[i] EXCEPT !.attempts = n, !.state = s]
<1>5. row \in Challenge
  BY <1>1, <1>2, <1>4 DEF Challenge
<1>6. row.attempts = n /\ row.state = s
  BY <1>1 DEF Challenge
<1>7. challenges' = [challenges EXCEPT ![i] = row]
  BY <1>1, <1>4
<1>8. \E new \in Challenge :
        /\ challenges' = [challenges EXCEPT ![i] = new]
        /\ new.attempts = n /\ new.state \in {"consumed", challenges[i].state}
  BY <1>4, <1>5, <1>6, <1>7
<1>. QED
  BY <1>8 DEF i, n

\* The row of a challenge as time passes.
LEMMA PassedRow ==
  ASSUME TypeOK, NEW i \in Issued, Pass(i)
  PROVE  /\ challenges' \in [Issued -> Challenge]
         /\ \A c \in Issued :
              /\ challenges'[c].attempts = challenges[c].attempts
              /\ challenges'[c].state = challenges[c].state
<1>1. challenges \in [Issued -> Challenge] /\ \A c \in Issued : challenges[c] \in Challenge
  BY Rows
<1>2. CASE challenges' = [challenges EXCEPT ![i].expired = TRUE]
  BY <1>1, <1>2 DEF Challenge
<1>3. CASE challenges' = [challenges EXCEPT ![i].cool = TRUE]
  BY <1>1, <1>3 DEF Challenge
<1>. QED
  BY <1>2, <1>3 DEF Pass

-----------------------------------------------------------------------------
(* Types *)

\* Every step keeps every variable in its type.
LEMMA TypeStep == ASSUME Parameters, TypeOK, IInv, [Next]_vars PROVE TypeOK'
<1>. USE DEF Go
<1>1. ASSUME NEW r \in Request, RequestCode(r) PROVE TypeOK'
  <2>1. [at |-> "issuing", read |-> Open] \in Visit
    BY Rows DEF Visit, Open, IInv, VisitsFit, Issued, Parameters
  <2>. QED
    BY <1>1, <2>1 DEF RequestCode, TypeOK
<1>2. ASSUME NEW r \in Request, IssueOtp(r) \/ IssuePin(r) PROVE TypeOK'
  <2>1. Newest < MaxChallenge => [at |-> "sending", of |-> Newest + 1] \in Visit
    BY Rows DEF Visit, Newest, Parameters
  <2>2. request' \in [Request -> Visit]
    BY <1>2, <2>1 DEF IssueOtp, IssuePin, TypeOK, Visit
  <2>3. challenges' \in Seq(Challenge)
    <3>1. ASSUME NEW S, challenges' = Append(Consumed(S), NewChallenge)
          PROVE  challenges' \in Seq(Challenge)
      BY <3>1, AppendedRows
    <3>2. CASE UNCHANGED challenges
      BY <3>2 DEF TypeOK
    <3>. QED
      BY <1>2, <3>1, <3>2 DEF IssueOtp, IssuePin
  <2>. QED
    BY <1>2, <2>2, <2>3 DEF IssueOtp, IssuePin, TypeOK
<1>3. ASSUME NEW r \in Request, SendOtp(r) PROVE TypeOK'
  <2>1. request[r].of \in Issued
    BY <1>3 DEF SendOtp, IInv, VisitsFit
  <2>2. challenges' \in Seq(Challenge)
    BY <1>3, <2>1, SentRow, RowWritten
  <2>. QED
    BY <1>3, <2>2 DEF SendOtp, TypeOK, Visit
<1>4. ASSUME NEW r \in Request, NEW right \in BOOLEAN, ReadChallenge(r, right) PROVE TypeOK'
  <2>1. [at |-> "checking", of |-> Newest, right |-> right, read |-> challenges[Newest]] \in Visit
    BY <1>4, Rows DEF ReadChallenge, Visit, Newest, Issued, IInv, VisitsFit, Parameters
  <2>. QED
    BY <1>4, <2>1 DEF ReadChallenge, TypeOK
<1>5. ASSUME NEW r \in Request, Deny(r) PROVE TypeOK'
  <2>. DEFINE c == request[r].of
              read == request[r].read
  <2>1. At(r, "checking") /\ c \in Issued /\ c \in 1..MaxChallenge /\ read \in Challenge
    BY <1>5, Visits DEF Deny, IInv, VisitsFit
  <2>2. CASE UNCHANGED <<challenges, guesses>>
    BY <1>5, <2>2 DEF Deny, TypeOK, Visit
  <2>3. CASE /\ Usable(read)
             /\ challenges' = [challenges EXCEPT
                  ![c].attempts = read.attempts + 1,
                  ![c].state = IF Ends(read) THEN "consumed" ELSE @]
             /\ guesses' = [guesses EXCEPT ![c] = @ + 1]
    <3>1. challenges' \in Seq(Challenge)
      <4>1. Guessed(r)
        BY <2>3 DEF Guessed
      <4>. QED
        BY <2>1, <4>1, CountedRow, RowWritten
    <3>2. guesses[c] = read.attempts /\ read.attempts < MaxAttempts
      BY <2>1, <2>3 DEF Usable, IInv, GuessesAreCounted, ReadIsLocked
    <3>3. guesses' \in [1..MaxChallenge -> 0..MaxAttempts + 1]
      BY <2>1, <2>3, <3>2 DEF TypeOK, Challenge, Parameters
    <3>. QED
      BY <1>5, <3>1, <3>3 DEF Deny, TypeOK, Visit
  <2>4. CASE challenges' = Consumed({c}) /\ UNCHANGED guesses
    BY <1>5, <2>4, ConsumedRows DEF Deny, TypeOK, Visit
  <2>. QED
    BY <1>5, <2>2, <2>3, <2>4 DEF Deny
<1>6. ASSUME NEW r \in Request, Verify(r) PROVE TypeOK'
  <2>1. request[r].of \in 1..MaxChallenge
    BY <1>6, Visits DEF Verify
  <2>2. sessions' \in Seq(1..MaxChallenge)
    <3>1. CASE sessions' = Append(sessions, request[r].of)
      BY <2>1, <3>1, AppendProperties DEF TypeOK
    <3>2. CASE UNCHANGED sessions
      BY <3>2 DEF TypeOK
    <3>. QED
      BY <1>6, <3>1, <3>2 DEF Verify, NewSession
  <2>3. request' \in [Request -> Visit]
    BY <1>6, <2>1 DEF Verify, TypeOK, Visit
  <2>. QED
    BY <1>6, <2>2, <2>3, ConsumedRows DEF Verify, TypeOK
<1>7. ASSUME NEW r \in Request, CreateAccessToken(r) PROVE TypeOK'
  <2>1. request[r].of \in 1..MaxChallenge
    BY <1>7, Visits DEF CreateAccessToken
  <2>2. sessions' \in Seq(1..MaxChallenge)
    BY <1>7, <2>1, AppendProperties DEF CreateAccessToken, NewSession, TypeOK
  <2>. QED
    BY <1>7, <2>2 DEF CreateAccessToken, TypeOK, Visit
<1>8. ASSUME NEW r \in Request, Lost(r) PROVE TypeOK'
  BY <1>8 DEF Lost, TypeOK, Visit
<1>9. ASSUME NEW c \in DOMAIN challenges, Pass(c) PROVE TypeOK'
  BY <1>9, Rows, PassedRow, NewRows DEF Pass, TypeOK
<1>10. CASE Approve
  BY <1>10 DEF Approve, TypeOK
<1>11. CASE UNCHANGED vars
  BY <1>11 DEF vars, TypeOK
<1>. QED
  BY <1>1, <1>2, <1>3, <1>4, <1>5, <1>6, <1>7, <1>8, <1>9, <1>10, <1>11 DEF Next

-----------------------------------------------------------------------------
(* The inductive invariant, by what a step does to the rows *)

\* Without a new session or a new verification, consumed challenges stay what they are.
LEMMA NothingBought ==
  ASSUME TypeOK, IInv, UNCHANGED sessions, Issued \subseteq Issued',
         \A c \in Issued : challenges[c].state = "consumed" => challenges'[c].state = "consumed",
         \A v \in Request : request'[v].at = "verified" => request'[v] = request[v]
  PROVE  SessionsAreBought' /\ VerifiedIsFirst'
<1>1. SessionsAreBought'
  BY DEF IInv, SessionsAreBought
<1>2. ASSUME NEW v \in Request, At(v, "verified")'
      PROVE  At(v, "verified") /\ request'[v].of = request[v].of /\ request[v].of \in Issued
  BY <1>2 DEF At, IInv, VisitsFit
<1>3. ASSUME NEW v \in Request, At(v, "verified")'
      PROVE  /\ challenges'[request'[v].of].state = "consumed"
             /\ \A s \in DOMAIN sessions' : sessions'[s] # request'[v].of
             /\ \A u \in Request : At(u, "verified")' /\ request'[u].of = request'[v].of => u = v
  BY <1>2, <1>3 DEF IInv, VerifiedIsFirst
<1>. QED
  BY <1>1, <1>3 DEF VerifiedIsFirst

\* No row is ended or counted: a request comes, reads or goes, a message arrives, time passes.
LEMMA QuietStep ==
  ASSUME Parameters, TypeOK, IInv, NEW r \in Request,
         Len(challenges') = Len(challenges),
         \A c \in Issued : /\ challenges'[c].state = challenges[c].state
                           /\ challenges'[c].attempts = challenges[c].attempts,
         UNCHANGED <<sessions, guesses>>,
         \A v \in Request \ {r} : request'[v] = request[v],
         \A v \in Request \ {r} : At(v, "checking") => holder' = holder,
         \/ request'[r].at = "idle"
         \/ request'[r].at = "issuing" /\ request'[r].read \subseteq Issued
         \/ /\ request'[r].at = "checking" /\ request'[r].of \in Issued /\ holder' = r
            /\ request'[r].read = challenges[request'[r].of]
         \/ request'[r] = request[r] /\ (At(r, "checking") => holder' = holder)
  PROVE  IInv'
<1>1. Issued' = Issued
  BY DEF Issued
<1>2. VisitsFit'
  BY <1>1 DEF IInv, VisitsFit, At
<1>3. NewestIsOpen'
  BY <1>1 DEF IInv, NewestIsOpen
<1>4. ReadIsLocked'
  <2>1. ASSUME NEW v \in Request, v # r, At(v, "checking")'
        PROVE  /\ holder' = v
               /\ request'[v].read.state = challenges'[request'[v].of].state
               /\ request'[v].read.attempts = challenges'[request'[v].of].attempts
    <3>1. request'[v] = request[v] /\ At(v, "checking")
      BY <2>1 DEF At
    <3>. QED
      BY <2>1, <3>1 DEF IInv, ReadIsLocked, VisitsFit
  <2>2. ASSUME At(r, "checking")'
        PROVE  /\ holder' = r
               /\ request'[r].read.state = challenges'[request'[r].of].state
               /\ request'[r].read.attempts = challenges'[request'[r].of].attempts
    BY <2>2 DEF At, IInv, ReadIsLocked, VisitsFit
  <2>. QED
    BY <2>1, <2>2 DEF ReadIsLocked
<1>5. GuessesAreCounted'
  BY <1>1 DEF IInv, GuessesAreCounted
<1>6. SessionsAreBought' /\ VerifiedIsFirst'
  BY <1>1, NothingBought
<1>. QED
  BY <1>2, <1>3, <1>4, <1>5, <1>6 DEF IInv

\* The same while no request moves.
LEMMA StillStep ==
  ASSUME Parameters, TypeOK, IInv, Len(challenges') = Len(challenges),
         \A c \in Issued : /\ challenges'[c].state = challenges[c].state
                           /\ challenges'[c].attempts = challenges[c].attempts,
         UNCHANGED <<sessions, guesses, request, holder>>
  PROVE  IInv'
<1>1. Issued' = Issued
  BY DEF Issued
<1>2. VisitsFit' /\ NewestIsOpen' /\ ReadIsLocked' /\ GuessesAreCounted'
  BY <1>1
    DEF IInv, VisitsFit, NewestIsOpen, ReadIsLocked, GuessesAreCounted, At
<1>. QED
  BY <1>1, <1>2, NothingBought DEF IInv

\* A new challenge replaces all that were open, none of which is being checked.
LEMMA IssueStep ==
  ASSUME Parameters, TypeOK, IInv, NEW r \in Request, NEW S,
         challenges' = Append(Consumed(S), NewChallenge), Len(challenges) < MaxChallenge,
         Open \subseteq S,
         S = {} \/ \A v \in Request : ~At(v, "checking"),
         UNCHANGED <<sessions, guesses, holder>>,
         \A v \in Request \ {r} : request'[v] = request[v],
         \/ request'[r].at = "idle"
         \/ request'[r].at = "sending" /\ request'[r].of = Len(challenges) + 1
  PROVE  IInv'
<1>. DEFINE new == Len(challenges) + 1
<1>1. /\ Issued' = Issued \cup {new} /\ new \notin Issued /\ new \in 1..MaxChallenge
      /\ Len(challenges') = new
  BY AppendedRows, Rows DEF Issued, Parameters
<1>2. /\ challenges'[new] = NewChallenge
      /\ \A c \in Issued : /\ challenges'[c].attempts = challenges[c].attempts
                           /\ challenges'[c].state = IF c \in S THEN "consumed"
                                                     ELSE challenges[c].state
  BY AppendedRows
<1>3. \A c \in Issued : challenges'[c].state # "open"
  BY <1>2, Rows DEF Open
<1>4. VisitsFit'
  BY <1>1, Rows DEF IInv, VisitsFit, At, Parameters
<1>5. NewestIsOpen'
  BY <1>1, <1>3 DEF NewestIsOpen
<1>6. ReadIsLocked'
  <2>1. ASSUME NEW v \in Request, At(v, "checking")'
        PROVE  /\ holder' = v
               /\ request'[v].read.state = challenges'[request'[v].of].state
               /\ request'[v].read.attempts = challenges'[request'[v].of].attempts
    <3>1. request'[v] = request[v] /\ At(v, "checking")
      BY <2>1 DEF At
    <3>2. request[v].of \in Issued
      BY <3>1 DEF IInv, VisitsFit
    <3>3. S = {}
      BY <3>1
    <3>4. /\ challenges'[request[v].of].state = challenges[request[v].of].state
          /\ challenges'[request[v].of].attempts = challenges[request[v].of].attempts
      BY <1>2, <3>2, <3>3
    <3>. QED
      BY <3>1, <3>4 DEF IInv, ReadIsLocked
  <2>. QED
    BY <2>1 DEF ReadIsLocked
<1>7. GuessesAreCounted'
  <2>1. guesses[new] = 0 /\ challenges'[new].attempts = 0 /\ 0 <= MaxAttempts
    BY <1>1, <1>2 DEF IInv, GuessesAreCounted, NewChallenge, Parameters
  <2>2. \A c \in Issued :
          guesses[c] = challenges'[c].attempts /\ challenges'[c].attempts <= MaxAttempts
    BY <1>2 DEF IInv, GuessesAreCounted
  <2>3. \A c \in (1..MaxChallenge) \ Issued' : guesses[c] = 0
    BY <1>1 DEF IInv, GuessesAreCounted
  <2>. QED
    BY <1>1, <2>1, <2>2, <2>3 DEF GuessesAreCounted
<1>8. SessionsAreBought' /\ VerifiedIsFirst'
  BY <1>1, <1>2, NothingBought
<1>. QED
  BY <1>4, <1>5, <1>6, <1>7, <1>8 DEF IInv

\* One challenge may be ended, and counted once more, by a request that has it for itself.
LEMMA RowStep ==
  ASSUME Parameters, TypeOK, IInv, NEW r \in Request, NEW i \in Issued,
         Len(challenges') = Len(challenges), UNCHANGED sessions,
         \A c \in Issued \ {i} : /\ challenges'[c].state = challenges[c].state
                                 /\ challenges'[c].attempts = challenges[c].attempts,
         challenges'[i].state \in {"consumed", challenges[i].state},
         \/ challenges'[i].attempts = challenges[i].attempts /\ UNCHANGED guesses
         \/ /\ challenges[i].attempts < MaxAttempts
            /\ challenges'[i].attempts = challenges[i].attempts + 1
            /\ guesses' = [guesses EXCEPT ![i] = @ + 1],
         \A v \in Request \ {r} : request'[v] = request[v] /\ ~At(v, "checking"),
         request'[r].at = "idle"
  PROVE  IInv'
<1>1. Issued' = Issued /\ i \in 1..MaxChallenge
  BY Rows DEF Issued, IInv, VisitsFit, Parameters
<1>2. VisitsFit'
  BY <1>1 DEF IInv, VisitsFit, At
<1>3. NewestIsOpen'
  BY <1>1 DEF IInv, NewestIsOpen
<1>4. ReadIsLocked'
  BY DEF ReadIsLocked, At
<1>5. GuessesAreCounted'
  <2>1. guesses[i] = challenges[i].attempts /\ challenges[i].attempts \in Nat
    BY Rows DEF IInv, GuessesAreCounted, Challenge
  <2>2. guesses'[i] = challenges'[i].attempts /\ challenges'[i].attempts <= MaxAttempts
    <3>1. challenges[i].attempts <= MaxAttempts /\ MaxAttempts \in Nat
      BY DEF IInv, GuessesAreCounted, Parameters
    <3>2. guesses \in [1..MaxChallenge -> Nat]
      BY DEF TypeOK
    <3>3. CASE challenges'[i].attempts = challenges[i].attempts /\ UNCHANGED guesses
      BY <2>1, <3>1, <3>3
    <3>4. CASE /\ challenges[i].attempts < MaxAttempts
               /\ challenges'[i].attempts = challenges[i].attempts + 1
               /\ guesses' = [guesses EXCEPT ![i] = @ + 1]
      <4>1. guesses'[i] = guesses[i] + 1
        BY <1>1, <3>2, <3>4
      <4>. QED
        BY <2>1, <3>1, <3>4, <4>1
    <3>. QED
      BY <3>3, <3>4
  <2>3. \A c \in 1..MaxChallenge : c # i => guesses'[c] = guesses[c]
    BY DEF TypeOK
  <2>4. Issued \subseteq 1..MaxChallenge
    BY Rows DEF Issued, IInv, VisitsFit, Parameters
  <2>. QED
    BY <1>1, <2>2, <2>3, <2>4 DEF IInv, GuessesAreCounted
<1>6. SessionsAreBought' /\ VerifiedIsFirst'
  BY <1>1, NothingBought
<1>. QED
  BY <1>2, <1>3, <1>4, <1>5, <1>6 DEF IInv

\* A verified challenge was open, so that nothing was bought with it before.
LEMMA VerifyStep == ASSUME Parameters, TypeOK, IInv, NEW r \in Request, Verify(r) PROVE IInv'
<1>. DEFINE i == request[r].of
<1>1. /\ At(r, "checking") /\ i \in Issued /\ challenges[i].state = "open"
      /\ \A v \in Request \ {r} : ~At(v, "checking")
  BY DEF Verify, Usable, IInv, VisitsFit, ReadIsLocked
<1>2. /\ Len(challenges') = Len(challenges) /\ UNCHANGED guesses
      /\ \A c \in Issued : /\ challenges'[c].attempts = challenges[c].attempts
                           /\ challenges'[c].state =
                                IF c = i THEN "consumed" ELSE challenges[c].state
  BY ConsumedRows DEF Verify
<1>3. Issued' = Issued
  BY <1>2 DEF Issued
<1>4. \A v \in Request \ {r} : request'[v] = request[v]
  BY DEF Verify, Go, TypeOK
<1>5. \/ /\ request'[r] = Idle /\ sessions' = Append(sessions, i)
      \/ request'[r] = [at |-> "verified", of |-> i] /\ UNCHANGED sessions
  BY DEF Verify, Go, NewSession, TypeOK
<1>6. VisitsFit'
  BY <1>1, <1>2, <1>3, <1>4, <1>5 DEF IInv, VisitsFit, At, Idle
<1>7. NewestIsOpen' /\ GuessesAreCounted'
  BY <1>2, <1>3 DEF IInv, NewestIsOpen, GuessesAreCounted
<1>8. ReadIsLocked'
  BY <1>1, <1>4, <1>5 DEF ReadIsLocked, At, Idle
<1>9. \A s \in DOMAIN sessions : sessions[s] \in Issued /\ sessions[s] # i
  BY <1>1 DEF IInv, SessionsAreBought
<1>10. \A v \in Request : At(v, "verified") => request[v].of \in Issued /\ request[v].of # i
  BY <1>1 DEF IInv, VerifiedIsFirst, VisitsFit
<1>11. \A c \in Issued :
         challenges[c].state = "consumed" \/ c = i => challenges'[c].state = "consumed"
  BY <1>2
<1>12. SessionsAreBought'
  <2>1. CASE UNCHANGED sessions
    BY <1>3, <1>11, <2>1 DEF IInv, SessionsAreBought
  <2>2. CASE sessions' = Append(sessions, i)
    <3>1. /\ DOMAIN sessions = 1..Len(sessions) /\ Len(sessions) \in Nat
          /\ DOMAIN sessions' = 1..Len(sessions) + 1
          /\ sessions'[Len(sessions) + 1] = i
          /\ \A s \in DOMAIN sessions : sessions'[s] = sessions[s]
      <4>1. i \in 1..MaxChallenge
        BY <1>1, Visits
      <4>. QED
        BY <2>2, <4>1, AppendProperties, LenProperties DEF TypeOK
    <3>2. ASSUME NEW s \in DOMAIN sessions'
          PROVE  /\ sessions'[s] \in Issued' /\ challenges'[sessions'[s]].state = "consumed"
                 /\ \A t \in DOMAIN sessions' : sessions'[s] = sessions'[t] => s = t
      BY <1>1, <1>3, <1>9, <1>11, <3>1 DEF IInv, SessionsAreBought
    <3>. QED
      BY <3>2 DEF SessionsAreBought
  <2>. QED
    BY <1>5, <2>1, <2>2
<1>13. VerifiedIsFirst'
  <2>1. CASE request'[r] = Idle /\ sessions' = Append(sessions, i)
    <3>1. \A s \in DOMAIN sessions' :
            sessions'[s] = i \/ \E t \in DOMAIN sessions : sessions'[s] = sessions[t]
      <4>1. i \in 1..MaxChallenge
        BY <1>1, Visits
      <4>. QED
        BY <2>1, <4>1, AppendProperties, LenProperties DEF TypeOK
    <3>2. ASSUME NEW v \in Request, At(v, "verified")'
          PROVE  /\ v # r /\ At(v, "verified")
                 /\ request'[v] = request[v] /\ request[v].of \in Issued
      BY <1>4, <1>10, <2>1, <3>2 DEF At, Idle
    <3>. QED
      BY <1>10, <1>11, <3>1, <3>2 DEF IInv, VerifiedIsFirst
  <2>2. CASE request'[r] = [at |-> "verified", of |-> i] /\ UNCHANGED sessions
    <3>1. ASSUME NEW v \in Request, v # r, At(v, "verified")'
          PROVE  /\ At(v, "verified") /\ request'[v] = request[v]
                 /\ request[v].of \in Issued /\ request[v].of # i
      BY <1>4, <1>10, <3>1 DEF At
    <3>2. ASSUME NEW v \in Request, At(v, "verified")'
          PROVE  /\ challenges'[request'[v].of].state = "consumed"
                 /\ \A s \in DOMAIN sessions' : sessions'[s] # request'[v].of
                 /\ \A u \in Request :
                      At(u, "verified")' /\ request'[u].of = request'[v].of => u = v
      <4>1. CASE v = r
        BY <1>1, <1>9, <1>11, <2>2, <3>1, <4>1
      <4>2. CASE v # r
        BY <1>11, <2>2, <3>1, <3>2, <4>2 DEF IInv, VerifiedIsFirst
      <4>. QED
        BY <4>1, <4>2
    <3>. QED
      BY <3>2 DEF VerifiedIsFirst
  <2>. QED
    BY <1>5, <2>1, <2>2
<1>. QED
  BY <1>6, <1>7, <1>8, <1>12, <1>13 DEF IInv

\* The session of a verified challenge is the first it buys.
LEMMA SessionStep ==
  ASSUME Parameters, TypeOK, IInv, NEW r \in Request, CreateAccessToken(r) PROVE IInv'
<1>. DEFINE i == request[r].of
<1>1. /\ At(r, "verified") /\ i \in Issued /\ i \in 1..MaxChallenge
      /\ challenges[i].state = "consumed"
      /\ UNCHANGED <<challenges, holder, guesses>> /\ sessions' = Append(sessions, i)
  BY Visits DEF CreateAccessToken, NewSession, IInv, VisitsFit, VerifiedIsFirst
<1>2. Issued' = Issued
  BY <1>1 DEF Issued
<1>3. request'[r] = Idle /\ \A v \in Request \ {r} : request'[v] = request[v]
  BY DEF CreateAccessToken, Go, TypeOK
<1>4. /\ DOMAIN sessions = 1..Len(sessions) /\ Len(sessions) \in Nat
      /\ DOMAIN sessions' = 1..Len(sessions) + 1
      /\ sessions'[Len(sessions) + 1] = i
      /\ \A s \in DOMAIN sessions : sessions'[s] = sessions[s]
  BY <1>1, AppendProperties, LenProperties DEF TypeOK
<1>5. \A s \in DOMAIN sessions : sessions[s] # i
  BY <1>1 DEF IInv, VerifiedIsFirst
<1>6. VisitsFit' /\ NewestIsOpen' /\ ReadIsLocked' /\ GuessesAreCounted'
  BY <1>1, <1>2, <1>3
    DEF IInv, VisitsFit, NewestIsOpen, ReadIsLocked, GuessesAreCounted, At, Idle
<1>7. SessionsAreBought'
  <2>1. ASSUME NEW s \in DOMAIN sessions'
        PROVE  /\ sessions'[s] \in Issued' /\ challenges'[sessions'[s]].state = "consumed"
               /\ \A t \in DOMAIN sessions' : sessions'[s] = sessions'[t] => s = t
    BY <1>1, <1>2, <1>4, <1>5 DEF IInv, SessionsAreBought
  <2>. QED
    BY <2>1 DEF SessionsAreBought
<1>8. VerifiedIsFirst'
  <2>1. ASSUME NEW v \in Request, At(v, "verified")'
        PROVE  v # r /\ At(v, "verified") /\ request'[v] = request[v] /\ request[v].of # i
    <3>1. v # r
      BY <1>3, <2>1 DEF At, Idle
    <3>2. At(v, "verified") /\ request'[v] = request[v]
      BY <1>3, <2>1, <3>1 DEF At
    <3>. QED
      BY <1>1, <3>1, <3>2 DEF IInv, VerifiedIsFirst
  <2>. QED
    BY <1>1, <1>4, <2>1 DEF IInv, VerifiedIsFirst
<1>. QED
  BY <1>6, <1>7, <1>8 DEF IInv

\* Every step keeps the invariant.
LEMMA Step == ASSUME Parameters, TypeOK, IInv, [Next]_vars PROVE IInv'
<1>. USE DEF Go
<1>1. ASSUME NEW r \in Request, RequestCode(r) PROVE IInv'
  <2>1. request'[r].at = "issuing" /\ request'[r].read \subseteq Issued
    BY <1>1, Rows DEF RequestCode, TypeOK, Open
  <2>. QED
    BY <1>1, <2>1, QuietStep DEF RequestCode, TypeOK
<1>2. ASSUME NEW r \in Request, IssueOtp(r) PROVE IInv'
  <2>1. ~At(r, "checking") /\ MayLock(r) /\ UNCHANGED <<sessions, guesses, holder>>
    BY <1>2 DEF IssueOtp, At
  <2>2. CASE UNCHANGED challenges /\ Go(r, Idle)
    BY <2>1, <2>2, QuietStep DEF TypeOK, Idle
  <2>3. CASE /\ Newest < MaxChallenge
             /\ challenges' = Append(Consumed(Open), NewChallenge)
             /\ Go(r, [at |-> "sending", of |-> Newest + 1])
    BY <2>1, <2>3, NobodyChecks, IssueStep DEF TypeOK, Newest
  <2>. QED
    BY <1>2, <2>2, <2>3 DEF IssueOtp
<1>3. ASSUME NEW r \in Request, SendOtp(r) PROVE IInv'
  <2>1. request[r].of \in Issued /\ UNCHANGED <<sessions, guesses, holder>> /\ ~At(r, "checking")
    BY <1>3 DEF SendOtp, IInv, VisitsFit, At
  <2>2. request'[r].at = "idle" /\ \A v \in Request \ {r} : request'[v] = request[v]
    BY <1>3 DEF SendOtp, TypeOK, Idle
  <2>3. PICK row \in Challenge :
          /\ challenges' = [challenges EXCEPT ![request[r].of] = row]
          /\ row.attempts = challenges[request[r].of].attempts
          /\ \/ row.state = challenges[request[r].of].state
             \/ row.state = "consumed" /\ MayLock(r)
    BY <1>3, <2>1, SentRow
  <2>4. /\ Len(challenges') = Len(challenges) /\ challenges'[request[r].of] = row
        /\ \A c \in Issued \ {request[r].of} : challenges'[c] = challenges[c]
    BY <2>1, <2>3, RowWritten
  <2>5. CASE row.state = "consumed" /\ MayLock(r)
    <3>1. \A v \in Request : ~At(v, "checking")
      BY <2>1, <2>5, NobodyChecks
    <3>. QED
      BY <2>1, <2>2, <2>3, <2>4, <2>5, <3>1, RowStep
  <2>6. CASE row.state = challenges[request[r].of].state
    <3>1. \A c \in Issued : /\ challenges'[c].state = challenges[c].state
                            /\ challenges'[c].attempts = challenges[c].attempts
      BY <2>3, <2>4, <2>6
    <3>. QED
      BY <2>1, <2>2, <2>4, <3>1, QuietStep
  <2>. QED
    BY <2>3, <2>5, <2>6
<1>4. ASSUME NEW r \in Request, IssuePin(r) PROVE IInv'
  <2>. DEFINE read == request[r].read
  <2>1. /\ ~At(r, "checking") /\ UNCHANGED <<sessions, guesses, holder>>
        /\ request'[r].at = "idle" /\ \A v \in Request \ {r} : request'[v] = request[v]
    BY <1>4 DEF IssuePin, At, TypeOK, Idle
  <2>2. CASE UNCHANGED challenges
    BY <2>1, <2>2, QuietStep
  <2>3. CASE /\ Open \ read = {} /\ Newest < MaxChallenge /\ (read # {} => MayLock(r))
             /\ challenges' = Append(Consumed(read), NewChallenge)
    <3>1. read = {} \/ \A v \in Request : ~At(v, "checking")
      BY <2>1, <2>3, NobodyChecks
    <3>. QED
      BY <2>1, <2>3, <3>1, IssueStep DEF Newest
  <2>. QED
    BY <1>4, <2>2, <2>3 DEF IssuePin
<1>5. ASSUME NEW r \in Request, NEW right \in BOOLEAN, ReadChallenge(r, right) PROVE IInv'
  <2>1. \A v \in Request : ~At(v, "checking")
    BY <1>5, NobodyChecks DEF ReadChallenge, At
  <2>2. /\ UNCHANGED <<challenges, sessions, guesses>> /\ holder' = r
        /\ request'[r] = [at |-> "checking", of |-> Newest, right |-> right,
                          read |-> challenges[Newest]]
        /\ \A v \in Request \ {r} : request'[v] = request[v]
    BY <1>5 DEF ReadChallenge, TypeOK
  <2>3. Newest \in Issued
    BY <1>5, Rows DEF ReadChallenge, Newest, Issued
  <2>. QED
    BY <2>1, <2>2, <2>3, QuietStep
<1>6. ASSUME NEW r \in Request, Deny(r) PROVE IInv'
  <2>. DEFINE c == request[r].of
              read == request[r].read
  <2>1. /\ At(r, "checking") /\ c \in Issued /\ read \in Challenge
        /\ read.attempts = challenges[c].attempts
        /\ \A v \in Request \ {r} : ~At(v, "checking")
    BY <1>6, Visits DEF Deny, IInv, VisitsFit, ReadIsLocked
  <2>2. /\ UNCHANGED sessions /\ request'[r].at = "idle"
        /\ \A v \in Request \ {r} : request'[v] = request[v]
    BY <1>6 DEF Deny, TypeOK, Idle
  <2>3. CASE UNCHANGED <<challenges, guesses>>
    BY <2>1, <2>2, <2>3, QuietStep
  <2>4. CASE /\ Usable(read)
             /\ challenges' = [challenges EXCEPT
                  ![c].attempts = read.attempts + 1,
                  ![c].state = IF Ends(read) THEN "consumed" ELSE @]
             /\ guesses' = [guesses EXCEPT ![c] = @ + 1]
    <3>1. read.attempts < MaxAttempts
      BY <2>4 DEF Usable
    <3>2. PICK row \in Challenge :
            /\ challenges' = [challenges EXCEPT ![c] = row]
            /\ row.attempts = read.attempts + 1
            /\ row.state \in {"consumed", challenges[c].state}
      <4>1. Guessed(r)
        BY <2>4 DEF Guessed
      <4>. QED
        BY <2>1, <4>1, CountedRow
    <3>. HIDE DEF c, read
    <3>3. /\ Len(challenges') = Len(challenges) /\ challenges'[c] = row
          /\ \A d \in Issued \ {c} : challenges'[d] = challenges[d]
      BY <2>1, <3>2, RowWritten
    <3>4. /\ challenges[c].attempts < MaxAttempts
          /\ challenges'[c].attempts = challenges[c].attempts + 1
          /\ challenges'[c].state \in {"consumed", challenges[c].state}
          /\ guesses' = [guesses EXCEPT ![c] = @ + 1]
      BY <2>1, <2>4, <3>1, <3>2, <3>3
    <3>5. /\ c \in Issued
          /\ \A v \in Request \ {r} : request'[v] = request[v] /\ ~At(v, "checking")
      BY <2>1, <2>2
    <3>6. \A d \in Issued \ {c} : /\ challenges'[d].state = challenges[d].state
                                 /\ challenges'[d].attempts = challenges[d].attempts
      BY <3>3
    <3>. QED
      BY <2>2, <3>3, <3>4, <3>5, <3>6, RowStep
  <2>5. CASE challenges' = Consumed({c}) /\ UNCHANGED guesses
    BY <2>1, <2>2, <2>5, ConsumedRows, RowStep
  <2>. QED
    BY <1>6, <2>3, <2>4, <2>5 DEF Deny
<1>7. ASSUME NEW r \in Request, Verify(r) \/ CreateAccessToken(r) PROVE IInv'
  BY <1>7, VerifyStep, SessionStep
<1>8. ASSUME NEW r \in Request, Lost(r) PROVE IInv'
  <2>1. \A v \in Request \ {r} : At(v, "checking") => holder' = holder
    BY <1>8 DEF Lost, IInv, ReadIsLocked
  <2>. QED
    BY <1>8, <2>1, QuietStep DEF Lost, TypeOK, Idle
<1>9. ASSUME NEW c \in DOMAIN challenges, Pass(c) PROVE IInv'
  <2>1. /\ Len(challenges') = Len(challenges)
        /\ \A d \in Issued : /\ challenges'[d].attempts = challenges[d].attempts
                             /\ challenges'[d].state = challenges[d].state
    BY <1>9, Rows, PassedRow, NewRows
  <2>. QED
    BY <1>9, <2>1, StillStep DEF Pass
<1>10. CASE Approve \/ UNCHANGED vars
  BY <1>10, StillStep DEF Approve, vars
<1>. QED
  BY <1>1, <1>2, <1>3, <1>4, <1>5, <1>6, <1>7, <1>8, <1>9, <1>10 DEF Next

\* No challenge, no session, and no request under way.
LEMMA InitOK == ASSUME Parameters, Init PROVE TypeOK /\ IInv
<1>1. challenges = <<>> /\ sessions = <<>> /\ Issued = {} /\ DOMAIN sessions = {}
  BY DEF Init, Issued
<1>2. TypeOK
  BY <1>1 DEF Init, TypeOK, Visit, Idle, Parameters
<1>3. IInv
  BY <1>1 DEF Init, IInv, VisitsFit, NewestIsOpen, ReadIsLocked, GuessesAreCounted,
    SessionsAreBought, VerifiedIsFirst, At, Idle, Parameters
<1>. QED
  BY <1>2, <1>3

\* The two are inductive together.
LEMMA Invariance == ASSUME Parameters PROVE Spec => [](TypeOK /\ IInv)
<1>1. Init => TypeOK /\ IInv
  BY InitOK
<1>2. TypeOK /\ IInv /\ [Next]_vars => (TypeOK /\ IInv)'
  BY TypeStep, Step
<1>. QED
  BY <1>1, <1>2, PTL DEF Spec

-----------------------------------------------------------------------------
(* The theorems *)

\* Every variable keeps its type.
THEOREM TypeCorrect == ASSUME Parameters PROVE Spec => []TypeOK
BY Invariance, PTL

\* However requests are interleaved and lost and deliveries fail late, a challenge buys one
\* session at most, it answers MaxAttempts wrong codes at most, and one is open at most.
THEOREM OneSession == ASSUME Parameters PROVE Spec => []OneChallengeOneSession
<1>1. TypeOK /\ IInv => OneChallengeOneSession
  <2>. SUFFICES ASSUME TypeOK, IInv PROVE OneChallengeOneSession
    OBVIOUS
  <2>1. \A s, t \in DOMAIN sessions : sessions[s] = sessions[t] => s = t
    BY DEF IInv, SessionsAreBought
  <2>2. \A c \in DOMAIN challenges : guesses[c] <= MaxAttempts
    BY Rows DEF IInv, GuessesAreCounted
  <2>3. Cardinality(Open) <= 1
    <3>1. Open \subseteq {Newest}
      BY Rows DEF Open, Newest, IInv, NewestIsOpen
    <3>2. IsFiniteSet({Newest}) /\ Cardinality({Newest}) = 1
      BY FS_Singleton
    <3>3. Cardinality(Open) \in Nat /\ Cardinality(Open) <= Cardinality({Newest})
      BY <3>1, <3>2, FS_Subset, FS_CardinalityType
    <3>. QED
      BY <3>2, <3>3
  <2>. QED
    BY <2>1, <2>2, <2>3 DEF OneChallengeOneSession
<1>. QED
  BY <1>1, Invariance, PTL

=============================================================================
