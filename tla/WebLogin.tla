------------------------------ MODULE WebLogin ------------------------------
(***************************************************************************)
(* Signing in to the web application with one phone (app/routes/auth.py,   *)
(* app/core/security.py): a challenge is issued and, in mode otp, its code *)
(* sent over WhatsApp; a verified challenge is consumed and buys one       *)
(* session.  In mode pin the code is a configured one, nothing is sent,    *)
(* and a unique index admits one open challenge.                           *)
(***************************************************************************)
EXTENDS Integers, Sequences, FiniteSets

CONSTANTS
  Request,       \* concurrent requests
  None,
  MaxChallenge,  \* bound: challenges that are issued
  MaxSession,    \* bound: sessions that are created
  MaxAttempts    \* settings.otp_max_attempts

VARIABLES
  mode,        \* settings.auth_login_mode
  challenges,  \* committed rows of otp_sessions, the newest last
  holder,      \* the request that holds the phone's advisory lock or the challenge's row
  sessions,    \* for each row of auth_sessions the challenge that bought it
  approved,    \* whether the phone is mapped to an active member of an active tenant
  guesses,     \* wrong codes that were answered for each challenge
  request      \* requests under way

vars == <<mode, challenges, holder, sessions, approved, guesses, request>>

Challenge == [state : {"open", "consumed"}, attempts : Nat, expired : BOOLEAN, cool : BOOLEAN,
              delivered : BOOLEAN]
NewChallenge == [state |-> "open", attempts |-> 0, expired |-> FALSE, cool |-> FALSE,
                 delivered |-> FALSE]
Idle == [at |-> "idle"]

\* A request and what it keeps of the database while it is under way.
Visit ==
  {Idle}
  \cup [at : {"issuing"}, read : SUBSET (1..MaxChallenge)]
  \cup [at : {"sending", "verified"}, of : 1..MaxChallenge]
  \cup [at : {"checking"}, of : 1..MaxChallenge, right : BOOLEAN, read : Challenge]

TypeOK ==
  /\ mode \in {"otp", "pin"}
  /\ challenges \in Seq(Challenge) /\ sessions \in Seq(1..MaxChallenge)
  /\ holder \in Request \cup {None} /\ approved \in BOOLEAN
  /\ guesses \in [1..MaxChallenge -> 0..MaxAttempts + 1]
  /\ request \in [Request -> Visit]

Init ==
  /\ mode \in {"otp", "pin"}
  /\ challenges = <<>> /\ sessions = <<>>
  /\ holder = None /\ approved = TRUE
  /\ guesses = [c \in 1..MaxChallenge |-> 0]
  /\ request = [r \in Request |-> Idle]

At(r, step) == request[r].at = step
Go(r, new) == request' = [request EXCEPT ![r] = new]
Newest == Len(challenges)
Open == {c \in DOMAIN challenges : challenges[c].state = "open"}
Consumed(S) ==
  [c \in DOMAIN challenges |-> IF c \in S THEN [challenges[c] EXCEPT !.state = "consumed"]
                              ELSE challenges[c]]

-----------------------------------------------------------------------------
(* request_otp *)

\* Someone who is not approved gets the same answer and no challenge.
RequestCode(r) ==
  /\ At(r, "idle") /\ approved /\ Newest < MaxChallenge
  /\ Go(r, [at |-> "issuing", read |-> Open])
  /\ UNCHANGED <<mode, challenges, holder, sessions, approved, guesses>>

\* Mutant of MayLock: the phone is not locked.
Unlocked(r) == TRUE

\* The advisory lock of the phone, the row lock of its challenge.
MayLock(r) == holder \in {None, r}

\* issue_otp: the newest challenge waits out its cooldown, else all open ones are replaced.
IssueOtp(r) ==
  /\ mode = "otp" /\ At(r, "issuing") /\ MayLock(r)
  /\ IF Newest # 0 /\ challenges[Newest].state = "open" /\ ~challenges[Newest].cool
     THEN UNCHANGED challenges /\ Go(r, Idle)
     ELSE /\ Newest < MaxChallenge
          /\ challenges' = Append(Consumed(Open), NewChallenge)
          /\ Go(r, [at |-> "sending", of |-> Newest + 1])
  /\ UNCHANGED <<mode, holder, sessions, approved, guesses>>

\* The message arrives, or not, and a failure, also of one that arrived, ends the challenge.
SendOtp(r) ==
  /\ At(r, "sending")
  /\ \E delivered, failed \in BOOLEAN :
       /\ delivered \/ failed
       /\ failed => MayLock(r)
       /\ challenges' = [challenges EXCEPT
            ![request[r].of].delivered = delivered,
            ![request[r].of].state = IF failed THEN "consumed" ELSE @]
  /\ Go(r, Idle)
  /\ UNCHANGED <<mode, holder, sessions, approved, guesses>>

\* issue_temporary_web_pin_challenge: an unexpired one is kept; it was read before the write,
\* and the unique index refuses a second open one.
IssuePin(r) ==
  /\ mode = "pin" /\ At(r, "issuing")
  /\ LET read == request[r].read
         kept == {c \in read : ~challenges[c].expired}
     IN IF kept # {} \/ Open \ read # {} THEN UNCHANGED challenges
        ELSE /\ Newest < MaxChallenge /\ (read # {} => MayLock(r))
             /\ challenges' = Append(Consumed(read), NewChallenge)
  /\ Go(r, Idle)
  /\ UNCHANGED <<mode, holder, sessions, approved, guesses>>

-----------------------------------------------------------------------------
(* verify_code *)

\* The challenge is read under its lock: the newest of a phone, in mode pin the open one.
ReadChallenge(r, right) ==
  /\ At(r, "idle") /\ MayLock(r) /\ Newest # 0
  /\ mode = "otp" /\ right => challenges[Newest].delivered
  /\ holder' = r
  /\ Go(r, [at |-> "checking", of |-> Newest, right |-> right, read |-> challenges[Newest]])
  /\ UNCHANGED <<mode, challenges, sessions, approved, guesses>>

Usable(challenge) ==
  challenge.state = "open" /\ ~challenge.expired /\ challenge.attempts < MaxAttempts

\* In mode pin the last denied attempt also ends the challenge.
Ends(read) == mode = "pin" /\ read.attempts + 1 >= MaxAttempts

\* A denied attempt counts; a right code of someone who is not approved is consumed.
Deny(r) ==
  /\ At(r, "checking")
  /\ LET c == request[r].of
         read == request[r].read
     IN \/ /\ ~Usable(read) /\ UNCHANGED <<challenges, guesses>>
        \/ /\ Usable(read) /\ ~request[r].right
           /\ challenges' = [challenges EXCEPT
                ![c].attempts = read.attempts + 1,
                ![c].state = IF Ends(read) THEN "consumed" ELSE @]
           /\ guesses' = [guesses EXCEPT ![c] = @ + 1]
        \/ /\ Usable(read) /\ request[r].right /\ ~approved
           /\ challenges' = Consumed({c}) /\ UNCHANGED guesses
  /\ holder' = None /\ Go(r, Idle)
  /\ UNCHANGED <<mode, sessions, approved>>

NewSession(c) == sessions' = Append(sessions, c)

\* The challenge is consumed and, in mode pin by the same commit, the session created.
Verify(r) ==
  /\ At(r, "checking") /\ Usable(request[r].read) /\ request[r].right /\ approved
  /\ Len(sessions) < MaxSession
  /\ challenges' = Consumed({request[r].of})
  /\ holder' = None
  /\ IF mode = "pin" THEN NewSession(request[r].of) /\ Go(r, Idle)
     ELSE Go(r, [at |-> "verified", of |-> request[r].of]) /\ UNCHANGED sessions
  /\ UNCHANGED <<mode, approved, guesses>>

CreateAccessToken(r) ==
  /\ At(r, "verified") /\ Len(sessions) < MaxSession
  /\ NewSession(request[r].of) /\ Go(r, Idle)
  /\ UNCHANGED <<mode, challenges, holder, approved, guesses>>

\* A request is lost with its API process; its transaction is rolled back.
Lost(r) ==
  /\ ~At(r, "idle") /\ Go(r, Idle)
  /\ holder' = IF holder = r THEN None ELSE holder
  /\ UNCHANGED <<mode, challenges, sessions, approved, guesses>>

Pass(c) ==
  /\ challenges' \in {[challenges EXCEPT ![c].expired = TRUE], [challenges EXCEPT ![c].cool = TRUE]}
  /\ challenges' # challenges
  /\ UNCHANGED <<mode, holder, sessions, approved, guesses, request>>

\* A member is revoked or added again, a tenant suspended, the person opts out or in.
Approve ==
  /\ approved' = ~approved
  /\ UNCHANGED <<mode, challenges, holder, sessions, guesses, request>>

Next ==
  \/ \E r \in Request :
       \/ RequestCode(r) \/ IssueOtp(r) \/ SendOtp(r) \/ IssuePin(r)
       \/ Deny(r) \/ Verify(r) \/ CreateAccessToken(r) \/ Lost(r)
       \/ \E right \in BOOLEAN : ReadChallenge(r, right)
  \/ \E c \in DOMAIN challenges : Pass(c)
  \/ Approve

Spec == Init /\ [][Next]_vars

-----------------------------------------------------------------------------
(* Properties. *)

\* A challenge buys at most one session, it does so before MaxAttempts wrong codes, and there
\* is one open challenge at most: resends, lost answers, late failures of the delivery and
\* concurrent verifications do not bring an older one back.
OneChallengeOneSession ==
  /\ \A s, t \in DOMAIN sessions : sessions[s] = sessions[t] => s = t
  /\ \A c \in DOMAIN challenges : guesses[c] <= MaxAttempts
  /\ Cardinality(Open) <= 1

=============================================================================
