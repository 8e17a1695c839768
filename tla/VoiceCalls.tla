----------------------------- MODULE VoiceCalls -----------------------------
(***************************************************************************)
(* Voice calls: the gateway that answers them (app/voice/gateway.py) and   *)
(* the life of a session up to its release (app/voice/session.py), with    *)
(* webhooks that are late, repeated and out of order, signaling calls that *)
(* fail, and restarts of the one process.  What is said in a call is in    *)
(* VoiceTurns.                                                             *)
(***************************************************************************)
EXTENDS Integers, FiniteSets

CONSTANTS
  Call,        \* calls, and numbers of those who call
  None,
  MaxFailures  \* bound: restarts of the process, and calls of others that fail

VARIABLES
  places,    \* whatsapp_call_max_concurrent
  phone,     \* the number each call comes from
  remote,    \* each call at the provider: absent, ringing, answered, ended
  mark,      \* its tombstone in Redis: none, claimed, ended
  admission, \* the connect webhook that holds the gateway's lock, or None
  hangups,   \* terminate webhooks that set the tombstone, and go on to the session
  session,   \* for each call its session, or None
  answers,   \* how often each call was answered
  failures,  \* those there were
  lost       \* calls whose end could not be signalled, or that a restart met

setting == <<places, phone>>
vars == <<setting, remote, mark, admission, hangups, session, answers, failures, lost>>

Setups == {"offer", "accept", "answered", "undo"}

Admission == [call : Call, at : {"admit", "authorize", "read", "create"}]
Session ==
  [setup : Setups \cup {"done"}, closed : BOOLEAN, worker : {"none", "running"},
   listed : BOOLEAN, notify : BOOLEAN]

TypeOK ==
  /\ places \in Nat /\ phone \in [Call -> Call]
  /\ remote \in [Call -> {"absent", "ringing", "answered", "ended"}]
  /\ mark \in [Call -> {"none", "claimed", "ended"}]
  /\ admission \in Admission \cup {None}
  /\ hangups \subseteq Call
  /\ session \in [Call -> Session \cup {None}]
  /\ answers \in [Call -> 0..2] /\ failures \in 0..MaxFailures /\ lost \subseteq Call

Init ==
  /\ places \in 1..Cardinality(Call) /\ phone \in [Call -> Call]
  /\ remote = [c \in Call |-> "absent"] /\ mark = [c \in Call |-> "none"]
  /\ admission = None /\ hangups = {} /\ session = [c \in Call |-> None]
  /\ answers = [c \in Call |-> 0] /\ failures = 0 /\ lost = {}

SamePhone(c, d) == phone[c] = phone[d]

-----------------------------------------------------------------------------
(* The provider and the caller. *)

Ring(c) ==
  /\ remote[c] = "absent"
  /\ remote' = [remote EXCEPT ![c] = "ringing"]
  /\ UNCHANGED <<mark, admission, hangups, session, answers, failures, lost>>

HangUp(c) ==
  /\ remote[c] \in {"ringing", "answered"}
  /\ remote' = [remote EXCEPT ![c] = "ended"]
  /\ UNCHANGED <<mark, admission, hangups, session, answers, failures, lost>>

Fails == failures < MaxFailures /\ failures' = failures + 1

\* The call is terminated or rejected, or the request to do so fails.
End(c) ==
  \/ remote' = [remote EXCEPT ![c] = "ended"] /\ UNCHANGED <<failures, lost>>
  \/ remote[c] # "ended" /\ Fails /\ lost' = lost \cup {c} /\ UNCHANGED remote

-----------------------------------------------------------------------------
(* The gateway: connect, under its lock. *)

Listed(c) == session[c] # None /\ session[c].listed
Live == {c \in Call : Listed(c)}
Release == admission' = None
To(stage) == admission' = [admission EXCEPT !.at = stage]

\* The call may have ended since, and the webhook may have been delivered before; one that
\* finds the session or its setup has nothing to do.
Connect(c) ==
  /\ remote[c] # "absent" /\ admission = None
  /\ session[c] # None => session[c].setup = "done" /\ ~Listed(c)
  /\ IF mark[c] = "none"
     THEN /\ mark' = [mark EXCEPT ![c] = "claimed"]
          /\ admission' = [call |-> c, at |-> "admit"]
          /\ UNCHANGED <<remote, failures, lost>>
     ELSE End(c) /\ UNCHANGED <<mark, admission>>
  /\ UNCHANGED <<hangups, session, answers>>

\* Mutant of Busy: a session that was closed does not count.
BusyOpen(c) ==
  LET live == {d \in Live : ~session[d].closed}
  IN Cardinality(live) >= places \/ \E d \in live : SamePhone(c, d)

\* The sessions the gateway holds, those included that were closed and have not drained.
Busy(c) ==
  Cardinality(Live) >= places \/ \E d \in Live : SamePhone(c, d)

Admit ==
  /\ admission # None /\ admission.at = "admit"
  /\ IF Busy(admission.call)
     THEN End(admission.call) /\ Release
     ELSE To("authorize") /\ UNCHANGED <<remote, failures, lost>>
  /\ UNCHANGED <<mark, hangups, session, answers>>

\* The caller may call, may not, or the database fails.
Authorize ==
  /\ admission # None /\ admission.at = "authorize"
  /\ \/ To("read") /\ UNCHANGED <<remote, failures, lost>>
     \/ End(admission.call) /\ Release
     \/ Fails /\ Release /\ UNCHANGED <<remote, lost>>
  /\ UNCHANGED <<mark, hangups, session, answers>>

\* Authorization yields; the tombstone is read again, and its reply comes later.
Recheck ==
  /\ admission # None /\ admission.at = "read"
  /\ IF mark[admission.call] = "claimed" THEN To("create") ELSE Release
  /\ UNCHANGED <<remote, mark, hangups, session, answers, failures, lost>>

Create ==
  /\ admission # None /\ admission.at = "create"
  /\ session' = [session EXCEPT ![admission.call] =
       [setup |-> "offer", closed |-> FALSE, worker |-> "none", listed |-> TRUE, notify |-> FALSE]]
  /\ Release
  /\ UNCHANGED <<remote, mark, hangups, answers, failures, lost>>

\* terminate: the tombstone first, then the session there is by then.
Terminate(c) ==
  /\ remote[c] = "ended" /\ c \notin hangups /\ mark[c] # "ended"
  /\ mark' = [mark EXCEPT ![c] = "ended"]
  /\ hangups' = hangups \cup {c}
  /\ UNCHANGED <<remote, admission, session, answers, failures, lost>>

-----------------------------------------------------------------------------
(* The session. *)

Now(c, new) == session' = [session EXCEPT ![c] = new]
Setting(c, stage) == session[c] # None /\ session[c].setup = stage

\* Mutant of Closed: closing gives the place free although the worker still runs.
ClosedFree(now, notify) ==
  IF now.closed THEN now
  ELSE [now EXCEPT !.closed = TRUE, !.notify = notify, !.listed = FALSE]

\* close: the first one counts.  It gives the place free only when there is no worker.
Closed(now, notify) ==
  IF now.closed THEN now
  ELSE [now EXCEPT !.closed = TRUE, !.notify = notify, !.listed = (now.worker = "running")]

HangupReaches(c) ==
  /\ c \in hangups
  /\ hangups' = hangups \ {c}
  /\ IF Listed(c) THEN Now(c, Closed(session[c], FALSE)) ELSE UNCHANGED session
  /\ UNCHANGED <<remote, mark, admission, answers, failures, lost>>

\* The connection fails, the call is over its time, the media stops, the assistant fails.
Breaks(c) ==
  /\ Listed(c) /\ ~session[c].closed
  /\ session[c].setup \in Setups \/ session[c].worker = "running"
  /\ Now(c, Closed(session[c], TRUE))
  /\ UNCHANGED <<remote, mark, admission, hangups, answers, failures, lost>>

\* start: negotiated and pre-accepted; a closed session goes no further.
PreAccept(c) ==
  /\ Setting(c, "offer")
  /\ \/ /\ remote[c] # "ended"
        /\ Now(c, [session[c] EXCEPT !.setup = IF session[c].closed THEN "done" ELSE "accept"])
     \/ Now(c, [Closed(session[c], TRUE) EXCEPT !.setup = "done"])
  /\ UNCHANGED <<remote, mark, admission, hangups, answers, failures, lost>>

\* The provider takes the answer of a call that rings.
Accept(c) ==
  /\ Setting(c, "accept") /\ remote[c] = "ringing"
  /\ remote' = [remote EXCEPT ![c] = "answered"]
  /\ answers' = [answers EXCEPT ![c] = @ + 1]
  /\ Now(c, [session[c] EXCEPT !.setup = "answered"])
  /\ UNCHANGED <<mark, admission, hangups, failures, lost>>

\* An error, or the deadline of the setup: whether or not the provider took the answer.
SetupFails(c) ==
  /\ session[c] # None /\ session[c].setup \in {"accept", "answered"}
  /\ \/ remote[c] = "ended" /\ UNCHANGED failures
     \/ Fails
  /\ Now(c, [Closed(session[c], TRUE) EXCEPT !.setup = "done"])
  /\ UNCHANGED <<remote, mark, admission, hangups, answers, lost>>

\* The reply: a session closed since takes the answer back.
Answered(c) ==
  /\ Setting(c, "answered")
  /\ Now(c, IF session[c].closed THEN [session[c] EXCEPT !.setup = "undo"]
            ELSE [session[c] EXCEPT !.setup = "done", !.worker = "running"])
  /\ UNCHANGED <<remote, mark, admission, hangups, answers, failures, lost>>

Undo(c) ==
  /\ Setting(c, "undo")
  /\ End(c)
  /\ Now(c, [session[c] EXCEPT !.setup = "done"])
  /\ UNCHANGED <<mark, admission, hangups, answers>>

\* close goes on to tell the provider.
Notify(c) ==
  /\ session[c] # None /\ session[c].notify
  /\ End(c)
  /\ Now(c, [session[c] EXCEPT !.notify = FALSE])
  /\ UNCHANGED <<mark, admission, hangups, answers>>

\* A call at Hermes cannot be cancelled: the worker ends when it is back.
Drain(c) ==
  /\ session[c] # None /\ session[c].worker = "running" /\ session[c].closed
  /\ Now(c, [session[c] EXCEPT !.worker = "none", !.listed = FALSE])
  /\ UNCHANGED <<remote, mark, admission, hangups, answers, failures, lost>>

\* The process restarts: only Redis and the provider remember.
Restart ==
  /\ Fails
  /\ lost' = lost \cup {c \in Call : session[c] # None}
               \cup (IF admission = None THEN {} ELSE {admission.call})
  /\ session' = [c \in Call |-> None] /\ admission' = None /\ hangups' = {}
  /\ UNCHANGED <<remote, mark, answers>>

Next ==
  /\ \/ \E c \in Call :
          \/ Ring(c) \/ HangUp(c) \/ Connect(c) \/ Terminate(c) \/ HangupReaches(c) \/ Breaks(c)
          \/ PreAccept(c) \/ Accept(c) \/ SetupFails(c) \/ Answered(c) \/ Undo(c) \/ Notify(c)
          \/ Drain(c)
     \/ Admit \/ Authorize \/ Recheck \/ Create \/ Restart
  /\ UNCHANGED setting

Spec == Init /\ [][Next]_vars

-----------------------------------------------------------------------------
(* Properties. *)

\* A call is answered at most once, whatever webhooks come again, late or to a process that
\* restarted; and the assistants at work, those of calls that are over included, are at most
\* as many as allowed and one for a caller.
AnsweredOnce ==
  LET working == {c \in Call : session[c] # None /\ session[c].worker = "running"}
  IN /\ \A c \in Call : answers[c] <= 1
     /\ Cardinality(working) <= places
     /\ \A c, d \in working : SamePhone(c, d) => c = d

\* A call the provider has as answered has an assistant, or somebody who is going to end it;
\* unless its end could not be signalled, or the process restarted.
NoCallIsForgotten ==
  \A c \in Call \ lost : remote[c] = "answered" =>
    /\ session[c] # None
    /\ \/ session[c].setup \in Setups \/ session[c].notify
       \/ session[c].worker = "running" /\ ~session[c].closed

=============================================================================
