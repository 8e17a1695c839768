----------------------------- MODULE VoiceTurns -----------------------------
(***************************************************************************)
(* What is said in one call: the caller's turns, the answers to them, the  *)
(* track that plays them and the receipts that say what became of them     *)
(* (app/voice/session.py, backend.py and media.py).  The media tasks, the  *)
(* worker and the recorder are tasks of one loop, and their calls to the   *)
(* database, to Hermes and to the codec run in threads meanwhile.          *)
(***************************************************************************)
EXTENDS Integers, Sequences

CONSTANTS
  None,
  MaxReplies,  \* bound: answers of the assistant
  MaxOnsets    \* bound: how often the caller begins to speak

Reply == 1..MaxReplies

VARIABLES
  generation, \* of the output: an interruption makes the ones before stale
  speaking,   \* the caller speaks
  onsets,
  turn,       \* the queue of one turn: its generation, Stop or None
  worker,     \* where the assistant stands, with the turn and the answer it has
  track,      \* the answer the track holds, or None
  heard,      \* the answers the track played to their end
  updates,    \* receipts to record, in order
  receipt,    \* what the database has of each answer
  pending,    \* the answers the assistant has not settled
  closed, failed

vars == <<generation, speaking, onsets, turn, worker, track, heard, updates, receipt, pending,
          closed, failed>>
media == <<generation, speaking, onsets, track, heard>>
records == <<receipt, pending>>

\* No utterance is of generation 0: it stands for the end of the turns.
Stop == 0

States == {"none", "generated", "playing", "played", "interrupted"}
Terminal == {"played", "interrupted"}

Assistant ==
  [at : {"idle", "drain", "respond", "model", "speak", "play", "decode", "ending", "settle", "done"},
   turn : Nat, reply : 0..MaxReplies]
Output == [reply : Reply, of : Nat, started : BOOLEAN]

TypeOK ==
  /\ generation \in Nat /\ onsets \in 0..MaxOnsets
  /\ speaking \in BOOLEAN /\ closed \in BOOLEAN /\ failed \in BOOLEAN
  /\ turn \in {None} \cup Nat
  /\ worker \in Assistant
  /\ track \in Output \cup {None}
  /\ heard \subseteq Reply /\ pending \subseteq Reply
  /\ receipt \in [Reply -> States]
  /\ updates \in Seq(Reply \X States)

Init ==
  /\ generation = 0 /\ speaking = FALSE /\ onsets = 0 /\ turn = None
  /\ worker = [at |-> "idle", turn |-> 0, reply |-> 0]
  /\ track = None /\ heard = {} /\ updates = << >>
  /\ receipt = [n \in Reply |-> "none"] /\ pending = {}
  /\ closed = FALSE /\ failed = FALSE

Interruption(now) == IF now = None THEN << >> ELSE <<<<now.reply, "interrupted">>>>

-----------------------------------------------------------------------------
(* The caller and the track. *)

\* Speech silences the answer that plays.
Onset ==
  /\ ~closed /\ ~speaking /\ onsets < MaxOnsets
  /\ onsets' = onsets + 1
  /\ speaking' = TRUE
  /\ generation' = generation + 1
  /\ track' = None
  /\ updates' = updates \o Interruption(track)
  /\ UNCHANGED <<turn, worker, heard, receipt, pending, closed, failed>>

\* A newer utterance takes the place of one that waits.
Utterance ==
  /\ ~closed /\ speaking
  /\ speaking' = FALSE
  /\ turn' = generation
  /\ UNCHANGED <<generation, onsets, worker, track, heard, updates, records, closed, failed>>

Frame ==
  /\ ~closed /\ track # None
  /\ IF ~track.started
     THEN /\ track' = [track EXCEPT !.started = TRUE]
          /\ updates' = Append(updates, <<track.reply, "playing">>)
          /\ UNCHANGED heard
     ELSE /\ track' = None
          /\ updates' = Append(updates, <<track.reply, "played">>)
          /\ heard' = heard \cup {track.reply}
  /\ UNCHANGED <<generation, speaking, onsets, turn, worker, records, closed, failed>>

\* The caller hangs up, the call is over its time, the connection or a receipt fails: the track
\* is interrupted and stopped, and the turn that waits gives way to the end.
Close ==
  /\ ~closed
  /\ closed' = TRUE
  /\ generation' = generation + 2
  /\ track' = None
  /\ updates' = updates \o Interruption(track)
  /\ turn' = Stop
  /\ UNCHANGED <<speaking, onsets, worker, heard, records, failed>>

-----------------------------------------------------------------------------
(* The receipts. *)

\* A receipt that is terminal never changes, and only what plays was played.
Settled(now, state) ==
  IF \/ now = "generated" /\ state \in {"playing", "interrupted"}
     \/ now = "playing" /\ state \in Terminal
  THEN state ELSE now

Remaining(n, state) ==
  IF state \in Terminal /\ Settled(receipt[n], state) = state THEN pending \ {n} ELSE pending

Recorded(n, state) ==
  /\ receipt' = [receipt EXCEPT ![n] = Settled(@, state)]
  /\ pending' = Remaining(n, state)

\* Bound: the database fails once.
Unrecorded == ~failed /\ failed' = TRUE /\ UNCHANGED records

\* One after the other; one that fails is left, and the call will be closed.
Record ==
  /\ updates # << >>
  /\ updates' = Tail(updates)
  /\ \/ Recorded(Head(updates)[1], Head(updates)[2]) /\ UNCHANGED failed
     \/ Unrecorded
  /\ UNCHANGED <<media, turn, worker, closed>>

-----------------------------------------------------------------------------
(* The worker. *)

At(stage) == worker.at = stage
To(stage) == worker' = [worker EXCEPT !.at = stage]

\* A turn that was talked over is dropped.
Take ==
  /\ At("idle") /\ turn # None
  /\ worker' = [worker EXCEPT !.at = IF turn = Stop THEN "ending"
                                     ELSE IF turn = generation THEN "drain" ELSE "idle",
                              !.turn = IF turn = Stop THEN @ ELSE turn]
  /\ turn' = None
  /\ UNCHANGED <<media, updates, records, closed, failed>>

\* Mutant of Drained: the next request does not wait for the receipts.
DrainedAtOnce == TRUE

Drained == updates = << >>

Drain ==
  /\ At("drain") /\ Drained
  /\ To(IF closed THEN "ending" ELSE "respond")
  /\ UNCHANGED <<media, turn, updates, records, closed, failed>>

\* The utterance was not understood, or the call is over: an answer without a receipt, if any.
Misheard ==
  /\ At("respond")
  /\ To(IF closed THEN "ending" ELSE "idle")
  /\ UNCHANGED <<media, turn, updates, records, closed, failed>>

Ask ==
  /\ At("respond") /\ ~closed /\ worker.reply < MaxReplies
  /\ worker' = [worker EXCEPT !.at = "model", !.reply = @ + 1]
  /\ UNCHANGED <<media, turn, updates, records, closed, failed>>

Generate ==
  /\ At("model")
  /\ receipt' = [receipt EXCEPT ![worker.reply] = "generated"]
  /\ pending' = pending \cup {worker.reply}
  /\ To("speak")
  /\ UNCHANGED <<media, turn, updates, closed, failed>>

Spoken ==
  /\ At("speak") /\ ~closed
  /\ To("play")
  /\ UNCHANGED <<media, turn, updates, records, closed, failed>>

\* The call closed, or there is no audio: settled at once, and again when it is not played.
Unspoken ==
  /\ At("speak")
  /\ Recorded(worker.reply, "interrupted")
  /\ updates' = Append(updates, <<worker.reply, "interrupted">>)
  /\ To("idle")
  /\ UNCHANGED <<media, turn, closed, failed>>

NotPlayed ==
  /\ updates' = Append(updates, <<worker.reply, "interrupted">>)
  /\ To("idle")

Play ==
  /\ At("play")
  /\ IF closed \/ speaking \/ worker.turn # generation
     THEN NotPlayed
     ELSE To("decode") /\ UNCHANGED updates
  /\ UNCHANGED <<media, turn, records, closed, failed>>

\* Mutant of Current: what was said during the decoding does not matter once it is over.
CurrentEver == ~closed /\ ~speaking

\* enqueue compares the generation again.
Current == ~closed /\ ~speaking /\ worker.turn = generation

Enqueue ==
  /\ At("decode")
  /\ IF Current
     THEN /\ track' = [reply |-> worker.reply, of |-> worker.turn, started |-> FALSE]
          /\ To("idle") /\ UNCHANGED updates
     ELSE NotPlayed /\ UNCHANGED track
  /\ UNCHANGED <<generation, speaking, onsets, turn, heard, records, closed, failed>>

\* Authorization, the chat, the speech or the codec fails: the receipt says so first if it can,
\* then the call is closed.
Break ==
  /\ worker.at \in {"respond", "model", "speak", "decode"}
  /\ \/ At("speak") /\ Recorded(worker.reply, "interrupted") /\ UNCHANGED failed
     \/ At("speak") /\ Unrecorded
     \/ ~At("speak") /\ UNCHANGED <<records, failed>>
  /\ LET more == IF At("decode") THEN <<<<worker.reply, "interrupted">>>> ELSE << >>
     IN updates' = updates \o more \o (IF closed THEN << >> ELSE Interruption(track))
  /\ closed' = TRUE
  /\ generation' = IF closed THEN generation ELSE generation + 2
  /\ track' = IF closed THEN track ELSE None
  /\ turn' = IF closed THEN turn ELSE Stop
  /\ To("ending")
  /\ UNCHANGED <<speaking, onsets, heard>>

End ==
  /\ At("ending")
  /\ generation' = generation + 1
  /\ track' = None
  /\ updates' = updates \o Interruption(track)
  /\ To("settle")
  /\ UNCHANGED <<speaking, onsets, turn, heard, records, closed, failed>>

\* finish: what has no receipt yet was not played to its end.
Finish ==
  /\ At("settle") /\ updates = << >>
  /\ \/ /\ receipt' = [n \in Reply |->
                        IF n \in pending THEN Settled(receipt[n], "interrupted") ELSE receipt[n]]
        /\ pending' = {} /\ UNCHANGED failed
     \/ pending # {} /\ Unrecorded
  /\ To("done")
  /\ UNCHANGED <<media, turn, updates, closed>>

Next ==
  \/ Onset \/ Utterance \/ Frame \/ Close \/ Record
  \/ Take \/ Drain \/ Misheard \/ Ask \/ Generate \/ Spoken \/ Unspoken \/ Play \/ Enqueue
  \/ Break \/ End \/ Finish

Spec == Init /\ [][Next]_vars

-----------------------------------------------------------------------------
(* Properties. *)

\* While the assistant answers, the database says of every answer before whether the caller let
\* it end, so that the request knows what was heard.
RequestKnowsWhatWasHeard ==
  At("model") /\ ~failed => \A n \in 1..(worker.reply - 1) :
    receipt[n] # "none" => receipt[n] = IF n \in heard THEN "played" ELSE "interrupted"

\* Nothing plays that answers an utterance the caller has talked over, or when the call is over.
NoStaleAnswer == track # None => track.of = generation /\ ~speaking /\ ~closed

\* When the call is released, every answer is settled as it was heard.
SettledAtEnd ==
  At("done") /\ ~failed => \A n \in Reply :
    receipt[n] # "none" => receipt[n] = IF n \in heard THEN "played" ELSE "interrupted"

=============================================================================
