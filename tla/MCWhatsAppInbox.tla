--------------------------- MODULE MCWhatsAppInbox ---------------------------
(***************************************************************************)
(* WhatsAppInbox for TLC in three scenes, each with the bounds that its    *)
(* interesting cases need; a behaviour plays one of them.  Workers are     *)
(* interchangeable, and so are streams.                                    *)
(***************************************************************************)
EXTENDS WhatsAppInbox, TLC

VARIABLE scene

\* Two chats of one stream with replies of one part, the message limit reached on the first;
\* two receipts of one stream, where a chat is answered with two parts; and two streams of one
\* receipt each, where a STOP or START of one races the reply of the other.
Scenes ==
  [limit  |-> [kinds |-> {"chat"}, parts |-> 1, notices |-> {0}],
   order  |-> [kinds |-> {"chat", "reset"}, parts |-> 2, notices |-> {}],
   optOut |-> [kinds |-> {"chat", "start", "stop"}, parts |-> 1, notices |-> {}]]

Received == {r \in Receipt : kind[r] # None}

\* The step stays within the bounds of its scene.
Played ==
  LET bounds == Scenes[scene] IN
  /\ \A r \in Received : kind[r] \in bounds.kinds /\ planned[r] \in {0, bounds.parts}
  /\ \A w \in Worker : part[w] = 0 => 0 \in bounds.notices
  /\ IF scene = "optOut"
     THEN \A r \in Received : r[2] = 1
     ELSE \A q, r \in Received : q[1] = r[1]

ScenesInit == Init /\ scene \in DOMAIN Scenes
ScenesNext == Next /\ UNCHANGED scene /\ Played'
ScenesSpec == ScenesInit /\ [][ScenesNext]_<<scene, vars>>

Symmetry == Permutations(Worker) \cup Permutations(Stream)

=============================================================================
