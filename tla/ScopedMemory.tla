---------------------------- MODULE ScopedMemory ----------------------------
(***************************************************************************)
(* One memory of one member: a private note or a shared fact               *)
(* (app/services/scoped_memory.py), proposed by the assistant's tools in a *)
(* run (mcp_business.py) and written by exact commands (handle_chat in     *)
(* chat.py), which the member sends in several chats at once.  A memory    *)
(* has the row of its owner, scope and key to itself: no operation writes  *)
(* two, and one by another member finds no row.                            *)
(***************************************************************************)
EXTENDS Integers, FiniteSets, TLC

CONSTANTS
  Chat,     \* the owner's chats
  Fact,     \* what a memory may say
  None,
  MaxWrites \* bound: writes of the memory

VARIABLES
  scope,
  mayShare, \* the owner of the memory is an owner or admin of the business
  row,      \* the memory
  command,  \* the command that is handled in a chat, or None
  previews, \* proposals that were shown: [code, fact, chat]
  typed,    \* the codes the owner sent: [code, chat]
  replaced  \* what the last write replaced without its author having seen it, or None

vars == <<scope, mayShare, row, command, previews, typed, replaced>>

NoRow == [status |-> "none", fact |-> None, revision |-> 0, pending |-> None]

Content  == Fact \cup {None}
Proposal == [fact : Fact, code : 1..MaxWrites, chat : Chat, revision : 1..MaxWrites]
Row ==
  [status : {"none", "active", "pending_review", "deleted"}, fact : Content,
   revision : 0..MaxWrites, pending : Proposal \cup {None}]
Command ==
  [kind : {"save", "forget"}, at : {"sent"}, fact : Content, revision : 0..MaxWrites, saw : Content]
  \cup [kind : {"share"}, at : {"sent"}, code : 1..MaxWrites]
  \cup [kind : {"share"}, at : {"read"}, code : 1..MaxWrites, revision : 0..MaxWrites, saw : Content]

TypeOK ==
  /\ scope \in {"private", "shared"} /\ mayShare \in BOOLEAN
  /\ row \in Row
  /\ command \in [Chat -> Command \cup {None}]
  /\ previews \subseteq [code : 1..MaxWrites, fact : Fact, chat : Chat]
  /\ typed \subseteq [code : 1..MaxWrites, chat : Chat]
  /\ replaced \in Content

Init ==
  /\ scope \in {"private", "shared"} /\ mayShare = TRUE
  /\ row = NoRow /\ command = [x \in Chat |-> None]
  /\ previews = {} /\ typed = {} /\ replaced = None

-----------------------------------------------------------------------------
(* The rules every write obeys. *)

\* Mutant of Owned: whatever revision the row has.
OwnedAnyRevision(revision) == row.status # "deleted"

\* The revision its author saw, and a forgotten key is not used again.
Owned(revision) == row.revision = revision /\ row.status # "deleted"

Write(new, saw) ==
  /\ row.revision < MaxWrites
  /\ row' = [new EXCEPT !.revision = row.revision + 1]
  /\ replaced' = IF row.fact = saw THEN None ELSE row.fact

Nothing == UNCHANGED <<row, replaced>>

\* What members recall: the owner a private note, all of them a shared fact.
Recalled == IF row.status = "active" THEN row.fact ELSE None

-----------------------------------------------------------------------------
(* The members. *)

SetRole ==
  /\ mayShare' = ~mayShare
  /\ UNCHANGED <<scope, row, command, previews, typed, replaced>>

Sends(x, new) == command[x] = None /\ command' = [command EXCEPT ![x] = new]

\* A member names the revision they see; the message is handled later.
Send(x, kind, fact) ==
  /\ kind = "save" => scope = "private"
  /\ Sends(x, [kind |-> kind, at |-> "sent", fact |-> fact,
               revision |-> row.revision, saw |-> row.fact])
  /\ UNCHANGED <<scope, mayShare, row, previews, typed, replaced>>

\* The code of any preview, in any chat.
SendShare(x, p) ==
  /\ Sends(x, [kind |-> "share", at |-> "sent", code |-> p.code])
  /\ typed' = typed \cup {[code |-> p.code, chat |-> x]}
  /\ UNCHANGED <<scope, mayShare, row, previews, replaced>>

\* A proposal is over its 15 minutes.
Expire ==
  /\ row.pending # None
  /\ row' = [row EXCEPT !.pending = None]
  /\ UNCHANGED <<scope, mayShare, command, previews, typed, replaced>>

-----------------------------------------------------------------------------
(* The assistant's tools. *)

\* The tool knows the revision it listed.  A run of a chat excludes the handling of a command
\* there.  What is recalled stays what it was until the proposal is confirmed.
Propose(x, fact) ==
  /\ scope = "shared" /\ mayShare
  /\ command[x] # None => command[x].at = "sent"
  /\ row.status # "deleted"
  /\ LET next == row.revision + 1
     IN /\ Write([row EXCEPT
             !.status = IF @ = "none" THEN "pending_review" ELSE @,
             !.pending = [fact |-> fact, code |-> next, chat |-> x, revision |-> next]], row.fact)
        /\ previews' = previews \cup {[code |-> next, fact |-> fact, chat |-> x]}
  /\ UNCHANGED <<scope, mayShare, command, typed>>

-----------------------------------------------------------------------------
(* The commands. *)

Handles(x, kind) ==
  /\ command[x] # None /\ command[x].kind = kind
  /\ command' = [command EXCEPT ![x] = None]
  /\ UNCHANGED <<scope, mayShare, previews, typed>>

\* REMEMBER PRIVATE.
Save(x) ==
  /\ Handles(x, "save")
  /\ IF Owned(command[x].revision)
     THEN Write([NoRow EXCEPT !.status = "active", !.fact = command[x].fact], command[x].saw)
     ELSE Nothing

\* FORGET MEMORY: the row stays, without its content.
Forget(x) ==
  /\ Handles(x, "forget")
  /\ IF Owned(command[x].revision) /\ row.status # "none"
     THEN Write([NoRow EXCEPT !.status = "deleted"], command[x].saw)
     ELSE Nothing

\* SHARE MEMORY: the revision is the one the row has when the command is handled; the row is
\* locked and read again after that.
ReadShare(x) ==
  /\ command[x] # None /\ command[x].kind = "share" /\ command[x].at = "sent"
  /\ command' = [command EXCEPT ![x] =
       [kind |-> "share", at |-> "read", code |-> command[x].code, revision |-> row.revision,
        saw |-> row.fact]]
  /\ UNCHANGED <<scope, mayShare, row, previews, typed, replaced>>

\* Mutant of Reviewed: whatever is proposed in the chat now.
ReviewedNow(x, code) == row.pending # None /\ row.pending.chat = x

\* The newest proposal, in the chat that showed it, by its code.
Reviewed(x, code) ==
  /\ row.pending # None
  /\ row.pending.revision = row.revision /\ row.pending.chat = x /\ row.pending.code = code

Share(x) ==
  /\ Handles(x, "share") /\ command[x].at = "read"
  /\ IF mayShare /\ Owned(command[x].revision) /\ Reviewed(x, command[x].code)
     THEN Write([NoRow EXCEPT !.status = "active", !.fact = row.pending.fact], command[x].saw)
     ELSE Nothing

Next ==
  \/ SetRole \/ Expire
  \/ \E x \in Chat :
       \/ \E f \in Fact : Send(x, "save", f) \/ Propose(x, f)
       \/ Send(x, "forget", None)
       \/ Save(x) \/ Forget(x)
       \/ \E p \in previews : SendShare(x, p)
       \/ ReadShare(x) \/ Share(x)

Spec == Init /\ [][Next]_vars

-----------------------------------------------------------------------------
(* Properties. *)

\* A fact that all members recall was shown to its owner as it is, and the owner sent the code of
\* that very preview in the chat that showed it; whatever was proposed before, since or in
\* another chat.
SharedIsReviewed ==
  scope = "shared" /\ Recalled # None =>
    \E p \in previews : p.fact = Recalled /\ [code |-> p.code, chat |-> p.chat] \in typed

\* No command replaces or forgets what its author had not seen.
NothingUnseenIsReplaced == replaced = None

=============================================================================
