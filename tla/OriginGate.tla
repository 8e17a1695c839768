----------------------------- MODULE OriginGate -----------------------------
(***************************************************************************)
(* The gates of scripts/cloudflare_docker_firewall.py before the published *)
(* ports of Docker: for each address family one chain ahead of the DNAT,   *)
(* which does not need Docker, and one in Docker's own chain.  A gate lets *)
(* the ranges of its chain through; a chain without ranges denies all.     *)
(* The ranges are those of the persistent state file; systemd applies the  *)
(* first two gates before Docker starts and all four after it, and stops   *)
(* Docker when either fails.  One command runs at a time (a file lock); it *)
(* may fail at every step, be killed, or lose the host.                    *)
(***************************************************************************)
EXTENDS Integers, Sequences

CONSTANTS
  MaxSet  \* bound: Cloudflare publishes the range sets 1..MaxSet

VARIABLES
  gates,      \* gate |-> its chain and whether the parent chain enters it first
  kept,       \* the ranges of the state file
  saved,      \* what the backups hold of it
  docker,     \* never (since boot), down, starting (it serves, the unit is to apply), up
  installed,  \* whether the systemd units are installed
  tool,       \* the command that runs
  told        \* what the last command has said

vars == <<gates, kept, saved, docker, installed, tool, told>>

Deny == 0     \* the empty set of ranges
Missing == -1 \* no chain, no file
Ranges == 1..MaxSet
File == Ranges \cup {Missing}

PreGates == <<"pre4", "pre6">>
AllGates == PreGates \o <<"post4", "post6">>
Gate == {AllGates[i] : i \in 1..4}
Pre == {"pre4", "pre6"}

Unset == [chain |-> Missing, hooked |-> FALSE]
Holds(g, ranges) == gates[g] = [chain |-> ranges, hooked |-> TRUE]

Idle == [command |-> "none"]
Nothing == [said |-> "nothing"]
Commands == {"pregate", "unit", "apply", "refresh", "rollback"}

TypeOK ==
  /\ gates \in [Gate -> [chain : Ranges \cup {Deny, Missing}, hooked : BOOLEAN]]
  /\ kept \in File /\ saved \subseteq File
  /\ docker \in {"never", "down", "starting", "up"} /\ installed \in BOOLEAN
  /\ tool # Idle =>
       /\ tool.command \in Commands /\ tool.stage \in {"go", "undo", "deny"}
       /\ tool.ranges \in Ranges \cup {Deny} /\ tool.prior \in File
       /\ tool.write \in BOOLEAN /\ \E i \in 0..4 : Len(tool.todo) = i
  /\ told # Nothing => told.said \in {"applied", "denied", "failed"}

\* A host on which Docker serves without any gate.
Init ==
  /\ gates = [g \in Gate |-> Unset]
  /\ kept = Missing /\ saved = {}
  /\ docker = "up" /\ installed = FALSE
  /\ tool = Idle /\ told = Nothing

Serves == docker \in {"starting", "up"}
Present == \E g \in Gate : gates[g] # Unset
Verified(ranges) == \A g \in Gate : Holds(g, ranges)

-----------------------------------------------------------------------------
(* What a command does to the gates, one after the other. *)

\* A chain is replaced as a whole; Docker's gates need its parent chain.
ReplaceChain(g) ==
  /\ g \in Pre \/ docker # "never"
  /\ gates' = [gates EXCEPT ![g].chain = tool.ranges]

\* The hook is put first before the others are deleted.
EnsureFirstHook(g) == gates' = [gates EXCEPT ![g].hooked = TRUE]

FileFirst == tool.stage = "undo" /\ tool.write
NextGate == tool' = [tool EXCEPT !.todo = Tail(@)]

\* Mutant of ApplyGate: the hook is taken away and put back around the replacement.
UnhookReplaceHook ==
  /\ tool # Idle /\ tool.todo # <<>> /\ ~FileFirst
  /\ LET g == Head(tool.todo)
     IN CASE Holds(g, tool.ranges) -> NextGate /\ UNCHANGED gates
          [] ~Holds(g, tool.ranges) /\ gates[g].chain # tool.ranges ->
               /\ g \in Pre \/ docker # "never"
               /\ gates' = [gates EXCEPT ![g] = [chain |-> tool.ranges, hooked |-> FALSE]]
               /\ UNCHANGED tool
          [] OTHER -> EnsureFirstHook(g) /\ NextGate
  /\ UNCHANGED <<kept, saved, docker, installed, told>>

\* A gate that verifies is left alone.
ApplyGate ==
  /\ tool # Idle /\ tool.todo # <<>> /\ ~FileFirst
  /\ LET g == Head(tool.todo)
     IN CASE Holds(g, tool.ranges) -> NextGate /\ UNCHANGED gates
          [] ~Holds(g, tool.ranges) /\ gates[g].chain # tool.ranges ->
               ReplaceChain(g) /\ UNCHANGED tool
          [] OTHER -> EnsureFirstHook(g) /\ NextGate
  /\ UNCHANGED <<kept, saved, docker, installed, told>>

Start(command, stage, ranges, todo, write) ==
  tool' = [command |-> command, stage |-> stage, ranges |-> ranges, todo |-> todo,
           prior |-> kept, write |-> write]

GatesOf(command) == IF command = "pregate" THEN PreGates ELSE AllGates

\* apply-pregate-state and apply-state; a state that does not load has every gate denied.
BeginApply(command) ==
  /\ tool = Idle
  /\ IF kept = Missing THEN Start(command, "deny", Deny, GatesOf(command), FALSE)
     ELSE Start(command, "go", kept, GatesOf(command), FALSE)
  /\ told' = Nothing
  /\ UNCHANGED <<gates, kept, saved, installed>>

\* systemd starts the gate before Docker, the unit after it; either may be run by hand.
BeginPregate == BeginApply("pregate") /\ UNCHANGED docker
BeginUnit == docker = "starting" /\ BeginApply("unit") /\ UNCHANGED docker
BeginByHand == BeginApply("apply") /\ UNCHANGED docker

\* The lock is taken: the unit fails and its failure stops Docker.
UnitRefused ==
  /\ docker = "starting" /\ tool # Idle /\ tool.command # "unit"
  /\ docker' = "down"
  /\ UNCHANGED <<gates, kept, saved, installed, tool, told>>

\* A refresh wants the gates as the file has them, or none; then it takes a backup.
BeginRefresh(ranges) ==
  /\ tool = Idle /\ docker # "never"
  /\ IF kept = Missing THEN ~Present ELSE Verified(kept)
  /\ saved' = saved \cup {kept}
  /\ Start("refresh", "go", ranges, AllGates, TRUE)
  /\ told' = Nothing
  /\ UNCHANGED <<gates, kept, docker, installed>>

\* restore_backup writes the file first; without a prior one it denies and then unlinks.
BeginRollback(prior) ==
  /\ tool = Idle /\ prior \in saved
  /\ IF prior = Missing THEN Start("rollback", "go", Deny, AllGates, TRUE) /\ UNCHANGED kept
     ELSE Start("rollback", "go", prior, AllGates, FALSE) /\ kept' = prior
  /\ told' = Nothing
  /\ UNCHANGED <<gates, saved, docker, installed>>

-----------------------------------------------------------------------------
(* How a command ends. *)

Say(said) == told' = [said |-> said, of |-> GatesOf(tool.command), ranges |-> tool.ranges]

\* The unit of the first gates lets Docker start, the other ends its start.
Started ==
  docker' = CASE tool.command = "pregate" /\ docker \in {"never", "down"} -> "starting"
              [] tool.command = "unit" -> "up"
              [] OTHER -> docker
Stopped == docker' = IF tool.command = "unit" THEN "down" ELSE docker

\* The file is written, or unlinked by a rollback to none, after the gates verify.
Succeed ==
  /\ tool # Idle /\ tool.todo = <<>> /\ tool.stage = "go"
  /\ \A g \in Gate : (\E i \in DOMAIN GatesOf(tool.command) : GatesOf(tool.command)[i] = g)
                        => Holds(g, tool.ranges)
  /\ kept' = IF ~tool.write THEN kept ELSE IF tool.ranges = Deny THEN Missing ELSE tool.ranges
  /\ Say(IF tool.ranges = Deny THEN "denied" ELSE "applied")
  /\ Started /\ tool' = Idle
  /\ UNCHANGED <<gates, saved, installed>>

\* The write of the file may have taken effect although it failed.
WriteTookEffect == IF tool.write /\ tool.todo = <<>> THEN {tool.ranges} ELSE {}

\* Mutant of Fail: the file is brought back and the gates are not.
RestoreFileOnly ==
  /\ tool # Idle /\ tool.stage = "go" /\ tool.command # "rollback"
  /\ kept' \in {kept} \cup WriteTookEffect
  /\ tool' = IF tool.command = "refresh" /\ tool.prior # Missing
             THEN [tool EXCEPT !.stage = "undo", !.ranges = tool.prior, !.todo = <<>>]
             ELSE [tool EXCEPT !.stage = "deny", !.ranges = Deny, !.write = FALSE,
                               !.todo = GatesOf(tool.command)]
  /\ UNCHANGED <<gates, saved, docker, installed, told>>

\* A step of the command fails: the prior state is to come back, or all is to be denied.
Fail ==
  /\ tool # Idle /\ tool.stage = "go" /\ tool.command # "rollback"
  /\ kept' \in {kept} \cup WriteTookEffect
  /\ tool' = IF tool.command = "refresh" /\ tool.prior # Missing
             THEN [tool EXCEPT !.stage = "undo", !.ranges = tool.prior, !.todo = AllGates]
             ELSE [tool EXCEPT !.stage = "deny", !.ranges = Deny, !.write = FALSE,
                               !.todo = GatesOf(tool.command)]
  /\ UNCHANGED <<gates, saved, docker, installed, told>>

\* The file comes back before the gates.
RestoreFile ==
  /\ tool # Idle /\ tool.stage = "undo" /\ tool.write
  /\ kept' = tool.prior /\ tool' = [tool EXCEPT !.write = FALSE]
  /\ UNCHANGED <<gates, saved, docker, installed, told>>

\* The command has undone or denied, and fails with that.
Recover ==
  /\ tool # Idle /\ tool.todo = <<>> /\ tool.stage \in {"undo", "deny"} /\ ~tool.write
  /\ Say(IF tool.stage = "deny" THEN "denied" ELSE "applied")
  /\ Stopped /\ tool' = Idle
  /\ UNCHANGED <<gates, kept, saved, installed>>

\* What should recover fails too, a rollback fails, or the command is killed.
GiveUp ==
  /\ tool # Idle
  /\ told' = [said |-> "failed"]
  /\ Stopped /\ tool' = Idle
  /\ UNCHANGED <<gates, kept, saved, installed>>

-----------------------------------------------------------------------------
(* The host. *)

\* bootstrap_server.sh installs the units where a state file is there and verifies.
Install ==
  /\ ~installed /\ tool = Idle /\ kept # Missing /\ Verified(kept)
  /\ installed' = TRUE
  /\ UNCHANGED <<gates, kept, saved, docker, tool, told>>

\* Without the units Docker starts by itself.
StartUngated ==
  /\ ~installed /\ ~Serves /\ docker' = "up"
  /\ UNCHANGED <<gates, kept, saved, installed, tool, told>>

StopDocker ==
  /\ docker = "up" /\ docker' = "down"
  /\ UNCHANGED <<gates, kept, saved, installed, tool, told>>

Reboot ==
  /\ gates' = [g \in Gate |-> Unset]
  /\ docker' = "never" /\ tool' = Idle /\ told' = Nothing
  /\ UNCHANGED <<kept, saved, installed>>

Next ==
  \/ ApplyGate \/ BeginPregate \/ BeginUnit \/ BeginByHand \/ UnitRefused
  \/ \E ranges \in Ranges : BeginRefresh(ranges)
  \/ \E prior \in saved : BeginRollback(prior)
  \/ Succeed \/ Fail \/ RestoreFile \/ Recover \/ GiveUp
  \/ Install \/ StartUngated \/ StopDocker \/ Reboot

Spec == Init /\ [][Next]_vars

-----------------------------------------------------------------------------
(* Properties. *)

\* Once the units are installed, Docker never serves without a gate ahead of it in either
\* family, and not without all four after its unit has applied them: across refreshes,
\* rollbacks, failures, kills and reboots at every step.
WebIsGated ==
  installed =>
    /\ Serves => \A g \in Pre : gates[g].hooked
    /\ docker = "up" => \A g \in Gate : gates[g].hooked

\* What a command last said of the gates is so: applied is the state file in every gate it
\* covers, denied is the empty set in each.
ReportsAreTrue ==
  tool = Idle /\ told # Nothing /\ told.said # "failed" =>
    /\ \A i \in DOMAIN told.of : Holds(told.of[i], told.ranges)
    /\ told.said = "applied" => kept = told.ranges

=============================================================================
