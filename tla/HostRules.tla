------------------------------ MODULE HostRules ------------------------------
(***************************************************************************)
(* The host firewall as scripts/configure_cloudflare_ufw.py hardens it:    *)
(* from web ports open to anywhere to the ranges Cloudflare publishes now. *)
(* UFW keeps one numbered list, the IPv4 rules before the IPv6 rules, in   *)
(* its files and in the kernel; each change is a command of its own, and   *)
(* a deletion names a number.  A command may fail before or after it took  *)
(* effect, the script may be killed, and a failure restores the files of   *)
(* the backup by renaming directories.                                     *)
(*                                                                         *)
(* A rule is a kind and a family: ssh for the SSH rule, broad for a web    *)
(* port open to anywhere, new for a range Cloudflare publishes, old for a  *)
(* managed one it no longer does, other for what the script does not know. *)
(***************************************************************************)
EXTENDS Integers, Sequences, FiniteSets, SequencesExt

VARIABLES
  live,    \* the rules in the kernel
  files,   \* the rules in /etc/ufw; Gone between the two renames of a restore
  backup,  \* the snapshot of the last hardening
  script,  \* where the script is
  said     \* what the last script has said

vars == <<live, files, backup, script, said>>

Kind == {"ssh", "broad", "new", "old", "other"}
Family == {4, 6}
Rules == Seq(Kind \X Family)
Gone == <<<<"gone", 0>>>>

Has(rules, kind, f) == Contains(rules, <<kind, f>>)
Idle == [at |-> "idle"]

TypeOK ==
  /\ live \in Rules /\ files \in Rules \cup {Gone} /\ backup \in Rules
  /\ script.at \in {"idle", "ssh", "add", "delete", "reload", "aside", "in place", "restored",
                    "put back"}
  /\ said \in {"nothing", "refused", "compliant", "hardened", "restored", "failed"}

\* Any order of some of the rules, the same in both families.
Layouts == UNION {SetToSeqs(K) : K \in SUBSET {"ssh", "broad", "new", "old"}} \cup {<<"ssh", "other">>}
BothFamilies(kinds) ==
  [i \in DOMAIN kinds |-> <<kinds[i], 4>>] \o [i \in DOMAIN kinds |-> <<kinds[i], 6>>]

Init ==
  /\ live \in {BothFamilies(kinds) : kinds \in Layouts}
  /\ files = live /\ backup = live
  /\ script = Idle /\ said = "nothing"

-----------------------------------------------------------------------------
(* assess_rules, ssh_rule_present. *)

Missing(rules) == {f \in Family : ~Has(rules, "new", f)}
SshPresent(rules) == \A f \in Family : Has(rules, "ssh", f)
Unexpected(rules) == \E f \in Family : Has(rules, "other", f)
Deletions(rules) == {i \in DOMAIN rules : rules[i][1] \in {"broad", "old"}}
\* Mutant of Descending: the numbers are deleted in the order of the list.
Ascending(S) == SetToSortSeq(S, LAMBDA i, j : i < j)

Descending(S) == SetToSortSeq(S, LAMBDA i, j : i > j)

Compliant(rules) ==
  /\ SshPresent(rules) /\ Missing(rules) = {} /\ Deletions(rules) = {} /\ ~Unexpected(rules)

\* ufw allow puts a rule at the end of its family's.
LastOf(rules, f) == IF f = 6 THEN Len(rules)
                    ELSE Cardinality({i \in DOMAIN rules : rules[i][2] = 4})
Allow(rules, kind, f) ==
  IF Has(rules, kind, f) THEN rules ELSE InsertAt(rules, LastOf(rules, f) + 1, <<kind, f>>)

\* A command changes the files, which ufw status shows, and the kernel.
BothAllow(kind, f) == files' = Allow(files, kind, f) /\ live' = Allow(live, kind, f)
BothDelete(i) ==
  IF i \in DOMAIN files THEN files' = RemoveAt(files, i) /\ live' = Remove(live, files[i])
  ELSE UNCHANGED <<live, files>>

-----------------------------------------------------------------------------
(* apply_hardening. *)

MissingInOrder(rules) == SetToSortSeq(Missing(rules), <)

Begin ==
  /\ script = Idle /\ files # Gone
  /\ IF Unexpected(files) THEN said' = "refused" /\ UNCHANGED <<backup, script>>
     ELSE IF Compliant(files) THEN said' = "compliant" /\ UNCHANGED <<backup, script>>
     ELSE /\ backup' = files
          /\ script' = IF SshPresent(files)
                       THEN [at |-> "add", todo |-> MissingInOrder(files), mutated |-> FALSE]
                       ELSE [at |-> "ssh", todo |-> MissingInOrder(files), mutated |-> FALSE]
          /\ said' = "nothing"
  /\ UNCHANGED <<live, files>>

\* One command for both families; the rule has to be there before anything else is done.
AddSsh ==
  /\ script.at = "ssh"
  /\ files' = Allow(Allow(files, "ssh", 4), "ssh", 6)
  /\ live' = Allow(Allow(live, "ssh", 4), "ssh", 6)
  /\ script' = [script EXCEPT !.at = "add", !.mutated = TRUE]
  /\ UNCHANGED <<backup, said>>

AddMissing ==
  /\ script.at = "add" /\ script.todo # <<>>
  /\ BothAllow("new", Head(script.todo))
  /\ script' = [script EXCEPT !.todo = Tail(@), !.mutated = TRUE]
  /\ UNCHANGED <<backup, said>>

\* Nothing is deleted before the rules read back are complete.
PlanDeletions ==
  /\ script.at = "add" /\ script.todo = <<>> /\ Missing(files) = {}
  /\ script' = [script EXCEPT !.at = "delete", !.todo = Descending(Deletions(files))]
  /\ UNCHANGED <<live, files, backup, said>>

DeleteNumber ==
  /\ script.at = "delete" /\ script.todo # <<>>
  /\ BothDelete(Head(script.todo))
  /\ script' = [script EXCEPT !.todo = Tail(@), !.mutated = TRUE]
  /\ UNCHANGED <<backup, said>>

Reload ==
  /\ script.at = "delete" /\ script.todo = <<>>
  /\ live' = files
  /\ script' = [script EXCEPT !.at = "reload"]
  /\ UNCHANGED <<files, backup, said>>

Verify ==
  /\ script.at = "reload" /\ Compliant(files)
  /\ script' = Idle /\ said' = "hardened"
  /\ UNCHANGED <<live, files, backup>>

\* A command or a check fails; once the first command has begun the backup is restored.
Fail ==
  /\ script.at \in {"ssh", "add", "delete", "reload"}
  /\ \/ script' = [at |-> "aside"] /\ UNCHANGED said
     \/ ~script.mutated /\ script' = Idle /\ said' = "failed"
  /\ UNCHANGED <<live, files, backup>>

-----------------------------------------------------------------------------
(* BackupManager.restore, after a failure or by hand. *)

BeginRollback ==
  /\ script = Idle /\ files # Gone
  /\ script' = [at |-> "aside"] /\ said' = "nothing"
  /\ UNCHANGED <<live, files, backup>>

RenameAside ==
  /\ script.at = "aside"
  /\ script' = [at |-> "in place", displaced |-> files] /\ files' = Gone
  /\ UNCHANGED <<live, backup, said>>

RenameInPlace ==
  /\ script.at = "in place"
  /\ \/ files' = backup /\ script' = [script EXCEPT !.at = "restored"] /\ UNCHANGED said
     \/ files' = script.displaced /\ script' = Idle /\ said' = "failed"
  /\ UNCHANGED <<live, backup>>

\* Mutant of ReloadRestored: what was set aside is dropped before the reload answers.
DropDisplaced ==
  /\ script.at = "restored"
  /\ \/ live' = files /\ script' = Idle /\ said' = "restored" /\ UNCHANGED files
     \/ script' = Idle /\ said' = "restored" /\ UNCHANGED <<live, files>>
  /\ UNCHANGED backup

\* A reload that fails brings back what was set aside.
ReloadRestored ==
  /\ script.at = "restored"
  /\ \/ live' = files /\ script' = Idle /\ said' = "restored" /\ UNCHANGED files
     \/ files' = script.displaced /\ script' = [script EXCEPT !.at = "put back"]
        /\ UNCHANGED <<live, said>>
  /\ UNCHANGED backup

ReloadDisplaced ==
  /\ script.at = "put back"
  /\ live' \in {live, files} /\ script' = Idle /\ said' = "failed"
  /\ UNCHANGED <<files, backup>>

\* The script is killed.
Killed ==
  /\ script # Idle /\ script' = Idle /\ said' = "failed"
  /\ UNCHANGED <<live, files, backup>>

Next ==
  \/ Begin \/ AddSsh \/ AddMissing \/ PlanDeletions \/ DeleteNumber \/ Reload \/ Verify \/ Fail
  \/ BeginRollback \/ RenameAside \/ RenameInPlace \/ ReloadRestored \/ ReloadDisplaced
  \/ Killed

Spec == Init /\ [][Next]_vars

-----------------------------------------------------------------------------
(* Properties. *)

Admits(rules, f) == Has(rules, "broad", f) \/ Has(rules, "new", f)

\* Who came in when the script began comes in at every step, in the kernel and by the files a
\* reload would read: the operator by SSH and, in each family, the visitors of the site;
\* through additions, deletions by number, failures, restores and kills.
AccessIsKept ==
  \A rules \in {live, files} \ {Gone}, f \in Family :
    /\ Has(backup, "ssh", f) => Has(rules, "ssh", f)
    /\ Admits(backup, f) => Admits(rules, f)

\* The script hardened or restored the rules as it says, in the files
\* and in the kernel; a run that finds nothing to do answers for the files alone.
SaidIsSo ==
  /\ said = "hardened" => live = files /\ Compliant(files)
  /\ said = "restored" => live = files /\ live = backup

=============================================================================
