------------------------------ MODULE HostAlerts ------------------------------
(***************************************************************************)
(* The disk check of the host and the alert it raises                      *)
(* (scripts/check_disk_usage.py, scripts/send_ops_alert.py).  A timer      *)
(* starts the check.  It reads every filesystem behind the configured      *)
(* paths once, exits with what it found, and when that is not well runs a  *)
(* hook that signs one event and posts it to a webhook, again when it may  *)
(* not have arrived.  The check kills the hook after 30 seconds wherever   *)
(* it is, and systemd the check.                                           *)
(***************************************************************************)
EXTENDS Integers, FiniteSets, FiniteSetsExt

CONSTANTS
  DeviceOf,   \* the device each configured path lies on
  Blocks,     \* <<total, free, available>> a filesystem may have in blocks
  Inodes,     \* and in inodes; <<>> when it counts none
  Threshold,  \* BUMPABESTIE_DISK_THRESHOLD_PERCENT
  Attempts    \* max_attempts of the alert configuration

VARIABLES
  config,     \* /etc/bumpabestie/alerts.json: absent, broken or set
  check       \* the check that runs, or ran last

vars == <<config, check>>

Path == DOMAIN DeviceOf
Reading == [blocks : Blocks, inodes : Inodes]
Idle == [at |-> "idle"]

TypeOK ==
  /\ config \in {"absent", "broken", "set"}
  /\ check.at \in {"idle", "hook", "sending", "over"}
  /\ check # Idle =>
       /\ check.bad \subseteq Path /\ check.exit \in 0 .. 2
       /\ \A d \in DOMAIN check.seen : check.seen[d] \in Reading
       /\ check.tries \in 0 .. Attempts
       /\ check.hook \in {"not run", "delivered", "failed", "killed"}

Init == config \in {"absent", "broken", "set"} /\ check = Idle

-----------------------------------------------------------------------------
(* used_percent, resource_usage: the share of what a user may fill, rounded up. *)

Used(usage) == Max({0, usage[1] - usage[2]})

\* Mutant of Percent: the share of the device, its reserve included.
PercentOfDevice(usage) ==
  IF usage = <<>> THEN 0
  ELSE IF usage[1] = 0 THEN 100 ELSE (Used(usage) * 100 + usage[1] - 1) \div usage[1]

Percent(usage) ==
  LET room == Used(usage) + usage[3]
  IN IF usage = <<>> THEN 0
     ELSE IF room <= 0 THEN 100 ELSE Min({100, (Used(usage) * 100 + room - 1) \div room})

\* is_near_full.
NearFull(reading) == \E usage \in {reading.blocks, reading.inodes} : Percent(usage) >= Threshold

\* inspect_filesystems: the devices of the paths that can be read, each of them once.
Inspected(bad) == {DeviceOf[p] : p \in Path \ bad}

\* build_event, main: what could not be read counts more than what is near full.
ExitCode(seen, bad) ==
  IF bad # {} THEN 2 ELSE IF \E d \in DOMAIN seen : NearFull(seen[d]) THEN 1 ELSE 0

\* sanitize_event: the worst of every filesystem, all the receiver is told of them.
Envelope(seen) ==
  LET worst == Max({0} \cup UNION {{Percent(seen[d].blocks), Percent(seen[d].inodes)} : d \in DOMAIN seen})
  IN [worst |-> worst, severity |-> IF worst >= 95 THEN "critical" ELSE "high"]

-----------------------------------------------------------------------------
(* check_disk_usage.main. *)

Run(seen, bad) ==
  LET exit == ExitCode(seen, bad)
  IN /\ check = Idle
     /\ check' = [at |-> IF exit = 0 THEN "over" ELSE "hook", seen |-> seen, bad |-> bad,
                  exit |-> exit, tries |-> 0, arrived |-> {}, hook |-> "not run"]
     /\ UNCHANGED config

Ends(hook) == check' = [check EXCEPT !.at = "over", !.hook = hook] /\ UNCHANGED config

\* send_ops_alert.main: without an endpoint and a secret there is nobody to tell, and that
\* is no failure; a file it cannot use is one.
HookStarts ==
  /\ check.at = "hook"
  /\ \/ config = "absent" /\ Ends("delivered")
     \/ config = "broken" /\ Ends("failed")
     \/ config = "set" /\ check' = [check EXCEPT !.at = "sending"] /\ UNCHANGED config

\* The hook is not an executable file.
HookMissing == check.at = "hook" /\ Ends("failed")

-----------------------------------------------------------------------------
(* send_with_retries: every attempt posts the same signed event. *)

\* The receiver takes the request, or the request is lost, or another attempt's is a copy.
Post == {check.arrived, check.arrived \cup {Envelope(check.seen)}}

\* Mutant of Accepted: what may have arrived is taken for delivered.
AcceptedInDoubt ==
  /\ check.at = "sending"
  /\ \E arrived \in Post :
       check' = [check EXCEPT !.at = "over", !.hook = "delivered", !.arrived = arrived]
  /\ UNCHANGED config

\* 2xx.
Accepted ==
  /\ check.at = "sending"
  /\ check' = [check EXCEPT !.at = "over", !.hook = "delivered", !.arrived = @ \cup {Envelope(check.seen)}]
  /\ UNCHANGED config

\* 4xx, or an answer that cannot be used: no other attempt is made.
Refused ==
  /\ check.at = "sending"
  /\ \E arrived \in Post :
       check' = [check EXCEPT !.at = "over", !.hook = "failed", !.arrived = arrived]
  /\ UNCHANGED config

\* 408, 425, 429, 5xx, a timeout or a broken connection, with the event taken or not.
InDoubt ==
  /\ check.at = "sending"
  /\ \E arrived \in Post :
       check' = IF check.tries + 1 = Attempts
                THEN [check EXCEPT !.at = "over", !.hook = "failed", !.arrived = arrived]
                ELSE [check EXCEPT !.tries = @ + 1, !.arrived = arrived]
  /\ UNCHANGED config

\* The hook runs longer than its 30 seconds, or the check longer than its unit's 45.
Killed ==
  /\ check.at = "sending"
  /\ \E arrived \in Post :
       check' = [check EXCEPT !.at = "over", !.hook = "killed", !.arrived = arrived]
  /\ UNCHANGED config

\* The next check of the timer, with the configuration an operator may have changed.
Elapse ==
  /\ check.at = "over"
  /\ check' = Idle
  /\ config' \in {"absent", "broken", "set"}

Next ==
  \/ \E bad \in SUBSET Path : \E seen \in [Inspected(bad) -> Reading] : Run(seen, bad)
  \/ HookStarts \/ HookMissing \/ Accepted \/ Refused \/ InDoubt \/ Killed \/ Elapse

Spec == Init /\ [][Next]_vars

-----------------------------------------------------------------------------
(* Properties. *)

\* No more than so many percent of what a user may fill is used.
Within(usage, percent) ==
  usage # <<>> => Used(usage) * 100 <= percent * (Used(usage) + usage[3])

\* A check that ends well has read every path, and left every filesystem room under the
\* threshold, whichever of its paths it was read by and whatever the owner of the device
\* keeps in reserve; an alert that counts as delivered was taken by the receiver unless
\* none is configured; and what the receiver was told is one event, never better than
\* what was seen, however often it was posted.
AlertsAreTrue ==
  check.at = "over" =>
    /\ check.exit = 0 =>
         /\ DOMAIN check.seen = {DeviceOf[p] : p \in Path}
         /\ \A d \in DOMAIN check.seen :
              /\ Within(check.seen[d].blocks, Threshold - 1)
              /\ Within(check.seen[d].inodes, Threshold - 1)
    /\ check.hook = "delivered" => config = "absent" \/ check.arrived # {}
    /\ Cardinality(check.arrived) <= 1
    /\ \A e \in check.arrived, d \in DOMAIN check.seen :
         Within(check.seen[d].blocks, e.worst) /\ Within(check.seen[d].inodes, e.worst)

=============================================================================
