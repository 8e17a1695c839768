------------------------------ MODULE Promotion ------------------------------
(***************************************************************************)
(* The promotion of a release on the production host: the installed        *)
(* coordinator (infra/bin/bumpabestie-promote) holds the maintenance lock, *)
(* keeps a journal and runs the launcher (scripts/promote_release.sh),     *)
(* which runs the deployment (scripts/deploy.sh).  The nightly backup      *)
(* (scripts/scheduled_backup.sh) and the staging of a login PIN            *)
(* (scripts/set_temporary_login_pin.sh) take the same lock.                *)
(*                                                                         *)
(* What runs is one unit: the writers with their edge.  Any command may    *)
(* fail, the deployment may be killed without its trap, and the host may   *)
(* crash between any two steps; only the directory of the journals stays   *)
(* writable.  An operator who reconciles an interlock is not modelled: a   *)
(* host that needs one stays so.                                           *)
(***************************************************************************)
EXTENDS Integers

CONSTANTS
  MaxRelease,  \* bound: releases 1..MaxRelease in the order of origin/main
  Contract,    \* releases whose images declare the canonical context contract
  Auth         \* auth boundaries: login mode, verifier, expiry, backend

VARIABLES
  env,     \* .env.production: the selected release, infrastructure and auth
  record,  \* .deployed-release.json, with the operations revision
  stamp,   \* .deployed-revision
  head,    \* the checkout
  schema,  \* the release whose migrations the database has
  live,    \* what runs and the auth it was started with; app 0: nothing
  outer,   \* the coordinator's journal
  inner,   \* the promotion state file of the launcher and the deployment
  mark,    \* the maintenance-required interlock
  flow     \* the workflow that holds the maintenance lock

vars == <<env, record, stamp, head, schema, live, outer, inner, mark, flow>>

Release == 1..MaxRelease
Terminal == {"COMMITTED", "PREVIOUS_RESTORED", "HYBRID_PERSISTED"}
Boundaries == [app : Release, infra : Release, auth : Auth]
Records == [app : Release, infra : Release, auth : Auth, ops : Release]

\* The steps of deploy.sh before and after it writes FORWARD_BOUNDARY.
Early == {"deploy", "images", "stop", "backup"}
Late == {"migrate", "start", "record", "stamp", "commit", "contain", "rollback",
         "rerecord", "restamp"}

Free == [at |-> "none"]
Resuming == [at |-> "resume"]
Flow == [at : Early \cup Late \cup {"locked", "snapshot", "child", "checkout", "pointers", "restart",
                                    "exit", "validate", "archive"},
         target : Release, infra : Release, prior : Records, was : Release \cup {0},
         role : BOOLEAN, stopped : BOOLEAN, restored : BOOLEAN, rewritten : BOOLEAN, ok : BOOLEAN]

TypeOK ==
  /\ env \in Boundaries
  /\ record \in Records
  /\ stamp \in [app : Release, infra : Release]
  /\ head \in Release /\ schema \in Release
  /\ live \in [app : Release \cup {0}, auth : Auth]
  /\ outer \in Terminal \cup {"none", "LOCKED", "SNAPSHOT_RECORDED", "CHILD_RUNNING",
                              "MAINTENANCE_REQUIRED"}
  /\ inner \in Terminal \cup {"none", "PRE_BOUNDARY", "FORWARD_BOUNDARY"}
  /\ mark \in BOOLEAN
  /\ flow \in {Free, Resuming} \cup Flow

Init ==
  \E a \in Auth :
    /\ env = [app |-> 1, infra |-> 1, auth |-> a]
    /\ record = [app |-> 1, infra |-> 1, auth |-> a, ops |-> 1]
    /\ stamp = [app |-> 1, infra |-> 1]
    /\ head = 1 /\ schema = 1
    /\ live = [app |-> 1, auth |-> a]
    /\ outer = "none" /\ inner = "none" /\ mark = FALSE
    /\ flow = Free

-----------------------------------------------------------------------------
(* The boundaries a workflow selects. *)

BoundaryOf(rec) == [app |-> rec.app, infra |-> rec.infra, auth |-> rec.auth]
StampOf(rec) == [app |-> rec.app, infra |-> rec.infra]

Target == [app |-> flow.target, infra |-> flow.infra, auth |-> env.auth]

\* Mutant of Hybrid: the rollback keeps the staged auth.
HybridStagedAuth == [app |-> flow.prior.app, infra |-> flow.infra, auth |-> env.auth]

\* The previous application on the infrastructure that went forward.
Hybrid == [app |-> flow.prior.app, infra |-> flow.infra, auth |-> flow.prior.auth]

At(step) == flow.at = step
Go(step) == flow' = [flow EXCEPT !.at = step]

\* mark_maintenance_required.
Mark == mark' = TRUE

\* validate_previous_restored: a record that was rewritten has another hash.
PreviousRestored(e) ==
  /\ head = flow.prior.ops
  /\ e = BoundaryOf(flow.prior)
  /\ ~flow.rewritten

\* record_matches_env, and validate_committed.
RecordMatches(app, ops) == record.app = app /\ record.ops = ops /\ env = BoundaryOf(record)

Committed ==
  /\ head = flow.target
  /\ env.app = flow.target /\ env.infra = flow.infra
  /\ RecordMatches(flow.target, flow.target)

-----------------------------------------------------------------------------
(* The coordinator until it runs the launcher. *)

\* It refuses while an interlock or a journal is left.  origin/main only moves forward; a
\* release may keep the infrastructure images.
Lock(release, infra) ==
  /\ At("none") /\ ~mark /\ outer = "none"
  /\ release >= record.ops /\ infra \in {record.infra, release}
  /\ outer' = "LOCKED"
  /\ flow' = [at |-> "locked", target |-> release, infra |-> infra, prior |-> record,
              was |-> live.app, role |-> FALSE, stopped |-> FALSE, restored |-> FALSE,
              rewritten |-> FALSE, ok |-> FALSE]
  /\ UNCHANGED <<env, record, stamp, head, schema, live, inner, mark>>

Snapshot ==
  /\ At("locked") /\ head = record.ops
  /\ outer' = "SNAPSHOT_RECORDED" /\ Go("snapshot")
  /\ UNCHANGED <<env, record, stamp, head, schema, live, inner, mark>>

RunChild ==
  /\ At("snapshot")
  /\ outer' = "CHILD_RUNNING" /\ Go("child")
  /\ UNCHANGED <<env, record, stamp, head, schema, live, inner, mark>>

\* The trap on_exit: with the snapshot and no other journal it restores the environment.
CoordinatorExits ==
  \/ /\ At("locked")
     /\ Mark /\ flow' = Free
     /\ UNCHANGED <<env, record, stamp, head, schema, live, outer, inner>>
  \/ /\ At("snapshot") \/ At("validate")
     /\ UNCHANGED <<record, stamp, head, schema, live, inner>>
     /\ \/ /\ inner = "none" /\ ~mark
           /\ env' \in {env, BoundaryOf(flow.prior)}
           /\ PreviousRestored(env')
           /\ outer' = "PREVIOUS_RESTORED" /\ Go("archive")
           /\ UNCHANGED mark
        \/ /\ env' \in IF inner = "none" /\ ~mark THEN {env, BoundaryOf(flow.prior)} ELSE {env}
           /\ inner # "none" \/ mark \/ ~PreviousRestored(env')
           /\ Mark /\ flow' = Free
           /\ UNCHANGED outer

-----------------------------------------------------------------------------
(* The launcher. *)

LoadBoundary ==
  /\ At("child") /\ inner = "none" /\ ~mark
  /\ inner' = "PRE_BOUNDARY" /\ Go("checkout")
  /\ UNCHANGED <<env, record, stamp, head, schema, live, outer, mark>>

\* It fails before its journal exists, and may have restored the boundary.
LoadFails ==
  /\ At("child")
  /\ env' \in {env, BoundaryOf(flow.prior)}
  /\ Go("validate")
  /\ UNCHANGED <<record, stamp, head, schema, live, outer, inner, mark>>

Checkout ==
  /\ At("checkout")
  /\ head' = flow.target /\ Go("pointers")
  /\ UNCHANGED <<env, record, stamp, schema, live, outer, inner, mark>>

\* rewrite_release_pointers leaves the staged auth.
RewritePointers ==
  /\ At("pointers")
  /\ env' = Target /\ Go("deploy")
  /\ UNCHANGED <<record, stamp, head, schema, live, outer, inner, mark>>

LauncherFails ==
  /\ At("checkout") \/ At("pointers")
  /\ Go("exit")
  /\ UNCHANGED <<env, record, stamp, head, schema, live, outer, inner, mark>>

\* restore_prior_boundary and the checkout of the recorded revision; it may stop half way.
RestoreBoundary(restored) ==
  /\ env' \in IF restored THEN {BoundaryOf(flow.prior)} ELSE {env, BoundaryOf(flow.prior)}
  /\ head' \in IF restored THEN {flow.prior.ops} ELSE {head, flow.prior.ops}

\* The trap restore_promotion.
LauncherExits ==
  /\ At("exit")
  /\ UNCHANGED <<record, stamp, schema, live, outer>>
  /\ flow' = [flow EXCEPT !.at = "validate", !.ok = inner = "COMMITTED"]
  /\ \/ /\ inner = "PRE_BOUNDARY"
        /\ RestoreBoundary(TRUE)
        /\ inner' = "none" /\ UNCHANGED mark
     \/ /\ inner = "PRE_BOUNDARY"
        /\ RestoreBoundary(FALSE)
        /\ Mark /\ UNCHANGED inner
     \/ /\ inner \in Terminal
        /\ inner' = "none" /\ UNCHANGED <<env, head, mark>>
     \/ /\ inner = "FORWARD_BOUNDARY"
        /\ Mark /\ UNCHANGED <<env, head, inner>>

-----------------------------------------------------------------------------
(* The deployment before the forward boundary. *)

\* The preflight: the recorded release is the one that runs.
Preflight ==
  /\ At("deploy") /\ live.app = flow.prior.app
  /\ Go("images")
  /\ UNCHANGED <<env, record, stamp, head, schema, live, outer, inner, mark>>

\* A target without the contract never reaches the host's services.
VerifyImages ==
  /\ At("images") /\ flow.target \in Contract
  /\ Go("stop")
  /\ UNCHANGED <<env, record, stamp, head, schema, live, outer, inner, mark>>

StopWriters ==
  /\ At("stop")
  /\ live' = [live EXCEPT !.app = 0]
  /\ flow' = [flow EXCEPT !.at = "backup", !.stopped = TRUE]
  /\ UNCHANGED <<env, record, stamp, head, schema, outer, inner, mark>>

Restart(restored) == flow' = [flow EXCEPT !.at = "restart", !.restored = restored]

\* The traps early_failure_restore and, once the images are pulled, rollback: they restore
\* the boundary, and the stopped writers have to come back before the state is terminal.
DeployFails ==
  /\ flow.at \in Early
  /\ UNCHANGED <<record, stamp, schema, outer>>
  /\ live' \in IF At("stop") THEN {live, [live EXCEPT !.app = 0]} ELSE {live}
  /\ \/ /\ RestoreBoundary(TRUE)
        /\ IF flow.stopped \/ At("stop")
             THEN Restart(TRUE) /\ UNCHANGED <<inner, mark>>
             ELSE inner' = "PREVIOUS_RESTORED" /\ Go("exit") /\ UNCHANGED mark
     \/ /\ RestoreBoundary(FALSE)
        /\ IF flow.stopped \/ At("stop")
             THEN Restart(FALSE) /\ UNCHANGED <<inner, mark>>
             ELSE Mark /\ Go("exit") /\ UNCHANGED inner

\* docker start of the previous containers, and the smoke test.
RestartPrevious ==
  /\ At("restart")
  /\ Go("exit")
  /\ UNCHANGED <<env, record, stamp, head, schema, outer>>
  /\ \/ /\ live' = [live EXCEPT !.app = flow.was]
        /\ IF flow.restored
             THEN inner' = "PREVIOUS_RESTORED" /\ UNCHANGED mark
             ELSE Mark /\ UNCHANGED inner
     \/ /\ live' \in {live, [live EXCEPT !.app = flow.was]}
        /\ Mark /\ UNCHANGED inner

-----------------------------------------------------------------------------
(* The deployment after it, and its rollback. *)

\* The backup is taken and no writer runs.
CrossBoundary ==
  /\ At("backup") /\ live.app = 0
  /\ inner' = "FORWARD_BOUNDARY"
  /\ flow' = [flow EXCEPT !.at = "migrate", !.role = TRUE]
  /\ UNCHANGED <<env, record, stamp, head, schema, live, outer, mark>>

Migrate ==
  /\ At("migrate")
  /\ schema' = flow.target /\ Go("start")
  /\ UNCHANGED <<env, record, stamp, head, live, outer, inner, mark>>

\* Up to the smoke test, the health and the readiness of the target.
StartTarget ==
  /\ At("start")
  /\ live' = [app |-> flow.target, auth |-> env.auth] /\ Go("record")
  /\ UNCHANGED <<env, record, stamp, head, schema, outer, inner, mark>>

\* persist_release_metadata renames the record, then the revision.
Record(boundary, next) ==
  /\ record' = [app |-> boundary.app, infra |-> boundary.infra, auth |-> boundary.auth,
                ops |-> flow.target]
  /\ flow' = [flow EXCEPT !.at = next, !.rewritten = TRUE]
  /\ UNCHANGED <<env, stamp, head, schema, live, outer, inner, mark>>

RecordTarget == At("record") /\ Record(Target, "stamp")

\* Mutant of StampTarget: only the record is written.
StampForgotten ==
  /\ At("stamp") /\ Go("commit")
  /\ UNCHANGED <<env, record, stamp, head, schema, live, outer, inner, mark>>

StampTarget ==
  /\ At("stamp")
  /\ stamp' = StampOf(record) /\ Go("commit")
  /\ UNCHANGED <<env, record, head, schema, live, outer, inner, mark>>

Commit ==
  /\ At("commit")
  /\ env' = Target /\ inner' = "COMMITTED" /\ Go("exit")
  /\ UNCHANGED <<record, stamp, head, schema, live, outer, mark>>

\* A step after the boundary fails: the migration may have happened, the check of the
\* database role may have failed, the target may have started.
ForwardFails ==
  /\ flow.at \in {"migrate", "start", "record", "stamp", "commit"}
  /\ \E verified \in IF At("migrate") \/ At("start") THEN BOOLEAN ELSE {TRUE} :
       flow' = [flow EXCEPT !.at = "contain", !.role = verified]
  /\ schema' \in IF At("migrate") THEN {schema, flow.target} ELSE {schema}
  /\ live' \in IF At("start") THEN {live, [app |-> flow.target, auth |-> env.auth]} ELSE {live}
  /\ UNCHANGED <<env, record, stamp, head, outer, inner, mark>>

\* Mutant of MayRollBack: the images of the previous release are not asked for the contract.
RoleVerified == flow.role

\* contain_canonical_execution_surface, and whether the prior images may come back.
MayRollBack == flow.role /\ flow.prior.app \in Contract

Contain ==
  /\ At("contain")
  /\ UNCHANGED <<env, record, stamp, head, schema, outer, inner>>
  /\ \/ /\ live' = [live EXCEPT !.app = 0] /\ MayRollBack
        /\ Go("rollback") /\ UNCHANGED mark
     \/ /\ live' = [live EXCEPT !.app = 0] /\ ~MayRollBack
        /\ Mark /\ Go("exit")
     \/ /\ Mark /\ Go("exit") /\ UNCHANGED live

\* attempt_application_rollback under run_contained_rollback_attempt.
RollBack ==
  /\ At("rollback")
  /\ env' = Hybrid
  /\ live' = [app |-> flow.prior.app, auth |-> flow.prior.auth]
  /\ Go("rerecord")
  /\ UNCHANGED <<record, stamp, head, schema, outer, inner, mark>>

RecordHybrid == At("rerecord") /\ Record(Hybrid, "restamp")

StampHybrid ==
  /\ At("restamp")
  /\ stamp' = StampOf(record) /\ inner' = "HYBRID_PERSISTED" /\ Go("exit")
  /\ UNCHANGED <<env, record, head, schema, live, outer, mark>>

\* The attempt or its record fails: contained again, if that works.
RollBackFails ==
  /\ flow.at \in {"rollback", "rerecord", "restamp"}
  /\ env' \in {env, Hybrid}
  /\ live' \in {[live EXCEPT !.app = 0], live, [app |-> flow.prior.app, auth |-> flow.prior.auth]}
  /\ Mark /\ Go("exit")
  /\ UNCHANGED <<record, stamp, head, schema, outer, inner>>

-----------------------------------------------------------------------------
(* The end of a promotion. *)

\* A failed child that changed neither the checkout nor the records gets its environment
\* repaired; then the journal says what is found.
Repaired ==
  IF ~flow.ok /\ head = flow.prior.ops /\ ~flow.rewritten
    THEN {env, BoundaryOf(flow.prior)} ELSE {env}

Found(e) ==
  IF flow.ok /\ Committed THEN "COMMITTED"
  ELSE IF ~flow.ok /\ PreviousRestored(e) THEN "PREVIOUS_RESTORED"
  ELSE IF ~flow.ok /\ head = flow.target /\ e = env
          /\ RecordMatches(flow.prior.app, flow.target) THEN "HYBRID_PERSISTED"
  ELSE "none"

Validate ==
  /\ At("validate")
  /\ env' \in Repaired
  /\ UNCHANGED <<record, stamp, head, schema, live, inner>>
  /\ IF Found(env') = "none" \/ mark
       THEN outer' = "MAINTENANCE_REQUIRED" /\ Mark /\ flow' = Free
       ELSE outer' = Found(env') /\ Go("archive") /\ UNCHANGED mark

Archive ==
  /\ At("archive")
  /\ outer' = "none" /\ flow' = Free
  /\ UNCHANGED <<env, record, stamp, head, schema, live, inner, mark>>

-----------------------------------------------------------------------------
(* Faults, and the other workflows. *)

\* deploy.sh dies without its trap (the kernel's out-of-memory kill); the launcher goes on.
KillDeploy ==
  /\ flow.at \in Early \cup Late \cup {"restart"}
  /\ Go("exit")
  /\ UNCHANGED <<env, record, stamp, head, schema, live, outer, inner, mark>>

\* The host goes down: the lock is gone, the files stay, what ran is restarted.
Crash ==
  /\ flow.at # "none" /\ flow' = Free
  /\ UNCHANGED <<env, record, stamp, head, schema, live, outer, inner, mark>>

\* scheduled_backup.sh: refused while an interlock or a journal is left.
BackupClear == outer = "none" /\ ~mark /\ inner = "none"

BackupStops ==
  /\ At("none") /\ BackupClear /\ live.app # 0
  /\ live' = [live EXCEPT !.app = 0] /\ flow' = Resuming
  /\ UNCHANGED <<env, record, stamp, head, schema, outer, inner, mark>>

\* compose up brings the services back as .env.production selects them.
BackupResumes ==
  /\ At("resume")
  /\ live' \in {[app |-> env.app, auth |-> env.auth], live}
  /\ flow' = Free
  /\ UNCHANGED <<env, record, stamp, head, schema, outer, inner, mark>>

\* The operator edits the auth selectors, or the PIN script stages a new verifier: it looks at
\* the interlock and the launcher's journal, not at the coordinator's.
StageAuth(auth) ==
  /\ At("none") /\ ~mark /\ inner = "none"
  /\ env' = [env EXCEPT !.auth = auth]
  /\ UNCHANGED <<record, stamp, head, schema, live, outer, inner, mark, flow>>

Next ==
  \/ \E release \in Release, infra \in Release : Lock(release, infra)
  \/ Snapshot \/ RunChild \/ CoordinatorExits
  \/ LoadBoundary \/ LoadFails \/ Checkout \/ RewritePointers \/ LauncherFails \/ LauncherExits
  \/ Preflight \/ VerifyImages \/ StopWriters \/ DeployFails \/ RestartPrevious
  \/ CrossBoundary \/ Migrate \/ StartTarget \/ RecordTarget \/ StampTarget \/ Commit
  \/ ForwardFails \/ Contain \/ RollBack \/ RecordHybrid \/ StampHybrid \/ RollBackFails
  \/ Validate \/ Archive
  \/ KillDeploy \/ Crash \/ BackupStops \/ BackupResumes
  \/ \E auth \in Auth : StageAuth(auth)

Spec == Init /\ [][Next]_vars

-----------------------------------------------------------------------------
(* Properties. *)

\* Nothing holds the lock and nothing asks for an operator.
Clear == At("none") /\ outer = "none" /\ inner = "none" /\ ~mark

\* A host that asks for no operator agrees with itself, whatever failed on the way there: the
\* selected release and the two records name one release, the checkout is its operations
\* revision, no newer one has migrated the database, and no other release runs.
ClearHostAgrees ==
  Clear =>
    /\ env.app = record.app /\ env.infra = record.infra
    /\ stamp = StampOf(record)
    /\ head = record.ops /\ schema \in record.app .. record.ops
    /\ live.app \in {0, record.app}

\* No release runs before its migrations, and after the migrations of a later one only a
\* release that declares the contract, through rollbacks, crashes and backups.
WritersFitSchema ==
  live.app # 0 => live.app <= schema /\ (live.app < schema => live.app \in Contract)

\* What a promotion archives is so: a committed target runs with the auth it records, and a
\* promotion that went back left no staged auth behind.
TerminalIsTrue ==
  [][(At("archive") /\ flow'.at = "none" /\ outer' = "none") =>
       CASE outer = "COMMITTED" ->
              record.app = flow.target /\ live = [app |-> flow.target, auth |-> record.auth]
         [] outer = "HYBRID_PERSISTED" ->
              /\ env.auth = flow.prior.auth
              /\ live = [app |-> flow.prior.app, auth |-> flow.prior.auth]
         [] OTHER -> env = BoundaryOf(flow.prior) /\ schema <= flow.prior.ops]_vars

\* docs/deployment.md:591: a kill or a failed restoration leaves the interlock; so a promotion
\* that is archived as restored left running what ran before it.
RestoredIsServing ==
  [][(outer = "PREVIOUS_RESTORED" /\ outer' = "none") => live.app = flow.was]_vars

=============================================================================
