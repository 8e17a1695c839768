--------------------------- MODULE HermesProfiles ---------------------------
(***************************************************************************)
(* The Hermes profile of a tenant.  The API reserves its coordinates in    *)
(* the database, commits, stages a bundle of files in a shared directory   *)
(* (app/providers/hermes.py) and asks the private control server           *)
(* (infra/hermes/control_server.py) to copy it into the runtime directory  *)
(* and start a gateway.  A deployment stops both, refreshes every staged   *)
(* bundle file by file for its release, starts the API, imports the        *)
(* bundles into the runtime and starts Hermes; an operator may run that    *)
(* import alone while both serve.                                          *)
(*                                                                         *)
(* The port stands for the coordinates (name, port and key) that .env      *)
(* carries; config.yaml and SOUL.md carry the release that wrote them, 0:  *)
(* the file is missing.                                                    *)
(***************************************************************************)
EXTENDS Integers, FiniteSets

CONSTANTS
  Tenant,
  Request,     \* requests of operators and of the onboarding worker
  MaxPort,     \* bound: the configured port range is 1..MaxPort
  MaxRelease,  \* bound: releases 1..MaxRelease
  MaxFailures  \* bound: deployments and imports that fail

VARIABLES
  profiles,  \* committed rows of hermes_profiles; port 0: no row
  serving,   \* requests in the API, with the control thread that serves them
  late,      \* tenants for which a control thread goes on without its client
  staged, runtime, gateway,  \* bundles: in staging, in the runtime, as loaded by the gateway
  api,       \* the release of the running API, 0: stopped
  hermes,    \* whether the Hermes container runs
  work       \* the deployment or import under way

vars == <<profiles, serving, late, staged, runtime, gateway, api, hermes, work>>

Port == 1..MaxPort
Release == 1..MaxRelease
Status == {"provisioning", "active", "degraded"}

Bundle == [port : Port \cup {0}, config : Release \cup {0}, soul : Release \cup {0}]
Absent == [port |-> 0, config |-> 0, soul |-> 0]
NoRow == [port |-> 0, status |-> "provisioning"]
Idle == [at |-> "idle"]

\* _profile_files.
BundleOf(t, release) == [port |-> profiles[t].port, config |-> release, soul |-> release]

TypeOK ==
  /\ profiles \in [Tenant -> [port : Port \cup {0}, status : Status]]
  /\ \A r \in Request :
       /\ serving[r].at \in {"idle", "reserved", "staging", "calling", "ready", "refused"}
       /\ serving[r] # Idle => serving[r].of \in Tenant
  /\ late \subseteq Tenant
  /\ staged \in [Tenant -> Bundle] /\ runtime \in [Tenant -> Bundle]
  /\ gateway \in [Tenant -> Bundle]
  /\ api \in Release \cup {0} /\ hermes \in BOOLEAN
  /\ work.at \in {"none", "reconcile", "import"} /\ work.todo \subseteq Tenant
  /\ work.half \subseteq Tenant /\ work.was \in Release \cup {0}
  /\ work.release \in Release /\ work.failures \in 0..MaxFailures
  /\ work.settled \in BOOLEAN

\* The first deployment has succeeded; was 0 marks an import without a deployment.
Init ==
  /\ profiles = [t \in Tenant |-> NoRow]
  /\ serving = [r \in Request |-> Idle]
  /\ late = {}
  /\ staged = [t \in Tenant |-> Absent] /\ runtime = staged /\ gateway = staged
  /\ api = 1 /\ hermes = TRUE
  /\ work = [at |-> "none", todo |-> {}, half |-> {}, was |-> 0, release |-> 1,
             failures |-> 0, settled |-> TRUE]

-----------------------------------------------------------------------------
(* A request in the API. *)

At(r, step) == serving[r].at = step
To(r, step) == serving' = [serving EXCEPT ![r].at = step]
Leave(r) == serving' = [serving EXCEPT ![r] = Idle]

Begin(r, t, step, port) ==
  /\ api # 0 /\ At(r, "idle")
  /\ serving' = [serving EXCEPT ![r] = [at |-> step, of |-> t, port |-> port,
                                        seen |-> profiles[t].status]]

Used == {profiles[t].port : t \in Tenant}
FirstFree == CHOOSE p \in Port \ Used : \A q \in Port \ Used : p <= q

\* The advisory lock of the transaction that reserves, and a port that is left.
MayReserve == Port \ Used # {} /\ \A r \in Request : ~At(r, "reserved")

\* Mutant of Reserve: the bundle is staged with the reservation.
ReserveAndStage(r, t) ==
  /\ profiles[t] = NoRow /\ MayReserve
  /\ Begin(r, t, "reserved", FirstFree)
  /\ staged' = [staged EXCEPT ![t] = [port |-> FirstFree, config |-> api, soul |-> api]]
  /\ UNCHANGED <<profiles, late, runtime, gateway, api, hermes, work>>

Reserve(r, t) ==
  /\ profiles[t] = NoRow /\ MayReserve
  /\ Begin(r, t, "reserved", FirstFree)
  /\ UNCHANGED <<profiles, late, staged, runtime, gateway, api, hermes, work>>

CommitReservation(r) ==
  /\ At(r, "reserved")
  /\ profiles' = [profiles EXCEPT ![serving[r].of] =
                    [port |-> serving[r].port, status |-> "provisioning"]]
  /\ To(r, "staging")
  /\ UNCHANGED <<late, staged, runtime, gateway, api, hermes, work>>

\* create_profile of a tenant that has one, and the retry of the onboarding.
UseExisting(r, t) ==
  /\ profiles[t] # NoRow
  /\ Begin(r, t, "staging", profiles[t].port)
  /\ UNCHANGED <<profiles, late, staged, runtime, gateway, api, hermes, work>>

\* The ORM writes a status that differs from the one the request has read.
WriteStatus(r, status) ==
  IF status = serving[r].seen THEN UNCHANGED profiles
  ELSE profiles' = [profiles EXCEPT ![serving[r].of].status = status]

\* _validate_profile_directory: a directory that is there has to hold the expected bundle.
Validates(t, bundle) == staged[t] \in {Absent, bundle}

\* _write_profile_directory renames a whole directory.
Stage(t, bundle) == staged' = [staged EXCEPT ![t] = bundle]

\* materialize_profile under its file lock, in activate_reserved_profile.
Materialize(r) ==
  /\ At(r, "staging")
  /\ LET t == serving[r].of
         expected == BundleOf(t, api)
     IN \/ /\ Validates(t, expected) /\ Stage(t, expected)
           /\ To(r, "calling") /\ UNCHANGED profiles
        \/ /\ ~Validates(t, expected)
           /\ WriteStatus(r, "degraded") /\ Leave(r) /\ UNCHANGED staged
  /\ UNCHANGED <<late, runtime, gateway, api, hermes, work>>

\* Hermes refuses, fails or does not answer in time; its thread may go on.
ActivationFails(r) ==
  /\ serving[r].at \in {"calling", "ready", "refused"}
  /\ WriteStatus(r, "degraded") /\ Leave(r)
  /\ late' \in IF At(r, "calling") /\ hermes THEN {late, {serving[r].of}} ELSE {late}
  /\ UNCHANGED <<staged, runtime, gateway, api, hermes, work>>

Activated(r) ==
  /\ At(r, "ready")
  /\ WriteStatus(r, "active") /\ Leave(r)
  /\ UNCHANGED <<late, staged, runtime, gateway, api, hermes, work>>

\* restart_profile holds the row to its end.  The restart looks at nothing but .env; the
\* answer may be lost, and a failure leaves the status.
RestartProfile(t) ==
  /\ api # 0 /\ hermes /\ profiles[t] # NoRow /\ runtime[t].port # 0
  /\ gateway' = [gateway EXCEPT ![t] = runtime[t]]
  /\ profiles' \in {profiles, [profiles EXCEPT ![t].status = "active"]}
  /\ UNCHANGED <<serving, late, staged, runtime, api, hermes, work>>

-----------------------------------------------------------------------------
(* A thread of the control server. *)

\* _read_staged_profile.
MayRead(t) == hermes /\ staged[t] # Absent

\* activate_profile: an absent runtime gets the staged bundle whole, one that is there has to
\* equal it.
Copy(t) ==
  /\ runtime[t] \in {Absent, staged[t]}
  /\ runtime' = [runtime EXCEPT ![t] = staged[t]]

\* gateway start does nothing to one that runs, and may fail.
StartGateway(t) ==
  gateway' \in {gateway, [gateway EXCEPT ![t] = IF @ = Absent THEN staged[t] ELSE @]}

Control(t) == MayRead(t) /\ Copy(t) /\ StartGateway(t)

\* wait_profile_ready.
Answer(r) == IF gateway'[serving[r].of] = Absent THEN "refused" ELSE "ready"

Serve(r) ==
  /\ At(r, "calling") /\ Control(serving[r].of)
  /\ To(r, Answer(r))
  /\ UNCHANGED <<profiles, late, staged, api, hermes, work>>

ServeLate(t) ==
  /\ Control(t) /\ late' = late \ {t}
  /\ UNCHANGED <<profiles, serving, staged, api, hermes, work>>

-----------------------------------------------------------------------------
(* A deployment, and the import of the staged bundles. *)

Reserved == {t \in Tenant : profiles[t] # NoRow}
Staged == {t \in Tenant : staged[t] # Absent}
Gone == [t \in Tenant |-> Absent]

\* The services stop: requests and control threads are gone, a reservation is rolled back.
StopServices(release) ==
  /\ work.at = "none" /\ api # 0 /\ release > api
  /\ api' = 0 /\ hermes' = FALSE
  /\ serving' = [r \in Request |-> Idle] /\ late' = {} /\ gateway' = Gone
  /\ work' = [at |-> "reconcile", todo |-> Reserved, half |-> {}, was |-> api,
              release |-> release, failures |-> work.failures, settled |-> FALSE]
  /\ UNCHANGED <<profiles, staged, runtime>>

Turn(t) == t \in IF work.half = {} THEN work.todo ELSE work.half
Half(t) == work' = [work EXCEPT !.half = {t}]
Done(t) == work' = [work EXCEPT !.half = {}, !.todo = @ \ {t}]

\* reconcile_profile_bundle replaces one file after the other; .env does not change.
ReconcileBundle(t) ==
  /\ work.at = "reconcile" /\ Turn(t)
  /\ \/ /\ staged[t] = Absent
        /\ Stage(t, BundleOf(t, work.release)) /\ Done(t)
     \/ /\ staged[t] # Absent /\ work.half = {}
        /\ staged' = [staged EXCEPT ![t].config = work.release] /\ Half(t)
     \/ /\ work.half = {t}
        /\ staged' = [staged EXCEPT ![t].soul = work.release] /\ Done(t)
  /\ UNCHANGED <<profiles, serving, late, runtime, gateway, api, hermes>>

\* The API of the release starts before Hermes.
StartApi ==
  /\ work.at = "reconcile" /\ work.todo = {}
  /\ api' = work.release
  /\ work' = [work EXCEPT !.at = "import", !.todo = Staged]
  /\ UNCHANGED <<profiles, serving, late, staged, runtime, gateway, hermes>>

\* reconcile_hermes_profiles.sh by hand.
BeginImport ==
  /\ work.at = "none" /\ api # 0
  /\ work' = [work EXCEPT !.at = "import", !.todo = Staged, !.was = 0]
  /\ UNCHANGED <<profiles, serving, late, staged, runtime, gateway, api, hermes>>

\* Mutant of ImportBundle: a runtime that is there is kept.
ImportMissing(t) ==
  /\ work.at = "import" /\ Turn(t)
  /\ runtime' = [runtime EXCEPT ![t] = IF @ = Absent THEN staged[t] ELSE @] /\ Done(t)
  /\ UNCHANGED <<profiles, serving, late, staged, gateway, api, hermes>>

\* import-profiles.sh installs .env, config.yaml and SOUL.md over what is there.
ImportBundle(t) ==
  /\ work.at = "import" /\ Turn(t)
  /\ \/ /\ work.half = {} /\ Half(t)
        /\ runtime' = [runtime EXCEPT ![t].port = staged[t].port, ![t].config = staged[t].config]
     \/ /\ work.half = {t} /\ Done(t)
        /\ runtime' = [runtime EXCEPT ![t].soul = staged[t].soul]
  /\ UNCHANGED <<profiles, serving, late, staged, gateway, api, hermes>>

Loaded == [t \in Tenant |-> IF runtime[t].port = 0 THEN Absent ELSE runtime[t]]

\* The container is created anew and every runtime gets its gateway; the calls it had are lost.
StartHermes ==
  /\ work.at = "import" /\ work.todo = {}
  /\ hermes' = TRUE /\ late' = {} /\ gateway' = Loaded
  /\ serving' = [r \in Request |-> IF At(r, "calling") THEN [serving[r] EXCEPT !.at = "refused"]
                                  ELSE serving[r]]
  /\ work' = [work EXCEPT !.at = "none", !.settled = @ \/ work.was # 0]
  /\ UNCHANGED <<profiles, staged, runtime, api>>

\* A deployment that fails brings the images back that ran before it, and no staged bundle.
WorkFails ==
  /\ work.at # "none" /\ work.failures < MaxFailures
  /\ work' = [work EXCEPT !.at = "none", !.todo = {}, !.half = {}, !.settled = FALSE,
                          !.failures = @ + 1]
  /\ IF work.was = 0 THEN UNCHANGED <<api, hermes, gateway>>
     ELSE api' = work.was /\ hermes' = TRUE /\ gateway' = Loaded
  /\ UNCHANGED <<profiles, serving, late, staged, runtime>>

Next ==
  \/ \E r \in Request :
       \/ CommitReservation(r) \/ Materialize(r) \/ Serve(r)
       \/ ActivationFails(r) \/ Activated(r)
       \/ \E t \in Tenant : Reserve(r, t) \/ UseExisting(r, t)
  \/ \E t \in Tenant : RestartProfile(t) \/ ReconcileBundle(t) \/ ImportBundle(t)
  \/ \E t \in late : ServeLate(t)
  \/ \E release \in Release : StopServices(release)
  \/ StartApi \/ BeginImport \/ StartHermes \/ WorkFails

Spec == Init /\ [][Next]_vars

-----------------------------------------------------------------------------
(* Properties. *)

\* A profile is what the database committed, wherever it is found: nothing is staged, copied
\* or started before its reservation is committed or with the coordinates of another, and an
\* active profile has a runtime.
ReservationIsHonoured ==
  \A t \in Tenant :
    /\ {staged[t].port, runtime[t].port, gateway[t].port} \subseteq {0, profiles[t].port}
    /\ profiles[t].status = "active" => runtime[t].port # 0

\* After a deployment that succeeded every runtime is the whole bundle of the release that
\* runs, and no gateway runs another, although requests, late control threads, restarts and
\* imports by hand went on meanwhile.
SettledServesTheRelease ==
  work.at = "none" /\ work.settled =>
    \A t \in Tenant : /\ runtime[t] \in {Absent, BundleOf(t, api)}
                      /\ gateway[t] \in {Absent, runtime[t]}

=============================================================================
