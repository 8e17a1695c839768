----------------------------- MODULE MCServices -----------------------------
(***************************************************************************)
(* The services around the message path for TLC, side by side.  They share *)
(* no state, so a behaviour runs one of them, chosen by part, and leaves   *)
(* the others where they start.                                            *)
(***************************************************************************)
EXTENDS Integers, FiniteSets, TLC

CONSTANTS
  Process, Tenant, User, None,
  Questions, Value, \* the questions of the business profile, and their answers
  MaxRevision,      \* bound: changes of the profile, and of the onboarding saga
  MaxAttempt,       \* bound: initial syncs of the saga
  MaxBoundary,      \* bound: replacements of its store boundary
  MaxRelease, Contract, Auth  \* releases, those with the context contract, and auth boundaries

VARIABLES
  part,
  store, born, conn, rows, runs, pull,
  action, sent, call, holder, open, actor, mcp, request,
  phase, holds, current, sub, reachable, due, published, row, copies, at, source,
  saga, tenant, owner, boundary, job, hermes, operation,
  state, armed, page, said,
  env, record, stamp, head, schema, live, outer, inner, mark, flow,
  profiles, serving, late, staged, runtime, gateway, api, box, work,
  gates, kept, saved, docker, installed, tool, told,
  kernel, files, backup, script, result,
  mode, challenges, lock, sessions, approved, guesses, visit,
  fleetRows, onboarded, written, helper, token, reconciled, syncs, happened,
  config, check,
  zone, windows, orders, read

Sync == INSTANCE BumpaSync WITH
  Worker <- Process, Order <- {1, 2}, Existing <- {1}, DayOf <- <<1, 2>>, Window <- {{2}, {1, 2}},
  PageSize <- 1, MaxGeneration <- 2, MaxRevision <- 2, MaxKey <- 2
Connector == INSTANCE ConnectorActions WITH
  Decider <- Process, Action <- {"a1"}, MessageOf <- [a \in {"a1"} |-> "m1"], MaxCredential <- 2
Insight == INSTANCE InsightDelivery WITH
  Worker <- Process, MaxSlot <- 1, MaxRevision <- 2, MaxGeneration <- 2
Saga == INSTANCE Onboarding WITH
  Operator <- Process,
  reachable <- owner, profile <- hermes, request <- operation
Profile == INSTANCE BusinessProfile
Release == INSTANCE Promotion
Hermes == INSTANCE HermesProfiles WITH
  Request <- Process, MaxPort <- 2, MaxRelease <- 2, MaxFailures <- 1, hermes <- box
Gate == INSTANCE OriginGate WITH
  MaxSet <- 2
Host == INSTANCE HostRules WITH
  live <- kernel, said <- result
Login == INSTANCE WebLogin WITH
  Request <- Process, MaxChallenge <- 2, MaxSession <- 2, MaxAttempts <- 1,
  holder <- lock, request <- visit
Fleet == INSTANCE FleetOnboarding WITH
  Helper <- Process, Phone <- {"a", "b", "c"}, Stores <- 2, MaxEvents <- 2,
  Files <- {[operator |-> "a", owner |-> <<"a", "b">>, key |-> <<1, 2>>, allowed |-> {2}],
            [operator |-> "c", owner |-> <<"c", "a">>, key |-> <<2, 2>>, allowed |-> {}]},
  profiles <- reconciled, session <- token, jobs <- syncs, events <- happened,
  rows <- fleetRows, applied <- onboarded, tx <- written
Alerts == INSTANCE HostAlerts WITH
  DeviceOf <- [p \in {"/", "/var", "/srv"} |-> IF p = "/srv" THEN 2 ELSE 1],
  Blocks <- {<<100, 90, 85>>, <<100, 18, 12>>, <<100, 20, 15>>, <<0, 0, 0>>},
  Inodes <- {<<>>, <<1000, 160, 160>>, <<100, 3, 3>>},
  Threshold <- 85, Attempts <- 2
Reads == INSTANCE BusinessReads WITH
  LastDay <- 3, DayLength <- 2, Zone <- {0, 1}, MaxWindows <- 2, MaxOrders <- 1

\* None is no process, and no job of the insights.
ASSUME NoneAssumption == None \notin Process /\ None \notin Insight!JobKey

\* A profile has questions, no answer is 0, which stands for none, a store may connect, and
\* there is a release that runs.
ASSUME ServicesAssumption ==
  /\ Questions \in Nat \ {0} /\ Value \subseteq Nat \ {0}
  /\ MaxRevision \in Nat /\ MaxAttempt \in Nat /\ MaxBoundary \in Nat \ {0}
  /\ MaxRelease \in Nat \ {0}

syncVars == <<store, born, conn, rows, runs, pull>>
connectorVars == <<action, sent, call, holder, open, actor, mcp, request>>
insightVars == <<phase, holds, current, sub, reachable, due, published, row, copies, at, source>>
sagaVars == <<saga, tenant, owner, boundary, job, hermes, operation>>
profileVars == <<state, armed, page, said>>
releaseVars == <<env, record, stamp, head, schema, live, outer, inner, mark, flow>>
hermesVars == <<profiles, serving, late, staged, runtime, gateway, api, box, work>>
gateVars == <<gates, kept, saved, docker, installed, tool, told>>
hostVars == <<kernel, files, backup, script, result>>
loginVars == <<mode, challenges, lock, sessions, approved, guesses, visit>>
fleetVars == <<fleetRows, onboarded, written, helper, token, reconciled, syncs, happened>>
alertVars == <<config, check>>
readVars == <<zone, windows, orders, read>>
vars ==
  <<part, syncVars, connectorVars, insightVars, sagaVars, profileVars, releaseVars, hermesVars,
  gateVars, hostVars, loginVars, fleetVars, alertVars, readVars>>

-----------------------------------------------------------------------------
Init ==
  /\ part \in
       {"sync", "connector", "insight", "saga", "profile", "release", "hermes", "gate", "host",
       "login", "fleet", "alerts", "reads"}
  /\ Sync!Init /\ Connector!Init /\ Insight!Init /\ Saga!Init /\ Profile!Init
  /\ Release!Init /\ Hermes!Init /\ Gate!Init /\ Host!Init /\ Login!Init
  /\ Fleet!Init /\ Alerts!Init /\ Reads!Init
  /\ part # "release" => env.auth = CHOOSE auth \in Auth : TRUE
  /\ part # "host" => files = <<>>
  /\ part # "login" => mode = "otp"
  /\ part # "alerts" => config = "absent"
  /\ part # "reads" => zone = 0

SyncStep ==
  /\ part = "sync" /\ Sync!Next
  /\ UNCHANGED
       <<part, connectorVars, insightVars, sagaVars, profileVars, releaseVars, hermesVars,
         gateVars, hostVars, loginVars, fleetVars, alertVars, readVars>>

ConnectorStep ==
  /\ part = "connector" /\ Connector!Next
  /\ UNCHANGED
       <<part, syncVars, insightVars, sagaVars, profileVars, releaseVars, hermesVars, gateVars,
         hostVars, loginVars, fleetVars, alertVars, readVars>>

InsightStep ==
  /\ part = "insight" /\ Insight!Next
  /\ UNCHANGED
       <<part, syncVars, connectorVars, sagaVars, profileVars, releaseVars, hermesVars,
         gateVars, hostVars, loginVars, fleetVars, alertVars, readVars>>

SagaStep ==
  /\ part = "saga" /\ Saga!Next
  /\ UNCHANGED
       <<part, syncVars, connectorVars, insightVars, profileVars, releaseVars, hermesVars,
         gateVars, hostVars, loginVars, fleetVars, alertVars, readVars>>

ProfileStep ==
  /\ part = "profile" /\ Profile!Next
  /\ UNCHANGED
       <<part, syncVars, connectorVars, insightVars, sagaVars, releaseVars, hermesVars,
         gateVars, hostVars, loginVars, fleetVars, alertVars, readVars>>

ReleaseStep ==
  /\ part = "release" /\ Release!Next
  /\ UNCHANGED
       <<part, syncVars, connectorVars, insightVars, sagaVars, profileVars, hermesVars,
         gateVars, hostVars, loginVars, fleetVars, alertVars, readVars>>

\* Bound: a deployment or import meets the profile of one tenant.
HermesStep ==
  /\ part = "hermes" /\ Hermes!Next
  /\ (Cardinality(Hermes!Reserved) > 1 => work.at = "none")'
  /\ UNCHANGED
       <<part, syncVars, connectorVars, insightVars, sagaVars, profileVars, releaseVars,
         gateVars, hostVars, loginVars, fleetVars, alertVars, readVars>>

GateStep ==
  /\ part = "gate" /\ Gate!Next
  /\ UNCHANGED
       <<part, syncVars, connectorVars, insightVars, sagaVars, profileVars, releaseVars,
         hermesVars, hostVars, loginVars, fleetVars, alertVars, readVars>>

HostStep ==
  /\ part = "host" /\ Host!Next
  /\ UNCHANGED
       <<part, syncVars, connectorVars, insightVars, sagaVars, profileVars, releaseVars,
         hermesVars, gateVars, loginVars, fleetVars, alertVars, readVars>>

LoginStep ==
  /\ part = "login" /\ Login!Next
  /\ UNCHANGED
       <<part, syncVars, connectorVars, insightVars, sagaVars, profileVars, releaseVars,
         hermesVars, gateVars, hostVars, fleetVars, alertVars, readVars>>

FleetStep ==
  /\ part = "fleet" /\ Fleet!Next
  /\ UNCHANGED
       <<part, syncVars, connectorVars, insightVars, sagaVars, profileVars, releaseVars,
         hermesVars, gateVars, hostVars, loginVars, alertVars, readVars>>

AlertStep ==
  /\ part = "alerts" /\ Alerts!Next
  /\ UNCHANGED
       <<part, syncVars, connectorVars, insightVars, sagaVars, profileVars, releaseVars,
         hermesVars, gateVars, hostVars, loginVars, fleetVars, readVars>>

ReadStep ==
  /\ part = "reads" /\ Reads!Next
  /\ UNCHANGED
       <<part, syncVars, connectorVars, insightVars, sagaVars, profileVars, releaseVars,
         hermesVars, gateVars, hostVars, loginVars, fleetVars, alertVars>>

Next ==
  \/ SyncStep \/ ConnectorStep \/ InsightStep \/ SagaStep \/ ProfileStep \/ ReleaseStep
  \/ HermesStep \/ GateStep \/ HostStep \/ LoginStep \/ FleetStep \/ AlertStep \/ ReadStep

Spec == Init /\ [][Next]_vars

Symmetry ==
  Permutations(Process) \cup Permutations(Tenant)

-----------------------------------------------------------------------------
\* Every variable has its type.
TypeOK ==
  /\ Sync!TypeOK /\ Connector!TypeOK /\ Insight!TypeOK /\ Saga!TypeOK /\ Profile!TypeOK
  /\ Release!TypeOK /\ Hermes!TypeOK /\ Gate!TypeOK /\ Host!TypeOK /\ Login!TypeOK
  /\ Fleet!TypeOK /\ Alerts!TypeOK /\ Reads!TypeOK

\* What the readers of the synced orders count is, for every day, the answer of the newest
\* pull, and it belongs to the store and key the connection has now; and a number a tool
\* tells is that of the days it was asked about.
SyncedDataIsCurrent ==
  /\ Sync!DayIsItsNewestPull /\ Sync!BoundaryIsFenced
  /\ Reads!NumbersAreOfTheDays

\* A pull that ends as available is whole, although the store changes between its pages.
PullIsWhole == Sync!PullIsWhole

\* An action is written at most once, one that was written reads so, and what the user was
\* told of it stays true.
ActionsAreTrue == Connector!SentOnceAndRecorded /\ Connector!AnswersAreTrue

\* A write goes out only as previewed, approved and authorized.
SentAsPreviewed == Connector!SentAsPreviewed

\* A slot of a subscription brings at most one summary.
OneSummaryPerSlot == Insight!OneSummaryPerSlot

\* A summary goes out only as its subscriber wants it when it is sent.
SentAsWanted == Insight!SentAsWanted

\* The onboarding saga moves one step at a time, never back, and completes for good.
StepsInOrder == Saga!StepsInOrder

\* The last answer to every question is kept, and the revision of a page stands for all it
\* shows.
ProfileIsKept == Profile!NothingSaidIsLost /\ Profile!RevisionNamesTheProfile

\* A host that asks for no operator agrees with itself, and no release runs against a schema
\* it cannot use.
HostIsConsistent == Release!ClearHostAgrees /\ Release!WritersFitSchema

\* What a promotion archives is so.
TerminalIsTrue == Release!TerminalIsTrue

\* A Hermes profile is what the database committed, wherever it is found, and after a
\* deployment every runtime is the whole bundle of its release.
ProfilesAreAsCommitted == Hermes!ReservationIsHonoured /\ Hermes!SettledServesTheRelease

\* Docker serves behind its gates, the host's rules let in whom they let in before, the
\* commands say what both are, and the disk check says when the host is nearly full.
HostIsGuarded ==
  /\ Gate!WebIsGated /\ Gate!ReportsAreTrue
  /\ Host!AccessIsKept /\ Host!SaidIsSo
  /\ Alerts!AlertsAreTrue

\* A challenge buys at most one session, before the limit of its attempts.
OneChallengeOneSession == Login!OneChallengeOneSession

\* The onboarded stores are whole, and what the helper said of them is true.
FleetIsWhole == Fleet!StoresAreWhole /\ Fleet!SaidIsTrue

=============================================================================
