--------------------------- MODULE FleetOnboarding ---------------------------
(***************************************************************************)
(* Onboarding the stores of a secret file in production                    *)
(* (scripts/production_onboard.py over SSH, app/cli/onboard.py in the API  *)
(* container).  Every store is one transaction of upserts in READ          *)
(* COMMITTED, first as a dry run; what makes concurrent runs agree are the *)
(* unique keys alone.  Audit, Hermes profiles and sync canaries follow.    *)
(* Stores are numbered in the order of the file.                           *)
(***************************************************************************)
EXTENDS Integers, Sequences, FiniteSets, TLC

CONSTANTS
  Helper,    \* processes of the helper script
  Phone,     \* phones; a user is known by its primary one
  Stores,    \* the number of stores in a secret file
  Files,     \* secret files: the operator's phone, owners, keys, --allow-dataset-error
  None,
  MaxEvents  \* bound: starts of a helper, and acts of others

VARIABLES
  rows,     \* committed rows by their unique key
  applied,  \* stores with an audit row tenant.onboarding.applied, and who applied it
  tx,       \* for each helper the rows its store's open transaction has written or locked
  helper,   \* for each helper: where it stands
  session,  \* the auth session of each helper's token: none, long, short
  profiles, \* stores whose Hermes profile is provisioned, and ready
  jobs,     \* for each helper the sync job it queued, and for each store the newest run
  events    \* those there were

vars == <<rows, applied, tx, helper, session, profiles, jobs, events>>

Store == 1..Stores
Nothing == <<>>
Quality == {"complete", "partial", "transient", "broken"}
Step == <<"operator", "tenant", "owner", "membership", "phone", "bumpa", "end">>

Key(table, store, phone) == [table |-> table, store |-> store, phone |-> phone]
TenantRow(s) == Key("tenants", s, None)
UserRow(p) == Key("users", None, p)
Role(p) == Key("platform_roles", None, p)
Member(s, p) == Key("tenant_memberships", s, p)
Identity(p) == Key("phone_identities", None, p)
Connection(s) == Key("bumpa_connections", s, None)

Idle == [at |-> "idle"]
At(h, stage) == helper[h].at = stage
Go(h, new) == helper' = [helper EXCEPT ![h] = new]
File(h) == helper[h].file
Of(h) == helper[h].store
Owner(h) == File(h).owner[Of(h)]
Seen(h) == tx[h] @@ rows

TypeOK ==
  /\ applied \subseteq Store \X Phone
  /\ \A h \in Helper : helper[h].at \in {"idle", "plan", "apply", "audit", "issue", "shorten",
       "list", "provision", "reconcile", "ready", "queue", "poll", "judge", "failed", "done"}
  /\ session \in [Helper -> {"none", "long", "short"}]
  /\ profiles \in [Store -> {"none", "provisioned", "ready"}]
  /\ events \in 0..MaxEvents

Init ==
  /\ rows = Nothing /\ applied = {}
  /\ tx = [h \in Helper |-> Nothing]
  /\ helper = [h \in Helper |-> Idle]
  /\ session = [h \in Helper |-> "none"]
  /\ profiles = [s \in Store |-> "none"]
  /\ jobs = [own |-> [h \in Helper |-> None], newest |-> [s \in Store |-> None]]
  /\ events = 0

-----------------------------------------------------------------------------
(* app.cli.onboard *)

\* What the steps find or insert: _upsert_operator and so on.
Operator(h) == UserRow(File(h).operator) :> "active" @@ Role(File(h).operator) :> "superadmin"
ActiveTenant(h) == TenantRow(Of(h)) :> "active"
OwnerUser(h) == UserRow(Owner(h)) :> "active"
Membership(h) == Member(Of(h), Owner(h)) :> "owner"
OwnPhone(h) == Identity(Owner(h)) :> [store |-> Of(h), status |-> "approved"]
Bumpa(h) == Connection(Of(h)) :> File(h).key[Of(h)]

Wanted(h) ==
  LET step == Step[helper[h].step]
  IN CASE step = "operator" -> Operator(h)
       [] step = "tenant" -> ActiveTenant(h)
       [] step = "owner" -> OwnerUser(h)
       [] step = "membership" -> Membership(h)
       [] step = "phone" -> OwnPhone(h)
       [] step = "bumpa" -> Bumpa(h)

\* Mutant of Accepts: the conflicting owner is not looked for.
AcceptsOwners(h, want) ==
  \A k \in DOMAIN want \cap DOMAIN Seen(h) : Seen(h)[k] = want[k] \/ k = Connection(Of(h))

\* A row that is found must be the wanted one, only the connection is replaced; and a tenant has
\* no other active owner.
Accepts(h, want) ==
  /\ \A k \in DOMAIN want \cap DOMAIN Seen(h) : Seen(h)[k] = want[k] \/ k = Connection(Of(h))
  /\ Step[helper[h].step] = "membership" =>
       ~ \E p \in Phone \ {Owner(h)} :
           Member(Of(h), p) \in DOMAIN Seen(h) /\ Seen(h)[Member(Of(h), p)] = "owner"

\* An insert waits for the transaction that inserted its key and then fails; the connection is
\* read FOR UPDATE.  A key found committed is neither.
Writes(h, want) == {k \in DOMAIN want : k \notin DOMAIN Seen(h) \/ k = Connection(Of(h))}
Free(h, keys) == \A other \in Helper \ {h} : keys \cap DOMAIN tx[other] = {}

Upserting(h) == (At(h, "plan") \/ At(h, "apply")) /\ Step[helper[h].step] # "end"

Upsert(h) ==
  /\ Upserting(h)
  /\ LET want == Wanted(h)
         new == Writes(h, want)
     IN /\ Accepts(h, want) /\ Free(h, new)
        /\ tx' = [tx EXCEPT ![h] = [k \in new |-> want[k]] @@ @]
  /\ Go(h, [helper[h] EXCEPT !.step = @ + 1])
  /\ UNCHANGED <<rows, applied, session, profiles, jobs, events>>

\* The store after this one, the stage after the last one; a helper that gave up goes nowhere.
Onward(h, next) ==
  IF helper[h].gone THEN [helper[h] EXCEPT !.at = "failed"]
  ELSE IF Of(h) < Stores THEN [helper[h] EXCEPT !.store = @ + 1, !.step = 1]
  ELSE [helper[h] EXCEPT !.at = next, !.store = 1, !.step = 1]

DryRun(h) ==
  /\ At(h, "plan") /\ Step[helper[h].step] = "end"
  /\ tx' = [tx EXCEPT ![h] = Nothing]
  /\ \E next \in {"done", "apply"} : Go(h, Onward(h, next))
  /\ UNCHANGED <<rows, applied, session, profiles, jobs, events>>

Commit(h) ==
  /\ At(h, "apply") /\ Step[helper[h].step] = "end"
  /\ rows' = Seen(h) /\ tx' = [tx EXCEPT ![h] = Nothing]
  /\ applied' = applied \cup {<<Of(h), File(h).operator>>}
  /\ Go(h, Onward(h, "audit"))
  /\ UNCHANGED <<session, profiles, jobs, events>>

\* The provider refuses the key, a row does not fit, a key is taken, the database fails.
Rejected(h) ==
  /\ At(h, "plan") \/ At(h, "apply")
  /\ tx' = [tx EXCEPT ![h] = Nothing]
  /\ Go(h, [helper[h] EXCEPT !.at = "failed"])
  /\ UNCHANGED <<rows, applied, session, profiles, jobs, events>>

\* ssh times out or is killed, while the CLI in the container goes on.
GiveUp(h) ==
  /\ At(h, "plan") \/ At(h, "apply")
  /\ ~helper[h].gone
  /\ Go(h, [helper[h] EXCEPT !.gone = TRUE])
  /\ UNCHANGED <<rows, applied, tx, session, profiles, jobs, events>>

-----------------------------------------------------------------------------
(* production_onboard.py *)

Has(k, value) == k \in DOMAIN rows /\ rows[k] = value

\* A stage under a new token, and what is said of a store.
Under(now, work) == [now EXCEPT !.at = "issue", !.work = work]
Says(h, what) == [helper[h] EXCEPT !.said = @ \cup {<<what, Of(h)>>}]

\* main: any stage may be asked for by itself, all of them by "all".
Begin(h, stage, then, file) ==
  /\ helper[h].at \in {"idle", "failed", "done"} /\ events < MaxEvents
  /\ events' = events + 1
  /\ Go(h, [at |-> stage, file |-> file, store |-> 1, step |-> 1, gone |-> FALSE, work |-> "list",
            then |-> then, said |-> {}])
  /\ session' = [session EXCEPT ![h] = "none"]
  /\ UNCHANGED <<rows, applied, tx, profiles, jobs>>

\* The stores of the file are as the file says, each with one owner, and exactly one of the
\* owners is the operator.
Audited(h, s) ==
  LET file == File(h)
      p == file.owner[s]
  IN /\ Has(UserRow(file.operator), "active") /\ Has(Role(file.operator), "superadmin")
     /\ Has(TenantRow(s), "active") /\ Has(UserRow(p), "active")
     /\ {q \in Phone : Has(Member(s, q), "owner")} = {p}
     /\ Has(Identity(p), [store |-> s, status |-> "approved"])
     /\ Has(Connection(s), file.key[s])
     /\ \E q \in Phone : <<s, q>> \in applied

Overlap(file) == Cardinality({s \in Store : file.owner[s] = file.operator})

\* One store after the other, each from what is committed by then.
Audit(h) ==
  /\ At(h, "audit")
  /\ IF Audited(h, Of(h)) /\ (Of(h) = Stores => Overlap(File(h)) = 1)
     THEN \E next \in {"done", "issue"} :
            Go(h, [Onward(h, next) EXCEPT !.said = Says(h, "audited").said])
     ELSE Go(h, [helper[h] EXCEPT !.at = "failed"])
  /\ UNCHANGED <<rows, applied, tx, session, profiles, jobs, events>>

\* _issue_session: the session is created for the usual time, and shortened by a second commit
\* before its token is printed.
MayHave(h) ==
  IF helper[h].work \in {"list", "provision"} THEN Has(Role(File(h).operator), "superadmin")
  ELSE \E role \in {"owner", "admin"} : Has(Member(Of(h), Owner(h)), role)

Issue(h) ==
  /\ At(h, "issue") /\ MayHave(h)
  /\ session' = [session EXCEPT ![h] = "long"]
  /\ Go(h, [helper[h] EXCEPT !.at = "shorten"])
  /\ UNCHANGED <<rows, applied, tx, profiles, jobs, events>>

Shorten(h) ==
  /\ At(h, "shorten")
  /\ session' = [session EXCEPT ![h] = "short"]
  /\ Go(h, [helper[h] EXCEPT !.at = helper[h].work])
  /\ UNCHANGED <<rows, applied, tx, profiles, jobs, events>>

Working == {"list", "provision", "ready", "queue", "poll", "judge"}

\* finally: the token is revoked, also when the work under it failed, and the helper goes on.
Revoke(h, next) ==
  /\ session' = [session EXCEPT ![h] = "none"]
  /\ Go(h, next)

Breaks(h) ==
  /\ helper[h].at \in Working
  /\ Revoke(h, [helper[h] EXCEPT !.at = "failed"])
  /\ UNCHANGED <<rows, applied, tx, profiles, jobs, events>>

\* _tenant_ids: the tenants of all stores are found.
List(h) ==
  /\ At(h, "list") /\ \A s \in Store : TenantRow(s) \in DOMAIN rows
  /\ Revoke(h, Under(helper[h], helper[h].then))
  /\ UNCHANGED <<rows, applied, tx, profiles, jobs, events>>

Provision(h) ==
  /\ At(h, "provision")
  /\ profiles' = [profiles EXCEPT ![Of(h)] = IF @ = "none" THEN "provisioned" ELSE @]
  /\ IF Of(h) < Stores THEN Go(h, [helper[h] EXCEPT !.store = @ + 1]) /\ UNCHANGED session
     ELSE Revoke(h, [helper[h] EXCEPT !.at = "reconcile", !.store = 1])
  /\ UNCHANGED <<rows, applied, tx, jobs, events>>

\* The script makes every tenant's profile ready or fails; it is counted over all tenants.
Reconcile(h) ==
  /\ At(h, "reconcile")
  /\ \/ /\ profiles' = [s \in Store |-> IF profiles[s] = "none" THEN "none" ELSE "ready"]
        /\ Go(h, Under(helper[h], "ready"))
     \/ UNCHANGED profiles /\ Go(h, [helper[h] EXCEPT !.at = "failed"])
  /\ UNCHANGED <<rows, applied, tx, session, jobs, events>>

\* The store after this one under its own owner's token.
NextStore(h, work, last) ==
  IF Of(h) < Stores THEN [Under(helper[h], work) EXCEPT !.store = @ + 1] ELSE last

Ready(h) ==
  /\ At(h, "ready") /\ profiles[Of(h)] = "ready"
  /\ \E all \in BOOLEAN :
       Revoke(h, NextStore(h, "ready",
         IF all THEN [Under(helper[h], "list") EXCEPT !.then = "queue", !.store = 1]
         ELSE [helper[h] EXCEPT !.at = "done"]))
  /\ UNCHANGED <<rows, applied, tx, profiles, jobs, events>>

\* The canary of a store queues a job, and follows that job and the run it names.
Queue(h) ==
  /\ At(h, "queue") /\ Connection(Of(h)) \in DOMAIN rows
  /\ jobs' = [jobs EXCEPT !.own[h] = [store |-> Of(h), run |-> None, key |-> None]]
  /\ Go(h, [helper[h] EXCEPT !.at = "poll"])
  /\ UNCHANGED <<rows, applied, tx, session, profiles, events>>

Run(s, quality) == [quality |-> quality, key |-> rows[Connection(s)]]

Synced(h, quality) ==
  /\ jobs.own[h] # None /\ jobs.own[h].run = None
  /\ LET run == Run(jobs.own[h].store, quality)
     IN jobs' = [jobs EXCEPT !.own[h].run = run, !.newest[jobs.own[h].store] = run]
  /\ UNCHANGED <<rows, applied, tx, helper, session, profiles, events>>

\* A job that failed, or is not done in 240 seconds, breaks the canary.
Poll(h) ==
  /\ At(h, "poll") /\ jobs.own[h].run # None
  /\ Go(h, [helper[h] EXCEPT !.at = "judge"])
  /\ UNCHANGED <<rows, applied, tx, session, profiles, jobs, events>>

\* Mutant of Correlated: the newest run of the store is judged.
NewestRun(h) == jobs.newest[Of(h)]

Correlated(h) == jobs.own[h].run

\* A failed dataset is let pass where the operator named it and the evidence is a passing failure.
Fine(file, s, quality) ==
  \/ quality \in {"complete", "partial"}
  \/ quality = "transient" /\ s \in file.allowed

\* The list has only the runs of the current boundary.
Judge(h) ==
  /\ At(h, "judge")
  /\ Correlated(h).key = rows[Connection(Of(h))]
  /\ Fine(File(h), Of(h), Correlated(h).quality)
  /\ Revoke(h, [NextStore(h, "queue", [helper[h] EXCEPT !.at = "done"])
                EXCEPT !.said = Says(h, "synced").said])
  /\ UNCHANGED <<rows, applied, tx, profiles, jobs, events>>

\* The helper is killed, or ssh fails: the revocation does not happen.
Killed(h) ==
  /\ helper[h].at \notin {"idle", "plan", "apply", "failed", "done"}
  /\ Go(h, [helper[h] EXCEPT !.at = "failed"])
  /\ UNCHANGED <<rows, applied, tx, session, profiles, jobs, events>>

Expire(h) ==
  /\ session[h] = "short"
  /\ session' = [session EXCEPT ![h] = "none"]
  /\ UNCHANGED <<rows, applied, tx, helper, profiles, jobs, events>>

-----------------------------------------------------------------------------
(* Others: admins of a store, operators, the person, the nightly sync. *)

\* add_team_member never makes or changes an owner.
AddMember(s, p) ==
  /\ Has(TenantRow(s), "active") /\ Member(s, p) \notin DOMAIN rows
  /\ \A h \in Helper : {UserRow(p), Member(s, p)} \cap DOMAIN tx[h] = {}
  /\ rows' = Member(s, p) :> "admin" @@ UserRow(p) :> "active" @@ rows

\* update_tenant; STOP.
Changed(k, value) == k \in DOMAIN rows /\ rows' = [rows EXCEPT ![k] = value]

Other ==
  /\ events < MaxEvents /\ events' = events + 1
  /\ \/ \E s \in Store, p \in Phone : AddMember(s, p) /\ UNCHANGED jobs
     \/ \E s \in Store : Changed(TenantRow(s), "suspended") /\ UNCHANGED jobs
     \/ \E p \in Phone :
          /\ Identity(p) \in DOMAIN rows
          /\ Changed(Identity(p), [rows[Identity(p)] EXCEPT !.status = "opted out"])
          /\ UNCHANGED jobs
     \/ \E s \in Store, quality \in Quality :
          /\ Connection(s) \in DOMAIN rows
          /\ jobs' = [jobs EXCEPT !.newest[s] = Run(s, quality)] /\ UNCHANGED rows
  /\ UNCHANGED <<applied, tx, helper, session, profiles>>

Next ==
  \/ \E h \in Helper :
       \/ \E file \in Files : Begin(h, "plan", "provision", file)
       \/ \E file \in Files : Begin(h, "audit", "provision", file)
       \/ \E file \in Files, then \in {"provision", "queue"} : Begin(h, "issue", then, file)
       \/ Upsert(h) \/ DryRun(h) \/ Commit(h) \/ Rejected(h) \/ GiveUp(h)
       \/ Audit(h) \/ Issue(h) \/ Shorten(h) \/ Breaks(h)
       \/ List(h) \/ Provision(h) \/ Reconcile(h) \/ Ready(h)
       \/ Queue(h) \/ Poll(h) \/ Judge(h) \/ Killed(h) \/ Expire(h)
       \/ \E quality \in Quality : Synced(h, quality)
  \/ Other

Spec == Init /\ [][Next]_vars

-----------------------------------------------------------------------------
(* Properties. *)

Owners(s) == {p \in Phone : Has(Member(s, p), "owner")}

\* A tenant of the fleet exists with one owner, a phone that routes to it and a connection, or
\* not at all; a phone owns one of them; and nobody is superadmin but by an applied store:
\* whatever runs race over the same stores and phones, are dry, fail or are given up.
StoresAreWhole ==
  /\ \A s \in Store :
       IF TenantRow(s) \in DOMAIN rows
       THEN /\ Cardinality(Owners(s)) = 1
            /\ \A p \in Owners(s) : Identity(p) \in DOMAIN rows /\ rows[Identity(p)].store = s
            /\ Connection(s) \in DOMAIN rows
       ELSE Owners(s) = {} /\ Connection(s) \notin DOMAIN rows
  /\ \A p \in Phone : Role(p) \in DOMAIN rows => \E s \in Store : <<s, p>> \in applied

\* What a run says stays true of what cannot change behind it, and no token it still has
\* work for outlives five minutes, nor any its work.
SaidIsTrue ==
  \A h \in Helper : helper[h].at # "idle" =>
    /\ \A s \in Store : <<"audited", s>> \in helper[h].said => Owners(s) = {File(h).owner[s]}
    /\ \A s \in Store :
         <<"synced", s>> \in helper[h].said /\ jobs.own[h].store = s
         => Fine(File(h), s, jobs.own[h].run.quality)
    /\ helper[h].at \in Working => session[h] # "long"
    /\ At(h, "done") => session[h] = "none"

=============================================================================
