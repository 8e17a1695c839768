------------------------------ MODULE BumpaSync ------------------------------
(***************************************************************************)
(* The commerce pulls of one tenant: run_sync of services/bumpa.py on any  *)
(* number of workers, the paginated pull of providers/bumpa.py over a      *)
(* store that changes meanwhile, the replacement of the connection, and    *)
(* what the readers of services/business_tools.py see.                     *)
(*                                                                         *)
(* A worker captures the connection, claims a generation, pulls without a  *)
(* lock, and publishes under the row lock of the connection if nothing of  *)
(* the boundary changed and no newer generation was published.  It may     *)
(* crash between any two transactions.                                     *)
(***************************************************************************)
EXTENDS Integers, FiniteSets, FiniteSetsExt

CONSTANTS
  Worker,         \* threads that run bumpa.sync
  Order,          \* the store's orders, 1 .. n in the order of their creation
  Existing,       \* those created before the model starts
  DayOf,          \* the day of each order
  Window,         \* the date ranges a sync may ask for, as sets of days
  PageSize,       \* orders per page
  MaxGeneration,  \* bound: claims of a generation
  MaxRevision,    \* bound: material replacements of the connection, plus one
  MaxKey          \* bound: keys saved for the connection

VARIABLES
  store,          \* the orders the provider has now
  born,           \* the orders the provider ever had
  conn,           \* the row of bumpa_connections
  rows,           \* the rows of bumpa_orders
  runs,           \* the rows of bumpa_sync_runs, by generation
  pull            \* what each worker is doing

vars == <<store, born, conn, rows, runs, pull>>

-----------------------------------------------------------------------------
(* Types. *)

Revision   == 1 .. MaxRevision
Key        == 1 .. MaxKey
Generation == 1 .. MaxGeneration
Boundary   == [revision : Revision, key : Key]

Connection ==
  [boundary : Boundary, claimed : 0 .. MaxGeneration, published : 0 .. MaxGeneration,
   fresh : 0 .. MaxGeneration,              \* last_successful_sync_at: the run that set it
   error : {"none", "failed", "degraded"}]  \* last_error

Row == [run : Generation, revision : Revision, state : {"active", "superseded"}]

(* The analytics of one pull, as classify_sync_completion tells them apart. *)
Datasets == {"typed", "no_profit", "missing"}

Run ==
  [status : {"success", "partial", "failed"}, quality : {"complete", "accepted_partial", "degraded", "failed"},
   revision : Revision, window : Window, orders : {"available", "error"},
   seen : SUBSET Order]

Phase == {"idle", "read", "pulling", "pulled", "failed"}

Pull ==
  [phase : Phase, boundary : Boundary, generation : 0 .. MaxGeneration, window : Window \cup {{}},
   page : Nat, total : Nat \cup {-1}, orders : {"open", "available", "error"},
   seen : SUBSET Order, throughout : SUBSET Order, ever : SUBSET Order]

Idle ==
  [phase |-> "idle", boundary |-> [revision |-> 1, key |-> 1], generation |-> 0, window |-> {},
   page |-> 1, total |-> -1, orders |-> "open", seen |-> {}, throughout |-> {}, ever |-> {}]

TypeOK ==
  /\ store \in SUBSET born
  /\ born \in SUBSET Order
  /\ conn \in Connection
  /\ DOMAIN rows \in SUBSET Order /\ \A o \in DOMAIN rows : rows[o] \in Row
  /\ DOMAIN runs \in SUBSET Generation /\ \A g \in DOMAIN runs : runs[g] \in Run
  /\ pull \in [Worker -> Pull]

Init ==
  /\ store = Existing
  /\ born = Existing
  /\ conn = [boundary |-> [revision |-> 1, key |-> 1], claimed |-> 0, published |-> 0,
             fresh |-> 0, error |-> "none"]
  /\ rows = << >>
  /\ runs = << >>
  /\ pull = [w \in Worker |-> Idle]

-----------------------------------------------------------------------------
(* The store, outside this program: orders are created with the newest place *)
(* in the listing (created_at, descending) and may be deleted.  An order keeps *)
(* its day.                                                                  *)

Within(S, window) == {o \in S : DayOf[o] \in window}

(* The n-th page of the orders of a window, and the number of the last page. *)
Page(window, n) ==
  LET listed == Within(store, window)
      rank(o) == Cardinality({x \in listed : x > o})
  IN {o \in listed : rank(o) \div PageSize = n - 1}

LastPage(total) == IF total = 0 THEN 1 ELSE (total + PageSize - 1) \div PageSize

(* What each open pull remembers of the store, for the properties only. *)
Witnessed(S) ==
  [w \in Worker |->
     IF pull[w].phase = "pulling"
     THEN [pull[w] EXCEPT !.throughout = @ \cap S,
                          !.ever = @ \cup Within(S, pull[w].window)]
     ELSE pull[w]]

Create ==
  /\ born # Order
  /\ LET o == Cardinality(born) + 1
     IN /\ store' = store \cup {o}
        /\ born' = born \cup {o}
        /\ pull' = Witnessed(store \cup {o})
  /\ UNCHANGED <<conn, rows, runs>>

Delete(o) ==
  /\ store' = store \ {o}
  /\ pull' = Witnessed(store \ {o})
  /\ UNCHANGED <<born, conn, rows, runs>>

-----------------------------------------------------------------------------
(* The connection. *)

(* connect_bumpa and replace_bumpa_connection, under the row lock: a new key  *)
(* always, and for another scope, timezone, currency or provider a new        *)
(* revision, with the health of the old one and every order of it gone.       *)
Replace(changed) ==
  /\ conn.boundary.key < MaxKey
  /\ changed => conn.boundary.revision < MaxRevision
  /\ conn' = [conn EXCEPT !.boundary.key = @ + 1,
                          !.boundary.revision = IF changed THEN @ + 1 ELSE @,
                          !.fresh = IF changed THEN 0 ELSE @,
                          !.error = "none"]
  /\ rows' = IF changed THEN << >> ELSE rows
  /\ UNCHANGED <<store, born, runs, pull>>

(* rotate_field_keys writes the same key under a new envelope. *)
RotateEnvelope ==
  /\ conn.boundary.key < MaxKey
  /\ conn' = [conn EXCEPT !.boundary.key = @ + 1]
  /\ UNCHANGED <<store, born, rows, runs, pull>>

-----------------------------------------------------------------------------
(* One sync. *)

(* The handler reads the connection and run_sync captures its boundary. *)
Capture(w, window) ==
  /\ pull[w].phase = "idle"
  /\ pull' = [pull EXCEPT ![w] = [Idle EXCEPT !.phase = "read", !.window = window,
                                               !.boundary = conn.boundary]]
  /\ UNCHANGED <<store, born, conn, rows, runs>>

(* Mutant: the captured boundary is not compared again. *)
AnyBoundary(b) == b \in Boundary

Matches(b) == conn.boundary = b

(* _claim_sync_generation: one UPDATE under the captured boundary, or a 409. *)
Claim(w) ==
  /\ pull[w].phase = "read"
  /\ conn.claimed < MaxGeneration
  /\ IF Matches(pull[w].boundary)
     THEN /\ conn' = [conn EXCEPT !.claimed = @ + 1]
          /\ pull' = [pull EXCEPT ![w].phase = "pulling",
                                  ![w].generation = conn.claimed + 1,
                                  ![w].throughout = Within(store, pull[w].window),
                                  ![w].ever = Within(store, pull[w].window)]
     ELSE /\ pull' = [pull EXCEPT ![w] = Idle]
          /\ conn' = conn
  /\ UNCHANGED <<store, born, rows, runs>>

Conclude(w, seen, orders) ==
  [Idle EXCEPT !.phase = "pulled", !.orders = orders, !.seen = seen, !.window = pull[w].window,
               !.boundary = pull[w].boundary, !.generation = pull[w].generation]

(* _sync_orders: one page.  The total must not change between two pages, an  *)
(* order already seen is skipped, and the last page must complete the total; *)
(* otherwise the whole pull of orders is an error and nothing of it is kept. *)
FetchPage(w) ==
  LET p     == pull[w]
      total == Cardinality(Within(store, p.window))
      last  == p.page >= LastPage(total)
      seen  == p.seen \cup Page(p.window, p.page)
  IN /\ p.phase = "pulling"
     /\ pull' = [pull EXCEPT ![w] =
          IF p.total \notin {-1, total} \/ (last /\ Cardinality(seen) # total)
          THEN Conclude(w, {}, "error")
          ELSE IF last THEN Conclude(w, seen, "available")
               ELSE [p EXCEPT !.page = @ + 1, !.total = total, !.seen = seen]]
     /\ UNCHANGED <<store, born, conn, rows, runs>>

(* Mutant: a later page fails and the evidence of the earlier ones is kept. *)
PageFailsUnnoticed(w) ==
  /\ pull[w].phase = "pulling"
  /\ pull' = [pull EXCEPT ![w] = Conclude(w, pull[w].seen, "available")]
  /\ UNCHANGED <<store, born, conn, rows, runs>>

(* A page that cannot be had or decoded after its retries. *)
PageFails(w) ==
  /\ pull[w].phase = "pulling"
  /\ pull' = [pull EXCEPT ![w] = Conclude(w, {}, "error")]
  /\ UNCHANGED <<store, born, conn, rows, runs>>

(* A rejected key, an exhausted rate limit, or no endpoint that answered. *)
Abort(w) ==
  /\ pull[w].phase = "pulling"
  /\ pull' = [pull EXCEPT ![w] = [Conclude(w, {}, "error") EXCEPT !.phase = "failed"]]
  /\ UNCHANGED <<store, born, conn, rows, runs>>

Failed(w) ==
  [status |-> "failed", quality |-> "failed", revision |-> pull[w].boundary.revision,
   window |-> pull[w].window, orders |-> "error", seen |-> {}]

(* The rows of the runs with the one of generation g. *)
RunsWith(g, run) == [h \in DOMAIN runs \cup {g} |-> IF h = g THEN run ELSE runs[h]]

(* _persist_extraction_failure: under the lock of the same boundary, or not at *)
(* all; the health of the connection only if no newer generation was claimed.  *)
PersistFailure(w) ==
  LET g == pull[w].generation
  IN /\ pull[w].phase = "failed"
     /\ pull' = [pull EXCEPT ![w] = Idle]
     /\ IF Matches(pull[w].boundary)
        THEN /\ runs' = RunsWith(g, Failed(w))
             /\ conn' = IF conn.claimed = g THEN [conn EXCEPT !.error = "failed"] ELSE conn
        ELSE UNCHANGED <<runs, conn>>
     /\ UNCHANGED <<store, born, rows>>

-----------------------------------------------------------------------------
(* Publication. *)

(* classify_sync_completion. *)
Quality(datasets, orders) ==
  CASE orders = "available" /\ datasets = "typed"     -> "complete"
    [] orders = "available" /\ datasets = "no_profit" -> "accepted_partial"
    [] OTHER                                          -> "degraded"

AdvancesFreshness(quality) == quality \in {"complete", "accepted_partial"}

(* _promote_orders: a retained order of the window that this pull did not      *)
(* return is superseded; one outside the window is not inferred absent.        *)
Promote(g, window, seen) ==
  [o \in DOMAIN rows \cup seen |->
     IF o \in seen THEN [run |-> g, revision |-> conn.boundary.revision, state |-> "active"]
     ELSE IF DayOf[o] \in window THEN [rows[o] EXCEPT !.run = g, !.state = "superseded"]
     ELSE rows[o]]

(* Mutant: the last to finish wins. *)
LastFinishWins(g) == conn.claimed >= g

(* _claim_publication_generation: newest start wins. *)
MayPublish(g) == conn.claimed >= g /\ conn.published < g

(* _order_publication_scope and _stage_sync_publication: orders count as available *)
(* only if all of them are dated, within the window and of the store's currency.    *)
Staged(w, complete) ==
  IF pull[w].orders = "available" /\ complete THEN "available" ELSE "error"

PublishedRun(w, orders, quality) ==
  [status |-> IF quality = "complete" THEN "success" ELSE "partial", quality |-> quality,
   revision |-> pull[w].boundary.revision, window |-> pull[w].window, orders |-> orders,
   seen |-> IF orders = "available" THEN pull[w].seen ELSE {}]

(* The publication of run_sync, one transaction. *)
Publish(w, datasets, complete) ==
  LET g       == pull[w].generation
      orders  == Staged(w, complete)
      quality == Quality(datasets, orders)
      current == AdvancesFreshness(quality)
  IN /\ pull[w].phase = "pulled"
     /\ Matches(pull[w].boundary)
     /\ MayPublish(g)
     /\ rows' = IF orders = "available" THEN Promote(g, pull[w].window, pull[w].seen) ELSE rows
     /\ runs' = RunsWith(g, PublishedRun(w, orders, quality))
     /\ conn' = [conn EXCEPT !.published = g,
                             !.fresh = IF current THEN g ELSE @,
                             !.error = IF current THEN "none" ELSE "degraded"]
     /\ pull' = [pull EXCEPT ![w] = Idle]
     /\ UNCHANGED <<store, born>>

(* A newer generation was published first: the run is kept as a failed one. *)
Superseded(w) ==
  /\ pull[w].phase = "pulled"
  /\ Matches(pull[w].boundary)
  /\ ~ MayPublish(pull[w].generation)
  /\ runs' = RunsWith(pull[w].generation, Failed(w))
  /\ pull' = [pull EXCEPT ![w] = Idle]
  /\ UNCHANGED <<store, born, conn, rows>>

(* The connection was replaced during the pull: 409, nothing is written. *)
Fenced(w) ==
  /\ pull[w].phase = "pulled"
  /\ ~ Matches(pull[w].boundary)
  /\ pull' = [pull EXCEPT ![w] = Idle]
  /\ UNCHANGED <<store, born, conn, rows, runs>>

(* The publication raises: it is rolled back and the run persisted as failed. *)
PublicationFails(w) ==
  /\ pull[w].phase = "pulled"
  /\ Matches(pull[w].boundary)
  /\ MayPublish(pull[w].generation)
  /\ pull' = [pull EXCEPT ![w] = [Conclude(w, {}, "error") EXCEPT !.phase = "failed"]]
  /\ UNCHANGED <<store, born, conn, rows, runs>>

(* The worker dies, or its job is taken from it. *)
Crash(w) ==
  /\ pull[w].phase # "idle"
  /\ pull' = [pull EXCEPT ![w] = Idle]
  /\ UNCHANGED <<store, born, conn, rows, runs>>

Sync(w) ==
  \/ \E window \in Window : Capture(w, window)
  \/ Claim(w) \/ FetchPage(w) \/ PageFails(w) \/ Abort(w) \/ PersistFailure(w)
  \/ \E datasets \in Datasets, complete \in BOOLEAN : Publish(w, datasets, complete)
  \/ Superseded(w) \/ Fenced(w) \/ PublicationFails(w) \/ Crash(w)

Next ==
  \/ Create
  \/ \E o \in store : Delete(o)
  \/ \E changed \in BOOLEAN : Replace(changed)
  \/ RotateEnvelope
  \/ \E w \in Worker : Sync(w)

Spec == Init /\ [][Next]_vars

-----------------------------------------------------------------------------
(* The readers of services/business_tools.py. *)

(* _publication_filters. *)
Evidenced(g) ==
  /\ g \in DOMAIN runs
  /\ runs[g].status \in {"success", "partial"}
  /\ runs[g].orders = "available"
  /\ runs[g].revision = conn.boundary.revision
  /\ g <= conn.published

(* published_orders_predicate: the orders a report or a tool may count. *)
Visible(day) ==
  {o \in DOMAIN rows : DayOf[o] = day /\ rows[o].state = "active" /\ Evidenced(rows[o].run)}

(* order_publication_coverage: the days a verified pull speaks for. *)
Covering(day) == {g \in Generation : Evidenced(g) /\ day \in runs[g].window}

-----------------------------------------------------------------------------
(* Properties. *)

(* The pulls that committed an answer for a day under the current boundary, *)
(* whether or not the readers accept their evidence.                       *)
Answers(day) ==
  {g \in DOMAIN runs : /\ runs[g].status # "failed" /\ runs[g].orders = "available"
                       /\ runs[g].revision = conn.boundary.revision
                       /\ day \in runs[g].window}

(* For every day, what the readers count is the answer of the newest pull that *)
(* covers the day: an older or slower pull never brings back what a newer one  *)
(* found gone, a day without a verified pull has no orders, and the coverage    *)
(* the readers are told of is that of the answers                               *)
(* (_promote_orders, _claim_publication_generation, published_orders_predicate). *)
DayIsItsNewestPull ==
  \A day \in {DayOf[o] : o \in Order} :
    /\ Covering(day) = Answers(day)
    /\ Visible(day) = IF Answers(day) = {} THEN {}
                      ELSE Within(runs[Max(Answers(day))].seen, {day})

(* A pull that ends as available is whole although it was read page by page from *)
(* a changing store: it has every order that was there all the time, and none     *)
(* that never was (the checks of _sync_orders).                                   *)
PullIsWhole ==
  [][\A w \in Worker :
       pull[w].phase = "pulling" /\ pull'[w].phase = "pulled" /\ pull'[w].orders = "available" =>
         /\ pull[w].throughout \subseteq pull'[w].seen
         /\ pull'[w].seen \subseteq pull[w].ever]_vars

(* Orders and freshness belong to the current boundary: a pull of the old store *)
(* that ends after the replacement leaves nothing behind (replace_bumpa_connection *)
(* and the fence of the publication).                                           *)
BoundaryIsFenced ==
  /\ \A o \in DOMAIN rows : rows[o].revision = conn.boundary.revision
  /\ conn.fresh # 0 => /\ conn.fresh \in DOMAIN runs
                       /\ runs[conn.fresh].revision = conn.boundary.revision
                       /\ AdvancesFreshness(runs[conn.fresh].quality)

=============================================================================
