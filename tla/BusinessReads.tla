---------------------------- MODULE BusinessReads ----------------------------
(***************************************************************************)
(* How the agent's business tools answer a question about a period         *)
(* (services/business_tools.py): they turn days of the store into moments, *)
(* ask which pulls speak for the days, and read the orders, each in a      *)
(* statement of its own that sees what is committed then, while syncs      *)
(* publish and the connection is replaced.                                 *)
(*                                                                         *)
(* The store is what BumpaSync keeps for its readers: the windows of the   *)
(* verified pulls of the current boundary, and the orders visible by them. *)
(* A question is an interval of days, whichever name the person gave it.   *)
(* Overview and trend read the coverage first, the breakdown and the       *)
(* performance of products the orders.                                     *)
(***************************************************************************)
EXTENDS Integers, FiniteSets, FiniteSetsExt, SequencesExt

CONSTANTS
  LastDay,    \* bound: the days anything happens on are 1 .. LastDay
  DayLength,  \* hours of a day
  Zone,       \* the offsets a store may have
  MaxWindows, \* bound: verified pulls of one boundary
  MaxOrders   \* bound: orders at a time

VARIABLES
  zone,     \* store_timezone
  windows,  \* <<from, to>> of the verified pulls
  orders,   \* the hours, of UTC, of the visible orders
  read      \* a tool call

vars == <<zone, windows, orders, read>>

Day == 1 .. LastDay
Period == {p \in Day \X Day : p[1] <= p[2]}
Hour == -DayLength .. (LastDay + 1) * DayLength

(* The day of an hour where the store is. *)
LocalDay(h) == (h + zone) \div DayLength

Idle == [at |-> "idle"]

TypeOK ==
  /\ zone \in Zone
  /\ windows \subseteq Period
  /\ orders \subseteq Hour
  /\ read.at \in {"idle", "first", "second", "told"}
  /\ read # Idle =>
       /\ read.kind \in {"coverage first", "orders first"}
       /\ read.period \in Period /\ read.covered \in BOOLEAN /\ read.found \subseteq Hour
       /\ read.moved \in {"no", "published", "replaced"}

Init == zone \in Zone /\ windows = {} /\ orders = {} /\ read = Idle

-----------------------------------------------------------------------------
(* The store. *)

(* What happened to the store under the call, for the properties only: a publication       *)
(* between its statements, or a replacement since it began.  A told answer is of its moment. *)
Published ==
  read' = IF read.at = "told" THEN Idle
          ELSE IF read.at = "second" /\ read.moved = "no" THEN [read EXCEPT !.moved = "published"]
          ELSE read

Replaced ==
  read' = IF read.at \in {"first", "second"} THEN [read EXCEPT !.moved = "replaced"] ELSE Idle

(* A pull of a window is published: the orders of its days are those it found. *)
Of(window) == {h \in Hour : LocalDay(h) \in window[1] .. window[2]}

Publish(window, found) ==
  /\ windows' = windows \cup {window}
  /\ Cardinality(windows') <= MaxWindows
  /\ orders' = (orders \ Of(window)) \cup found
  /\ Cardinality(orders') <= MaxOrders
  /\ Published
  /\ UNCHANGED zone

(* The connection is replaced by one of another store: nothing was pulled of it. *)
Replace(z) ==
  /\ zone' = z /\ windows' = {} /\ orders' = {}
  /\ Replaced

-----------------------------------------------------------------------------
(* The answer. *)

(* order_publication_coverage: the pulls by their first and last day, as far as no day is *)
(* left out.                                                                              *)
Sorted(ws) ==
  SetToSortSeq(ws, LAMBDA v, w : v[1] < w[1] \/ (v[1] = w[1] /\ v[2] < w[2]))

(* Mutant of Reached: the last pull that joins counts, not the farthest. *)
ReachedByLast(to, w, p) ==
  IF w[2] < p[1] \/ w[1] > p[2] \/ w[1] > to + 1 THEN to ELSE w[2]

(* One pull of the walk.  After a gap every later pull begins beyond it. *)
Reached(to, w, p) ==
  IF w[2] < p[1] \/ w[1] > p[2] \/ w[1] > to + 1 THEN to ELSE Max({to, w[2]})

Covered(p) ==
  FoldLeft(LAMBDA to, w : Reached(to, w, p), p[1] - 1, Sorted(windows)) >= p[2]

(* Mutant of Bounds: midnight of UTC. *)
BoundsOfUtc(p) == <<p[1] * DayLength, (p[2] + 1) * DayLength>>

(* resolve_period: from the first midnight where the store is to the one after the last. *)
Bounds(p) == <<p[1] * DayLength - zone, (p[2] + 1) * DayLength - zone>>

(* The call begins: the period is resolved by the zone of now. *)
Ask(kind, p) ==
  /\ read = Idle
  /\ read' = [at |-> "first", kind |-> kind, period |-> p, bounds |-> Bounds(p), covered |-> FALSE,
              found |-> {}, moved |-> "no"]
  /\ UNCHANGED <<zone, windows, orders>>

(* The first statement of one kind of call, or the second of the other. *)
At(first, second) ==
  \/ read.at = "first" /\ read.kind = first
  \/ read.at = "second" /\ read.kind = second

After(at) == IF at = "first" THEN "second" ELSE "told"

(* The statement that reads the coverage, and the one that reads the orders. *)
ReadCoverage ==
  /\ At("coverage first", "orders first")
  /\ read' = [read EXCEPT !.at = After(@), !.covered = Covered(read.period)]
  /\ UNCHANGED <<zone, windows, orders>>

ReadOrders ==
  /\ At("orders first", "coverage first")
  /\ read' = [read EXCEPT !.at = After(@),
                          !.found = {h \in orders : read.bounds[1] <= h /\ h < read.bounds[2]}]
  /\ UNCHANGED <<zone, windows, orders>>

(* No number is told of a period that is not covered. *)
Counts == read.at = "told" /\ read.covered

Rest == read.at = "told" /\ read' = Idle /\ UNCHANGED <<zone, windows, orders>>

Next ==
  \/ \E window \in Period, n \in 0 .. MaxOrders :
       \E found \in kSubset(n, Of(window)) : Publish(window, found)
  \/ \E z \in Zone : Replace(z)
  \/ \E kind \in {"coverage first", "orders first"}, p \in Period : Ask(kind, p)
  \/ ReadCoverage \/ ReadOrders \/ Rest

Spec == Init /\ [][Next]_vars

-----------------------------------------------------------------------------
(* Properties. *)

(* A number that is told is the number of the orders on exactly the days of the store the *)
(* question is about, and pulls speak for every one of these days: when no sync published *)
(* and no store was replaced between the two statements, and for overview and trend also   *)
(* when syncs published.  Otherwise nothing is told of a period with a day left out.       *)
NumbersAreOfTheDays ==
  LET days == read.period[1] .. read.period[2]
      undisturbed == read.moved = "no" \/ (read.kind = "coverage first" /\ read.moved = "published")
  IN read.at = "told" /\ undisturbed =>
       /\ Counts => read.found = orders \cap Of(read.period)
       /\ read.moved = "no" => (Counts <=> \A d \in days : \E w \in windows : d \in w[1] .. w[2])

=============================================================================
