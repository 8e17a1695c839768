---------------------------- MODULE BumpaSyncProofs ----------------------------
(***************************************************************************)
(* What holds of BumpaSync for any number of workers, orders, days, pages, *)
(* generations and replacements: the readers count, for every day, what    *)
(* the newest pull of the day found, nothing outlives a replacement of the *)
(* connection, and a pull that is kept is whole.                           *)
(*                                                                         *)
(* For the first two, IInv relates the rows to the runs: a generation is   *)
(* one pull's alone until its run is written, and every row is of the      *)
(* newest answer of its day.  For the third, it counts what a pull has not *)
(* seen yet: of the orders that were there all the time, those it missed   *)
(* are so far behind in the listing that a later page brings them.         *)
(***************************************************************************)
EXTENDS BumpaSync, FiniteSetTheorems, TLAPS

\* The bounds are numbers, a page has orders, and orders are numbered as they are created.
Parameters ==
  /\ MaxGeneration \in Nat /\ MaxRevision \in Nat \ {0} /\ MaxKey \in Nat \ {0}
  /\ PageSize \in Nat \ {0}
  /\ \E n, k \in Nat : Order = 1..n /\ Existing = 1..k /\ k <= n

\* A pull that has claimed its generation.
Claimed(w) == pull[w].phase \in {"pulling", "pulled", "failed"}

\* The orders are created one after the other.
BornInOrder == \E k \in Nat : born = 1..k

\* A generation belongs to one pull, until its run is written.
PullsAreClaimed ==
  \A w \in Worker : Claimed(w) =>
    /\ pull[w].generation \in 1..conn.claimed /\ pull[w].generation \notin DOMAIN runs
    /\ \A v \in Worker : Claimed(v) /\ pull[v].generation = pull[w].generation => v = w

\* The runs are of claimed generations and no later boundary, and those that did not fail
\* were published.
RunsArePublished ==
  \A g \in DOMAIN runs :
    /\ g <= conn.claimed /\ runs[g].revision <= conn.boundary.revision
    /\ runs[g].status # "failed" => g <= conn.published

\* A pull is of a window, and what it saw is of the days of that.
SeenIsWithin ==
  \A w \in Worker :
    /\ pull[w].phase # "idle" => pull[w].window \in Window
    /\ \A o \in pull[w].seen : DayOf[o] \in pull[w].window

NewestOf(S, g) == g \in S /\ \A h \in S : h <= g

\* A row is of the newest answer of its day, and active if that has it.
RowsAreNewest ==
  \A o \in DOMAIN rows :
    /\ NewestOf(Answers(DayOf[o]), rows[o].run)
    /\ rows[o].state = "active" <=> o \in runs[rows[o].run].seen

\* A day with an answer has a newest one, and rows for all of it.
AnswersHaveRows ==
  \A day \in {DayOf[o] : o \in Order} : Answers(day) # {} =>
    \E g \in Answers(day) :
      /\ NewestOf(Answers(day), g)
      /\ \A o \in runs[g].seen : DayOf[o] = day => o \in DOMAIN rows

IInv ==
  /\ BornInOrder
  /\ PullsAreClaimed
  /\ RunsArePublished
  /\ SeenIsWithin
  /\ RowsAreNewest
  /\ AnswersHaveRows
  /\ BoundaryIsFenced

\* The orders that a pull lists now, and those of them that come after an order or are it.
Listed(w) == Within(store, pull[w].window)
Behind(w, o) == {x \in Listed(w) : x <= o}

\* Before its first page a pull has seen nothing.  From then on, an order that it missed
\* although it was there all the time has fewer orders behind it than are left to list.
WholeSoFar(w) ==
  /\ pull[w].phase = "read" => pull[w].page = 1 /\ pull[w].total = -1 /\ pull[w].seen = {}
  /\ pull[w].phase = "pulling" =>
       /\ pull[w].page >= 1 /\ (pull[w].total = -1 => pull[w].page = 1)
       /\ pull[w].seen \subseteq pull[w].ever /\ Listed(w) \subseteq pull[w].ever
       /\ pull[w].throughout \subseteq Listed(w)
       /\ pull[w].total # -1 => \A o \in pull[w].throughout \ pull[w].seen :
            Cardinality(Behind(w, o)) <= pull[w].total - (pull[w].page - 1) * PageSize

PagesAreWhole == \A w \in Worker : WholeSoFar(w)

-----------------------------------------------------------------------------
(* Types *)

\* A set of orders is finite.
LEMMA OrdersAreFinite ==
  ASSUME Parameters, NEW S, S \subseteq Order
  PROVE  /\ IsFiniteSet(S) /\ Cardinality(S) \in Nat
         /\ \A o \in S : o \in Nat
<1>1. PICK n \in Nat : Order = 1..n
  BY DEF Parameters
<1>2. IsFiniteSet(Order)
  BY <1>1, FS_Interval
<1>3. IsFiniteSet(S)
  BY <1>2, FS_Subset
<1>4. Cardinality(S) \in Nat
  BY <1>3, FS_CardinalityType
<1>. QED
  BY <1>1, <1>3, <1>4

\* A run that is new leaves those that were there.
LEMMA MoreRuns ==
  ASSUME NEW g, NEW run, g \notin DOMAIN runs, runs' = RunsWith(g, run)
  PROVE  /\ DOMAIN runs' = DOMAIN runs \cup {g} /\ runs'[g] = run
         /\ \A h \in DOMAIN runs : runs'[h] = runs[h]
BY DEF RunsWith

\* The parts of a pull.
LEMMA PullParts ==
  ASSUME TypeOK, NEW w \in Worker
  PROVE  /\ pull[w] \in Pull /\ pull[w].phase \in Phase /\ pull[w].boundary \in Boundary
         /\ pull[w].generation \in 0..MaxGeneration /\ pull[w].window \in Window \cup {{}}
         /\ pull[w].page \in Nat /\ pull[w].total \in Nat \cup {-1}
         /\ pull[w].seen \subseteq Order /\ pull[w].throughout \subseteq Order
         /\ pull[w].ever \subseteq Order
BY DEF TypeOK, Pull

\* A pull that is over, or that has concluded.
LEMMA NewPulls ==
  ASSUME Parameters, TypeOK, NEW w \in Worker, NEW seen \in SUBSET Order,
         NEW orders \in {"open", "available", "error"}
  PROVE  Idle \in Pull /\ Conclude(w, seen, orders) \in Pull
         /\ [Conclude(w, seen, orders) EXCEPT !.phase = "failed"] \in Pull
<1>1. Idle \in Pull
  BY DEF Idle, Pull, Phase, Boundary, Revision, Key, Parameters
<1>2. Conclude(w, seen, orders) \in Pull
  BY <1>1, PullParts DEF Conclude, Pull, Phase
<1>3. [Conclude(w, seen, orders) EXCEPT !.phase = "failed"] \in Pull
  BY <1>2 DEF Pull, Phase
<1>. QED
  BY <1>1, <1>2, <1>3

\* A pull with another page.
LEMMA NextPage ==
  ASSUME NEW p \in Pull, NEW page \in Nat, NEW total \in Nat, NEW seen \in SUBSET Order
  PROVE  [p EXCEPT !.page = page, !.total = total, !.seen = seen] \in Pull
BY DEF Pull

\* The pulls remember what happens to the store.
LEMMA WitnessedTypes ==
  ASSUME TypeOK, NEW S \in SUBSET Order PROVE Witnessed(S) \in [Worker -> Pull]
<1>1. ASSUME NEW w \in Worker PROVE Witnessed(S)[w] \in Pull
  <2>1. /\ pull[w].throughout \cap S \in SUBSET Order
        /\ pull[w].ever \cup Within(S, pull[w].window) \in SUBSET Order
    BY PullParts DEF Within
  <2>2. [pull[w] EXCEPT !.throughout = pull[w].throughout \cap S,
                        !.ever = pull[w].ever \cup Within(S, pull[w].window)] \in Pull
    BY <2>1, PullParts DEF Pull
  <2>. QED
    BY <2>2, PullParts DEF Witnessed
<1>. QED
  BY <1>1 DEF Witnessed

\* The numbers from 1 to k are k.
LEMMA CountOfInterval == ASSUME NEW k \in Nat PROVE Cardinality(1..k) = k
BY FS_Interval

\* A page has listed orders only.
LEMMA PageIsListed ==
  ASSUME NEW window, NEW n
  PROVE  Page(window, n) \subseteq Within(store, window) /\ Within(store, window) \subseteq store
BY DEF Page, Within

\* A run that is written, and a connection.
LEMMA NewRuns ==
  ASSUME TypeOK, NEW w \in Worker, Claimed(w), pull[w].window \in Window,
         NEW orders \in {"available", "error"},
         NEW quality \in {"complete", "accepted_partial", "degraded"}
  PROVE  Failed(w) \in Run /\ PublishedRun(w, orders, quality) \in Run
BY PullParts DEF Failed, PublishedRun, Run, Boundary

\* The rows of the runs with another.
LEMMA RunTypes ==
  ASSUME TypeOK, NEW g \in Generation, NEW run \in Run
  PROVE  /\ DOMAIN RunsWith(g, run) \in SUBSET Generation
         /\ \A h \in DOMAIN RunsWith(g, run) : RunsWith(g, run)[h] \in Run
<1>1. DOMAIN RunsWith(g, run) = DOMAIN runs \cup {g}
  BY DEF RunsWith
<1>2. ASSUME NEW h \in DOMAIN RunsWith(g, run) PROVE RunsWith(g, run)[h] \in Run
  <2>1. CASE h = g
    BY <2>1 DEF RunsWith
  <2>2. CASE h # g
    BY <1>1, <1>2, <2>2 DEF RunsWith, TypeOK
  <2>. QED
    BY <2>1, <2>2
<1>. QED
  BY <1>1, <1>2 DEF TypeOK

\* The connection as the steps write it.
LEMMA NewConnections ==
  ASSUME Parameters, TypeOK, NEW g \in 0..MaxGeneration, NEW fresh \in 0..MaxGeneration,
         NEW error \in {"none", "failed", "degraded"}
  PROVE  /\ [conn EXCEPT !.error = error] \in Connection
         /\ [conn EXCEPT !.claimed = g] \in Connection
         /\ [conn EXCEPT !.published = g, !.fresh = fresh, !.error = error] \in Connection
         /\ \A boundary \in Boundary :
              [conn EXCEPT !.boundary = boundary, !.fresh = fresh, !.error = error] \in Connection
BY DEF TypeOK, Connection

\* Every step keeps every variable in its type.
LEMMA TypeStep == ASSUME Parameters, TypeOK, IInv, [Next]_vars PROVE TypeOK'
<1>. Boundary = [revision : 1..MaxRevision, key : 1..MaxKey] /\ conn.boundary \in Boundary
  BY DEF Boundary, Revision, Key, TypeOK, Connection
<1>1. CASE Create
  <2>1. PICK n \in Nat, k \in Nat : Order = 1..n /\ born = 1..k
    BY DEF Parameters, IInv, BornInOrder
  <2>2. Cardinality(born) = k
    BY <2>1, CountOfInterval
  <2>. DEFINE o == k + 1
  <2>3. /\ store' = store \cup {o} /\ born' = born \cup {o} /\ o \in Order
        /\ pull' = Witnessed(store \cup {o}) /\ UNCHANGED <<conn, rows, runs>>
    <3>1. k <= n /\ k # n
      BY <1>1, <2>1 DEF Create, TypeOK
    <3>2. /\ store' = store \cup {Cardinality(born) + 1}
          /\ born' = born \cup {Cardinality(born) + 1}
          /\ pull' = Witnessed(store \cup {Cardinality(born) + 1})
          /\ UNCHANGED <<conn, rows, runs>>
      BY <1>1 DEF Create
    <3>3. o \in Order
      BY <2>1, <3>1
    <3>. QED
      BY <2>2, <3>2, <3>3
  <2>4. store \cup {o} \subseteq Order
    BY <2>3 DEF TypeOK
  <2>5. pull' \in [Worker -> Pull]
    BY <2>3, <2>4, WitnessedTypes
  <2>. QED
    BY <2>3, <2>5 DEF TypeOK
<1>2. ASSUME NEW o \in store, Delete(o) PROVE TypeOK'
  <2>1. store \ {o} \subseteq Order
    BY DEF TypeOK
  <2>2. pull' \in [Worker -> Pull]
    BY <1>2, <2>1, WitnessedTypes DEF Delete
  <2>. QED
    BY <1>2, <2>2 DEF Delete, TypeOK
<1>3. ASSUME NEW changed \in BOOLEAN, Replace(changed) PROVE TypeOK'
  <2>. DEFINE boundary == [conn.boundary EXCEPT !.key = @ + 1,
                             !.revision = IF changed THEN @ + 1 ELSE @]
              fresh == IF changed THEN 0 ELSE conn.fresh
  <2>1. /\ conn.boundary.key + 1 \in 1..MaxKey
        /\ changed => conn.boundary.revision + 1 \in 1..MaxRevision
    BY <1>3 DEF Replace, Parameters
  <2>2. boundary \in Boundary
    <3>1. CASE changed = TRUE
      BY <2>1, <3>1
    <3>2. CASE changed = FALSE
      BY <2>1, <3>2
    <3>. QED
      BY <3>1, <3>2
  <2>3. fresh \in 0..MaxGeneration
    BY DEF TypeOK, Connection, Parameters
  <2>4. conn' = [conn EXCEPT !.boundary = boundary, !.fresh = fresh, !.error = "none"]
    BY <1>3 DEF Replace, TypeOK, Connection
  <2>5. conn' \in Connection
    <3>. HIDE DEF boundary, fresh
    <3>. QED
      BY <2>2, <2>3, <2>4 DEF TypeOK, Connection
  <2>. QED
    BY <1>3, <2>5 DEF Replace, TypeOK
<1>4. CASE RotateEnvelope
  <2>1. conn.boundary.key + 1 \in Key
    BY <1>4 DEF RotateEnvelope, TypeOK, Connection, Boundary, Key, Parameters
  <2>2. ASSUME NEW key \in Key PROVE [conn EXCEPT !.boundary.key = key] \in Connection
    BY DEF TypeOK, Connection, Boundary
  <2>3. conn' \in Connection
    BY <1>4, <2>1, <2>2 DEF RotateEnvelope
  <2>. QED
    BY <1>4, <2>3 DEF RotateEnvelope, TypeOK
<1>5. ASSUME NEW w \in Worker, NEW window \in Window, Capture(w, window) PROVE TypeOK'
  <2>1. [Idle EXCEPT !.phase = "read", !.window = window, !.boundary = conn.boundary] \in Pull
    <3>1. Idle \in Pull
      BY NewPulls
    <3>. QED
      BY <3>1 DEF Pull, Phase
  <2>. QED
    BY <1>5, <2>1 DEF Capture, TypeOK
<1>6. ASSUME NEW w \in Worker, Claim(w) PROVE TypeOK'
  <2>1. CASE Matches(pull[w].boundary)
    <3>1. conn.claimed + 1 \in 0..MaxGeneration /\ conn' = [conn EXCEPT !.claimed = @ + 1]
      BY <1>6, <2>1 DEF Claim, TypeOK, Connection, Parameters
    <3>2. conn' \in Connection
      BY <3>1 DEF TypeOK, Connection
    <3>3. Within(store, pull[w].window) \subseteq Order
      BY DEF Within, TypeOK
    <3>4. pull' \in [Worker -> Pull]
      <4>1. [pull[w] EXCEPT !.phase = "pulling", !.generation = conn.claimed + 1,
                            !.throughout = Within(store, pull[w].window),
                            !.ever = Within(store, pull[w].window)] \in Pull
        <5>1. ASSUME NEW p \in Pull, NEW g \in 0..MaxGeneration, NEW S \in SUBSET Order
              PROVE  [p EXCEPT !.phase = "pulling", !.generation = g, !.throughout = S,
                               !.ever = S] \in Pull
          BY <5>1 DEF Pull, Phase
        <5>. QED
          BY <3>1, <3>3, <5>1, PullParts
      <4>. QED
        BY <1>6, <2>1, <4>1 DEF Claim, TypeOK
    <3>. QED
      BY <1>6, <3>2, <3>4 DEF Claim, TypeOK
  <2>2. CASE ~Matches(pull[w].boundary)
    BY <1>6, <2>2, NewPulls DEF Claim, TypeOK
  <2>. QED
    BY <2>1, <2>2
<1>7. ASSUME NEW w \in Worker, FetchPage(w) PROVE TypeOK'
  <2>. DEFINE p == pull[w]
              total == Cardinality(Within(store, p.window))
              seen == p.seen \cup Page(p.window, p.page)
  <2>1. total \in Nat /\ seen \subseteq Order
    <3>1. Within(store, p.window) \subseteq Order
      BY DEF Within, TypeOK
    <3>. QED
      BY <3>1, OrdersAreFinite, PageIsListed, PullParts
  <2>2. [p EXCEPT !.page = @ + 1, !.total = total, !.seen = seen] \in Pull
    <3>1. p \in Pull /\ p.page + 1 \in Nat
      BY PullParts
    <3>. HIDE DEF total, seen
    <3>. QED
      BY <2>1, <3>1, NextPage
  <2>3. PICK new \in Pull : pull' = [pull EXCEPT ![w] = new]
    <3>1. Conclude(w, {}, "error") \in Pull /\ Conclude(w, seen, "available") \in Pull
      BY <2>1, NewPulls
    <3>2. pull' = [pull EXCEPT ![w] =
             IF p.total \notin {-1, total}
                \/ (p.page >= LastPage(total) /\ Cardinality(seen) # total)
             THEN Conclude(w, {}, "error")
             ELSE IF p.page >= LastPage(total) THEN Conclude(w, seen, "available")
                  ELSE [p EXCEPT !.page = @ + 1, !.total = total, !.seen = seen]]
      BY <1>7 DEF FetchPage
    <3>. QED
      BY <2>2, <3>1, <3>2
  <2>. QED
    BY <1>7, <2>3 DEF FetchPage, TypeOK
<1>8. ASSUME NEW w \in Worker,
             PageFails(w) \/ Abort(w) \/ Fenced(w) \/ PublicationFails(w) \/ Crash(w)
      PROVE  TypeOK'
  <2>1. PICK new \in Pull : pull' = [pull EXCEPT ![w] = new]
    BY <1>8, NewPulls DEF PageFails, Abort, Fenced, PublicationFails, Crash
  <2>. QED
    BY <1>8, <2>1 DEF PageFails, Abort, Fenced, PublicationFails, Crash, TypeOK
<1>9. ASSUME NEW w \in Worker, PersistFailure(w) \/ Superseded(w) PROVE TypeOK'
  <2>1. Claimed(w) /\ pull[w].window \in Window /\ pull[w].generation \in Generation
    BY <1>9, PullParts
      DEF PersistFailure, Superseded, Claimed, IInv, SeenIsWithin, PullsAreClaimed, Generation,
        TypeOK, Connection
  <2>2. runs' = runs \/ runs' = RunsWith(pull[w].generation, Failed(w))
    BY <1>9 DEF PersistFailure, Superseded
  <2>3. DOMAIN runs' \in SUBSET Generation /\ \A g \in DOMAIN runs' : runs'[g] \in Run
    <3>1. Failed(w) \in Run
      BY <2>1, NewRuns
    <3>. QED
      BY <2>1, <2>2, <3>1, RunTypes DEF TypeOK
  <2>4. conn' \in Connection
    <3>1. conn' = conn \/ conn' = [conn EXCEPT !.error = "failed"]
      BY <1>9 DEF PersistFailure, Superseded
    <3>. QED
      BY <3>1 DEF TypeOK, Connection
  <2>. QED
    BY <1>9, <2>3, <2>4, NewPulls DEF PersistFailure, Superseded, TypeOK
<1>10. ASSUME NEW w \in Worker, NEW datasets \in Datasets, NEW complete \in BOOLEAN,
              Publish(w, datasets, complete)
       PROVE  TypeOK'
  <2>. DEFINE g == pull[w].generation
              orders == Staged(w, complete)
              quality == Quality(datasets, orders)
  <2>1. /\ Claimed(w) /\ pull[w].window \in Window /\ g \in Generation
        /\ g \in 0..MaxGeneration /\ conn.fresh \in 0..MaxGeneration
    BY <1>10, PullParts
      DEF Publish, Claimed, IInv, SeenIsWithin, PullsAreClaimed, Generation, TypeOK, Connection
  <2>2. /\ orders \in {"available", "error"}
        /\ quality \in {"complete", "accepted_partial", "degraded"}
    BY DEF Staged, Quality
  <2>3. DOMAIN runs' \in SUBSET Generation /\ \A h \in DOMAIN runs' : runs'[h] \in Run
    <3>1. PublishedRun(w, orders, quality) \in Run
      BY <2>1, <2>2, NewRuns
    <3>2. runs' = RunsWith(g, PublishedRun(w, orders, quality))
      BY <1>10 DEF Publish
    <3>. QED
      BY <2>1, <3>1, <3>2, RunTypes
  <2>4. conn' \in Connection
    <3>1. PICK fresh \in 0..MaxGeneration, error \in {"none", "degraded"} :
            conn' = [conn EXCEPT !.published = g, !.fresh = fresh, !.error = error]
      BY <1>10, <2>1 DEF Publish
    <3>. QED
      BY <2>1, <3>1, NewConnections
  <2>5. DOMAIN rows' \in SUBSET Order /\ \A o \in DOMAIN rows' : rows'[o] \in Row
    <3>1. CASE rows' = rows
      BY <3>1 DEF TypeOK
    <3>2. CASE rows' = Promote(g, pull[w].window, pull[w].seen)
      <4>1. DOMAIN rows' = DOMAIN rows \cup pull[w].seen
        BY <3>2 DEF Promote
      <4>2. ASSUME NEW o \in DOMAIN rows' PROVE rows'[o] \in Row
        <5>1. [run |-> g, revision |-> conn.boundary.revision, state |-> "active"] \in Row
          BY <2>1 DEF TypeOK, Row, Connection, Boundary, Revision
        <5>2. ASSUME o \in DOMAIN rows
              PROVE  rows[o] \in Row /\ [rows[o] EXCEPT !.run = g, !.state = "superseded"] \in Row
          BY <2>1, <5>2 DEF TypeOK, Row
        <5>. QED
          BY <3>2, <4>1, <4>2, <5>1, <5>2 DEF Promote
      <4>. QED
        BY <4>1, <4>2, PullParts DEF TypeOK
    <3>. QED
      BY <1>10, <3>1, <3>2 DEF Publish
  <2>. QED
    BY <1>10, <2>3, <2>4, <2>5, NewPulls DEF Publish, TypeOK
<1>11. CASE UNCHANGED vars
  BY <1>11 DEF vars, TypeOK
<1>. QED
  BY <1>1, <1>2, <1>3, <1>4, <1>5, <1>6, <1>7, <1>8, <1>9, <1>10, <1>11 DEF Next, Sync

-----------------------------------------------------------------------------
(* Rows, runs and the boundary *)

\* Under the same boundary the same runs give the same answers, and another run that failed
\* gives none.
LEMMA SameAnswers ==
  ASSUME NEW day, conn'.boundary.revision = conn.boundary.revision,
         \/ runs' = runs
         \/ \E g, run : run.status = "failed" /\ g \notin DOMAIN runs /\ runs' = RunsWith(g, run)
  PROVE  Answers(day)' = Answers(day)
<1>1. CASE runs' = runs
  BY <1>1 DEF Answers
<1>2. ASSUME NEW g, NEW run, run.status = "failed", g \notin DOMAIN runs, runs' = RunsWith(g, run)
      PROVE  Answers(day)' = Answers(day)
  <2>1. /\ DOMAIN runs' = DOMAIN runs \cup {g} /\ runs'[g].status = "failed"
        /\ \A h \in DOMAIN runs : runs'[h] = runs[h]
    BY <1>2, MoreRuns
  <2>. QED
    BY <2>1 DEF Answers
<1>. QED
  BY <1>1, <1>2

\* What the readers get of rows and runs that a step leaves, or adds a failed run to.
LEMMA SameRows ==
  ASSUME TypeOK, IInv, conn'.boundary.revision = conn.boundary.revision, rows' = rows,
         \/ runs' = runs
         \/ \E g, run : run.status = "failed" /\ g \notin DOMAIN runs /\ runs' = RunsWith(g, run)
  PROVE  RowsAreNewest' /\ AnswersHaveRows'
<1>1. \A day : Answers(day)' = Answers(day)
  BY SameAnswers
<1>2. \A g \in DOMAIN runs : runs'[g] = runs[g]
  BY MoreRuns
<1>3. RowsAreNewest'
  <2>1. \A o \in DOMAIN rows : rows[o].run \in DOMAIN runs
    BY DEF IInv, RowsAreNewest, NewestOf, Answers
  <2>. QED
    BY <1>1, <1>2, <2>1 DEF IInv, RowsAreNewest, NewestOf
<1>4. AnswersHaveRows'
  <2>1. \A day : \A g \in Answers(day) : g \in DOMAIN runs
    BY DEF Answers
  <2>. QED
    BY <1>1, <1>2, <2>1 DEF IInv, AnswersHaveRows, NewestOf
<1>. QED
  BY <1>3, <1>4

\* The store changes, or a pull goes on without writing: nobody claims a generation.
LEMMA QuietStep ==
  ASSUME TypeOK, IInv, UNCHANGED <<conn, rows, runs>>, BornInOrder', SeenIsWithin',
         \A v \in Worker : Claimed(v)' => Claimed(v) /\ pull'[v].generation = pull[v].generation
  PROVE  IInv'
<1>1. PullsAreClaimed'
  BY DEF IInv, PullsAreClaimed
<1>2. RunsArePublished' /\ BoundaryIsFenced'
  BY DEF IInv, RunsArePublished, BoundaryIsFenced
<1>3. RowsAreNewest' /\ AnswersHaveRows'
  BY SameRows
<1>. QED
  BY <1>1, <1>2, <1>3 DEF IInv

\* What a pull is after a change of the store.
LEMMA WitnessedParts ==
  ASSUME TypeOK, NEW S, pull' = Witnessed(S), NEW v \in Worker
  PROVE  /\ pull'[v].phase = pull[v].phase /\ pull'[v].generation = pull[v].generation
         /\ pull'[v].window = pull[v].window /\ pull'[v].seen = pull[v].seen
         /\ pull'[v].page = pull[v].page /\ pull'[v].total = pull[v].total
         /\ pull[v].phase = "pulling" =>
              /\ pull'[v].throughout = pull[v].throughout \cap S
              /\ pull'[v].ever = pull[v].ever \cup Within(S, pull[v].window)
<1>1. pull'[v] = IF pull[v].phase = "pulling"
                 THEN [pull[v] EXCEPT !.throughout = @ \cap S,
                                      !.ever = @ \cup Within(S, pull[v].window)]
                 ELSE pull[v]
  BY DEF Witnessed
<1>2. pull[v] \in Pull
  BY PullParts
<1>. QED
  BY <1>1, <1>2 DEF Pull

\* The store changes.
LEMMA StoreStep ==
  ASSUME TypeOK, IInv, UNCHANGED <<conn, rows, runs>>, BornInOrder',
         \E S : pull' = Witnessed(S)
  PROVE  IInv'
<1>1. \A v \in Worker : /\ pull'[v].phase = pull[v].phase
                        /\ pull'[v].generation = pull[v].generation
                        /\ pull'[v].window = pull[v].window /\ pull'[v].seen = pull[v].seen
  BY WitnessedParts
<1>. QED
  BY <1>1, QuietStep DEF IInv, SeenIsWithin, Claimed

\* One pull goes on.
LEMMA OnePullStep ==
  ASSUME TypeOK, IInv, UNCHANGED <<born, conn, rows, runs>>, NEW w \in Worker,
         pull' = [pull EXCEPT ![w] = pull'[w]],
         Claimed(w)' => Claimed(w) /\ pull'[w].generation = pull[w].generation,
         pull'[w].phase # "idle" => pull'[w].window \in Window,
         \A o \in pull'[w].seen : DayOf[o] \in pull'[w].window
  PROVE  IInv'
<1>1. \A v \in Worker \ {w} : pull'[v] = pull[v]
  BY DEF TypeOK
<1>2. SeenIsWithin' /\ BornInOrder'
  BY <1>1 DEF IInv, SeenIsWithin, BornInOrder
<1>. QED
  BY <1>1, <1>2, QuietStep DEF Claimed

\* One pull is over, and wrote nothing.
LEMMA IdleStep ==
  ASSUME TypeOK, IInv, UNCHANGED <<born, conn, rows, runs>>, NEW w \in Worker,
         pull' = [pull EXCEPT ![w] = Idle]
  PROVE  IInv'
<1>1. pull'[w] = Idle /\ Idle.phase = "idle" /\ Idle.seen = {}
  BY DEF TypeOK, Idle
<1>. QED
  BY <1>1, OnePullStep DEF Claimed

\* What a page makes of a pull.
LEMMA FetchOutcome ==
  ASSUME TypeOK, NEW w \in Worker, FetchPage(w)
  PROVE  /\ pull[w].phase = "pulling" /\ UNCHANGED <<store, born, conn, rows, runs>>
         /\ pull'[w].window = pull[w].window /\ pull'[w].generation = pull[w].generation
         /\ pull'[w].seen \subseteq pull[w].seen \cup Page(pull[w].window, pull[w].page)
         /\ pull' = [pull EXCEPT ![w] = pull'[w]]
<1>. DEFINE p == pull[w]
            total == Cardinality(Within(store, p.window))
            seen == p.seen \cup Page(p.window, p.page)
<1>1. /\ p.phase = "pulling" /\ UNCHANGED <<store, born, conn, rows, runs>>
  BY DEF FetchPage
<1>2. PICK new \in {Conclude(w, {}, "error"), Conclude(w, seen, "available"),
                    [p EXCEPT !.page = @ + 1, !.total = total, !.seen = seen]} :
        pull' = [pull EXCEPT ![w] = new]
  BY DEF FetchPage
<1>3. new.window = p.window /\ new.generation = p.generation /\ new.seen \subseteq seen
  BY <1>2, PullParts DEF Conclude, Idle, Pull
<1>4. pull'[w] = new
  BY <1>2 DEF TypeOK
<1>. QED
  BY <1>1, <1>2, <1>3, <1>4

\* What a failure makes of one.
LEMMA FailOutcome ==
  ASSUME TypeOK, NEW w \in Worker, PageFails(w) \/ Abort(w) \/ PublicationFails(w)
  PROVE  /\ pull[w].phase \in {"pulling", "pulled"} /\ UNCHANGED <<store, born, conn, rows, runs>>
         /\ pull'[w].window = pull[w].window /\ pull'[w].generation = pull[w].generation
         /\ pull'[w].seen = {} /\ pull' = [pull EXCEPT ![w] = pull'[w]]
         /\ pull'[w].phase \in {"pulled", "failed"} /\ pull'[w].orders = "error"
<1>1. PICK new \in {Conclude(w, {}, "error"),
                    [Conclude(w, {}, "error") EXCEPT !.phase = "failed"]} :
        pull' = [pull EXCEPT ![w] = new]
  BY DEF PageFails, Abort, PublicationFails
<1>2. /\ new.window = pull[w].window /\ new.generation = pull[w].generation /\ new.seen = {}
      /\ new.phase \in {"pulled", "failed"} /\ new.orders = "error"
  BY <1>1 DEF Conclude, Idle
<1>3. pull'[w] = new
  BY <1>1 DEF TypeOK
<1>. QED
  BY <1>1, <1>2, <1>3 DEF PageFails, Abort, PublicationFails

\* A pull claims the next generation: no other has it, and no run.
LEMMA ClaimStep ==
  ASSUME TypeOK, IInv, NEW w \in Worker, Claim(w), Matches(pull[w].boundary)
  PROVE  IInv'
<1>1. /\ pull[w].phase = "read" /\ conn' = [conn EXCEPT !.claimed = @ + 1]
      /\ UNCHANGED <<born, rows, runs>>
  BY DEF Claim
<1>2. /\ conn'.claimed = conn.claimed + 1 /\ conn.claimed \in Nat
      /\ conn'.boundary = conn.boundary /\ conn'.published = conn.published
      /\ conn'.fresh = conn.fresh
  BY <1>1 DEF TypeOK, Connection
<1>3. /\ pull'[w].phase = "pulling" /\ pull'[w].generation = conn.claimed + 1
      /\ pull'[w].window = pull[w].window /\ pull'[w].seen = pull[w].seen
      /\ \A v \in Worker \ {w} : pull'[v] = pull[v]
  BY DEF Claim, TypeOK, Pull
<1>4. \A g \in DOMAIN runs : g \in Nat /\ g <= conn.claimed
  BY DEF IInv, RunsArePublished, TypeOK, Generation
<1>5. PullsAreClaimed'
  <2>1. ASSUME NEW v \in Worker, Claimed(v)'
        PROVE  /\ pull'[v].generation \in 1..conn'.claimed
               /\ pull'[v].generation \notin DOMAIN runs'
               /\ v # w => Claimed(v) /\ pull'[v].generation = pull[v].generation
                                      /\ pull[v].generation # conn.claimed + 1
    BY <1>1, <1>2, <1>3, <1>4, <2>1 DEF IInv, PullsAreClaimed, Claimed
  <2>. QED
    BY <1>3, <2>1 DEF IInv, PullsAreClaimed
<1>6. RunsArePublished' /\ BoundaryIsFenced'
  BY <1>1, <1>2, <1>4 DEF IInv, RunsArePublished, BoundaryIsFenced
<1>7. RowsAreNewest' /\ AnswersHaveRows'
  BY <1>1, <1>2, SameRows
<1>8. SeenIsWithin' /\ BornInOrder'
  BY <1>1, <1>3 DEF IInv, SeenIsWithin, BornInOrder
<1>. QED
  BY <1>5, <1>6, <1>7, <1>8 DEF IInv

\* The connection is replaced: under another revision nothing is left, not even an answer.
LEMMA BoundaryStep ==
  ASSUME TypeOK, IInv, (\E changed \in BOOLEAN : Replace(changed)) \/ RotateEnvelope
  PROVE  IInv'
<1>1. /\ UNCHANGED <<born, runs, pull>>
      /\ conn'.claimed = conn.claimed /\ conn'.published = conn.published
  BY DEF Replace, RotateEnvelope, TypeOK, Connection
<1>2. PullsAreClaimed' /\ SeenIsWithin' /\ BornInOrder'
  BY <1>1 DEF IInv, PullsAreClaimed, SeenIsWithin, BornInOrder, Claimed
<1>3. \/ /\ conn'.boundary.revision = conn.boundary.revision /\ rows' = rows
         /\ conn'.fresh = conn.fresh
      \/ /\ conn'.boundary.revision = conn.boundary.revision + 1 /\ rows' = << >>
         /\ conn'.fresh = 0
  <2>1. conn \in Connection /\ conn.boundary \in [revision : Revision, key : Key]
    BY DEF TypeOK, Connection, Boundary
  <2>2. CASE RotateEnvelope
    BY <2>1, <2>2 DEF RotateEnvelope, Connection
  <2>3. CASE Replace(FALSE)
    BY <2>1, <2>3 DEF Replace, Connection
  <2>4. CASE Replace(TRUE)
    BY <2>1, <2>4 DEF Replace, Connection
  <2>. QED
    BY <2>2, <2>3, <2>4
<1>4. CASE /\ conn'.boundary.revision = conn.boundary.revision /\ rows' = rows
           /\ conn'.fresh = conn.fresh
  <2>1. RunsArePublished' /\ BoundaryIsFenced'
    BY <1>1, <1>4 DEF IInv, RunsArePublished, BoundaryIsFenced
  <2>2. RowsAreNewest' /\ AnswersHaveRows'
    BY <1>1, <1>4, SameRows
  <2>. QED
    BY <1>2, <2>1, <2>2 DEF IInv
<1>5. CASE /\ conn'.boundary.revision = conn.boundary.revision + 1 /\ rows' = << >>
           /\ conn'.fresh = 0
  <2>1. \A g \in DOMAIN runs : /\ runs[g].revision \in Nat /\ conn.boundary.revision \in Nat
                               /\ runs[g].revision <= conn.boundary.revision
    BY DEF IInv, RunsArePublished, TypeOK, Connection, Run, Boundary, Revision
  <2>2. DOMAIN rows' = {}
    BY <1>5
  <2>3. RunsArePublished' /\ BoundaryIsFenced' /\ RowsAreNewest'
    BY <1>1, <1>5, <2>1, <2>2 DEF IInv, RunsArePublished, BoundaryIsFenced, RowsAreNewest
  <2>4. \A day : Answers(day)' = {}
    BY <1>1, <1>5, <2>1 DEF Answers
  <2>5. AnswersHaveRows'
    BY <2>4 DEF AnswersHaveRows
  <2>. QED
    BY <1>2, <2>3, <2>5 DEF IInv
<1>. QED
  BY <1>3, <1>4, <1>5

\* A pull ends with a failed run: the generation was its own, so no evidence is overwritten.
LEMMA FailureStep ==
  ASSUME TypeOK, IInv, NEW w \in Worker, Claimed(w), Matches(pull[w].boundary),
         runs' = RunsWith(pull[w].generation, Failed(w)),
         conn' = conn \/ conn' = [conn EXCEPT !.error = "failed"],
         pull' = [pull EXCEPT ![w] = Idle], UNCHANGED <<born, rows>>
  PROVE  IInv'
<1>. DEFINE g == pull[w].generation
<1>1. /\ conn'.claimed = conn.claimed /\ conn'.published = conn.published
      /\ conn'.boundary = conn.boundary /\ conn'.fresh = conn.fresh
  BY DEF TypeOK, Connection
<1>2. /\ g \notin DOMAIN runs /\ g \in 1..conn.claimed
      /\ \A v \in Worker \ {w} : Claimed(v) => pull[v].generation # g
  BY DEF IInv, PullsAreClaimed
<1>3. /\ Failed(w).status = "failed" /\ Failed(w).revision = conn.boundary.revision
      /\ conn.boundary.revision \in Nat
  BY DEF Failed, Matches, TypeOK, Connection, Boundary, Revision
<1>4. /\ DOMAIN runs' = DOMAIN runs \cup {g} /\ runs'[g] = Failed(w)
      /\ \A h \in DOMAIN runs : runs'[h] = runs[h]
  BY <1>2, MoreRuns
<1>5. /\ pull'[w].phase = "idle" /\ pull'[w].seen = {}
      /\ \A v \in Worker \ {w} : pull'[v] = pull[v]
  BY DEF TypeOK, Idle
<1>6. PullsAreClaimed'
  BY <1>1, <1>2, <1>4, <1>5 DEF IInv, PullsAreClaimed, Claimed
<1>7. RunsArePublished' /\ BoundaryIsFenced'
  BY <1>1, <1>2, <1>3, <1>4 DEF IInv, RunsArePublished, BoundaryIsFenced
<1>8. RowsAreNewest' /\ AnswersHaveRows'
  BY <1>1, <1>2, <1>3, SameRows
<1>9. SeenIsWithin' /\ BornInOrder'
  BY <1>5 DEF IInv, SeenIsWithin, BornInOrder
<1>. QED
  BY <1>6, <1>7, <1>8, <1>9 DEF IInv

\* What a publication without orders leaves of the answers and rows.
LEMMA PublishNoOrders ==
  ASSUME TypeOK, IInv, NEW g, NEW run, g \notin DOMAIN runs, runs' = RunsWith(g, run),
         run.orders = "error", rows' = rows,
         conn'.boundary.revision = conn.boundary.revision
  PROVE  RowsAreNewest' /\ AnswersHaveRows'
<1>1. /\ DOMAIN runs' = DOMAIN runs \cup {g} /\ runs'[g].orders = "error"
      /\ \A h \in DOMAIN runs : runs'[h] = runs[h]
  BY MoreRuns
<1>2. \A day : Answers(day)' = Answers(day)
  BY <1>1 DEF Answers
<1>3. RowsAreNewest'
  <2>1. \A o \in DOMAIN rows : rows[o].run \in DOMAIN runs
    BY DEF IInv, RowsAreNewest, NewestOf, Answers
  <2>. QED
    BY <1>1, <1>2, <2>1 DEF IInv, RowsAreNewest, NewestOf
<1>4. AnswersHaveRows'
  <2>1. \A day : \A h \in Answers(day) : h \in DOMAIN runs
    BY DEF Answers
  <2>. QED
    BY <1>1, <1>2, <2>1 DEF IInv, AnswersHaveRows, NewestOf
<1>. QED
  BY <1>3, <1>4

\* What a publication of orders makes of them: for the days of its window it is the newest
\* answer and every row is its own, for the others nothing changes.
LEMMA PublishOrders ==
  ASSUME TypeOK, IInv, NEW w \in Worker, NEW g \in Nat, NEW run,
         g \notin DOMAIN runs, conn.published < g, runs' = RunsWith(g, run),
         run.status # "failed", run.orders = "available",
         run.revision = conn.boundary.revision, run.window = pull[w].window,
         run.seen = pull[w].seen, rows' = Promote(g, pull[w].window, pull[w].seen),
         conn'.boundary.revision = conn.boundary.revision
  PROVE  RowsAreNewest' /\ AnswersHaveRows'
<1>. DEFINE window == pull[w].window
            seen == pull[w].seen
<1>1. /\ DOMAIN runs' = DOMAIN runs \cup {g} /\ runs'[g] = run
      /\ \A h \in DOMAIN runs : runs'[h] = runs[h]
  BY MoreRuns
<1>2. \A day : /\ \A h \in Answers(day) : h \in DOMAIN runs /\ h \in Nat /\ h < g
               /\ Answers(day)' = Answers(day) \cup (IF day \in window THEN {g} ELSE {})
  <2>1. ASSUME NEW day, NEW h \in Answers(day) PROVE h \in DOMAIN runs /\ h \in Nat /\ h < g
    BY DEF Answers, IInv, RunsArePublished, TypeOK, Generation, Connection
  <2>2. ASSUME NEW day
        PROVE  Answers(day)' = Answers(day) \cup (IF day \in window THEN {g} ELSE {})
    BY <1>1 DEF Answers
  <2>. QED
    BY <2>1, <2>2
<1>3. /\ DOMAIN rows' = DOMAIN rows \cup seen
      /\ \A o \in seen : rows'[o].run = g /\ rows'[o].state = "active"
      /\ \A o \in DOMAIN rows \ seen :
           IF DayOf[o] \in window THEN rows'[o].run = g /\ rows'[o].state = "superseded"
           ELSE rows'[o] = rows[o]
  BY DEF Promote, TypeOK, Row
<1>4. \A o \in seen : DayOf[o] \in window
  BY DEF IInv, SeenIsWithin
<1>5. \A day \in window : NewestOf(Answers(day)', g)
  BY <1>2 DEF NewestOf
<1>6. ASSUME NEW o \in DOMAIN rows'
      PROVE  /\ NewestOf(Answers(DayOf[o])', rows'[o].run)
             /\ rows'[o].state = "active" <=> o \in runs'[rows'[o].run].seen
  <2>1. CASE o \in seen
    <3>1. /\ rows'[o].run = g /\ rows'[o].state = "active" /\ runs'[g].seen = seen
          /\ DayOf[o] \in window
      BY <1>1, <1>3, <1>4, <2>1
    <3>. QED
      BY <1>5, <2>1, <3>1
  <2>2. CASE o \notin seen /\ DayOf[o] \in window
    <3>1. rows'[o].run = g /\ rows'[o].state = "superseded" /\ runs'[g].seen = seen
      BY <1>1, <1>3, <1>6, <2>2
    <3>. QED
      BY <1>5, <2>2, <3>1
  <2>3. CASE o \notin seen /\ DayOf[o] \notin window
    <3>1. o \in DOMAIN rows /\ rows'[o] = rows[o]
      BY <1>3, <1>6, <2>3
    <3>2. Answers(DayOf[o])' = Answers(DayOf[o])
      BY <1>2, <2>3
    <3>3. /\ NewestOf(Answers(DayOf[o]), rows[o].run)
          /\ rows[o].state = "active" <=> o \in runs[rows[o].run].seen
      BY <3>1 DEF IInv, RowsAreNewest
    <3>4. rows[o].run \in DOMAIN runs
      BY <1>2, <3>3 DEF NewestOf
    <3>. QED
      BY <1>1, <3>1, <3>2, <3>3, <3>4
  <2>. QED
    BY <2>1, <2>2, <2>3
<1>7. RowsAreNewest'
  BY <1>6 DEF RowsAreNewest, NewestOf
<1>8. ASSUME NEW day \in {DayOf[o] : o \in Order}, Answers(day)' # {}
      PROVE  \E h \in Answers(day)' :
               /\ NewestOf(Answers(day)', h)
               /\ \A o \in runs'[h].seen : DayOf[o] = day => o \in DOMAIN rows'
  <2>1. CASE day \in window
    BY <1>1, <1>3, <1>5, <2>1 DEF NewestOf
  <2>2. CASE day \notin window
    <3>1. Answers(day)' = Answers(day)
      BY <1>2, <2>2
    <3>2. PICK h \in Answers(day) :
            /\ NewestOf(Answers(day), h)
            /\ \A o \in runs[h].seen : DayOf[o] = day => o \in DOMAIN rows
      BY <1>8, <3>1 DEF IInv, AnswersHaveRows
    <3>3. runs'[h] = runs[h]
      BY <1>1, <1>2
    <3>. QED
      BY <1>3, <3>1, <3>2, <3>3
  <2>. QED
    BY <2>1, <2>2
<1>9. AnswersHaveRows'
  BY <1>8 DEF AnswersHaveRows, NewestOf
<1>. QED
  BY <1>7, <1>9

\* A pull is published under the boundary it captured, by the newest generation so far.
LEMMA PublishStep ==
  ASSUME TypeOK, IInv, NEW w \in Worker, NEW datasets, NEW complete,
         Publish(w, datasets, complete)
  PROVE  IInv'
<1>. DEFINE g == pull[w].generation
            orders == Staged(w, complete)
            quality == Quality(datasets, orders)
            run == PublishedRun(w, orders, quality)
<1>1. /\ pull[w].phase = "pulled" /\ Claimed(w) /\ pull[w].boundary = conn.boundary
      /\ conn.published < g /\ conn.published \in Nat /\ g \in Nat
      /\ rows' = IF orders = "available" THEN Promote(g, pull[w].window, pull[w].seen) ELSE rows
      /\ runs' = RunsWith(g, run) /\ pull' = [pull EXCEPT ![w] = Idle] /\ UNCHANGED born
  BY PullParts DEF Publish, Matches, MayPublish, Claimed, TypeOK, Connection
<1>2. /\ conn'.claimed = conn.claimed /\ conn'.published = g
      /\ conn'.boundary = conn.boundary
      /\ \/ conn'.fresh = g /\ AdvancesFreshness(quality)
         \/ conn'.fresh = conn.fresh
  <2>1. conn' = [conn EXCEPT
          !.published = g,
          !.fresh = IF AdvancesFreshness(quality) THEN g ELSE @,
          !.error = IF AdvancesFreshness(quality) THEN "none" ELSE "degraded"]
    BY DEF Publish
  <2>. HIDE DEF g, quality
  <2>2. CASE AdvancesFreshness(quality)
    BY <2>1, <2>2 DEF TypeOK, Connection, AdvancesFreshness
  <2>3. CASE ~AdvancesFreshness(quality)
    BY <2>1, <2>3 DEF TypeOK, Connection, AdvancesFreshness
  <2>. QED
    BY <2>2, <2>3
<1>3. /\ g \notin DOMAIN runs /\ g \in 1..conn.claimed
      /\ \A v \in Worker \ {w} : Claimed(v) => pull[v].generation # g
  BY <1>1 DEF IInv, PullsAreClaimed
<1>4. /\ orders \in {"available", "error"} /\ run.status # "failed" /\ run.orders = orders
      /\ run.quality = quality /\ run.revision = conn.boundary.revision
      /\ run.window = pull[w].window
      /\ orders = "available" => run.seen = pull[w].seen
  BY <1>1 DEF PublishedRun, Staged
<1>5. conn.boundary.revision \in Nat
  BY DEF TypeOK, Connection, Boundary, Revision
<1>6. /\ DOMAIN runs' = DOMAIN runs \cup {g} /\ runs'[g] = run
      /\ \A h \in DOMAIN runs : runs'[h] = runs[h]
  BY <1>1, <1>3, MoreRuns
<1>7. /\ pull'[w].phase = "idle" /\ pull'[w].seen = {}
      /\ \A v \in Worker \ {w} : pull'[v] = pull[v]
  BY <1>1 DEF TypeOK, Idle
<1>. HIDE DEF orders, quality, run
<1>8. PullsAreClaimed'
  BY <1>2, <1>3, <1>6, <1>7 DEF IInv, PullsAreClaimed, Claimed
<1>9. RunsArePublished'
  BY <1>1, <1>2, <1>3, <1>4, <1>5, <1>6
    DEF IInv, RunsArePublished, TypeOK, Generation
<1>10. BoundaryIsFenced'
  <2>1. \A o \in DOMAIN rows' : rows'[o].revision = conn'.boundary.revision
    <3>1. CASE orders = "available"
      <4>1. \A o \in DOMAIN rows : rows[o].revision = conn.boundary.revision
        BY DEF IInv, BoundaryIsFenced
      <4>2. \A o \in DOMAIN rows : rows[o] \in Row
        BY DEF TypeOK
      <4>3. PICK n : n = Promote(g, pull[w].window, pull[w].seen)
        OBVIOUS
      <4>4. \A o \in DOMAIN n : n[o].revision = conn.boundary.revision
        <5>1. ASSUME NEW o \in DOMAIN n
              PROVE  n[o].revision = conn.boundary.revision
          <6>1. CASE o \in pull[w].seen
            BY <4>3, <5>1, <6>1 DEF Promote
          <6>2. CASE o \notin pull[w].seen
            <7>1. o \in DOMAIN rows
              BY <4>3, <5>1, <6>2 DEF Promote
            <7>2. \/ n[o] = [rows[o] EXCEPT !.run = g, !.state = "superseded"]
                  \/ n[o] = rows[o]
              BY <4>3, <5>1, <6>2 DEF Promote
            <7>. QED
              BY <4>1, <4>2, <7>1, <7>2 DEF Row
          <6>. QED
            BY <6>1, <6>2
        <5>. QED
          BY <5>1
      <4>. QED
        BY <1>1, <1>2, <3>1, <4>3, <4>4
    <3>2. CASE orders # "available"
      BY <1>1, <1>2, <3>2 DEF IInv, BoundaryIsFenced
    <3>. QED
      BY <3>1, <3>2
  <2>2. conn'.fresh # 0 => /\ conn'.fresh \in DOMAIN runs'
                           /\ runs'[conn'.fresh].revision = conn'.boundary.revision
                           /\ AdvancesFreshness(runs'[conn'.fresh].quality)
    <3>1. CASE conn'.fresh = g /\ AdvancesFreshness(quality)
      BY <1>2, <1>4, <1>6, <3>1
    <3>2. CASE conn'.fresh = conn.fresh
      BY <1>2, <1>6, <3>2 DEF IInv, BoundaryIsFenced
    <3>. QED
      BY <1>2, <3>1, <3>2
  <2>. QED
    BY <2>1, <2>2 DEF BoundaryIsFenced, AdvancesFreshness
<1>11. RowsAreNewest' /\ AnswersHaveRows'
  <2>1. CASE orders = "available"
    BY <1>1, <1>2, <1>3, <1>4, <2>1, PublishOrders
  <2>2. CASE orders = "error"
    BY <1>1, <1>2, <1>3, <1>4, <2>2, PublishNoOrders
  <2>. QED
    BY <1>4, <2>1, <2>2
<1>12. SeenIsWithin' /\ BornInOrder'
  BY <1>1, <1>7 DEF IInv, SeenIsWithin, BornInOrder
<1>. QED
  BY <1>8, <1>9, <1>10, <1>11, <1>12 DEF IInv

\* Every step keeps the invariant.
LEMMA Step == ASSUME Parameters, TypeOK, IInv, [Next]_vars PROVE IInv'
<1>1. CASE Create
  <2>1. PICK k \in Nat : born = 1..k
    BY DEF IInv, BornInOrder
  <2>2. born' = 1..k + 1
    BY <1>1, <2>1, CountOfInterval DEF Create
  <2>3. BornInOrder'
    BY <2>1, <2>2 DEF BornInOrder
  <2>4. /\ UNCHANGED <<conn, rows, runs>>
        /\ \E S : pull' = Witnessed(S)
    BY <1>1 DEF Create
  <2>. QED
    BY <2>3, <2>4, StoreStep
<1>2. ASSUME NEW o \in store, Delete(o) PROVE IInv'
  <2>1. BornInOrder' /\ UNCHANGED <<conn, rows, runs>> /\ \E S : pull' = Witnessed(S)
    BY <1>2 DEF Delete, IInv, BornInOrder
  <2>. QED
    BY <2>1, StoreStep
<1>3. CASE (\E changed \in BOOLEAN : Replace(changed)) \/ RotateEnvelope
  BY <1>3, BoundaryStep
<1>4. ASSUME NEW w \in Worker, NEW window \in Window, Capture(w, window) PROVE IInv'
  <2>1. /\ pull'[w].phase = "read" /\ pull'[w].window = window /\ pull'[w].seen = {}
        /\ pull' = [pull EXCEPT ![w] = pull'[w]]
    BY <1>4 DEF Capture, Idle, TypeOK
  <2>. QED
    BY <1>4, <2>1, OnePullStep DEF Capture, Claimed
<1>5. ASSUME NEW w \in Worker, Claim(w) PROVE IInv'
  <2>1. CASE ~Matches(pull[w].boundary)
    BY <1>5, <2>1, IdleStep DEF Claim
  <2>. QED
    BY <1>5, <2>1, ClaimStep
<1>6. ASSUME NEW w \in Worker, FetchPage(w) \/ PageFails(w) \/ Abort(w) \/ PublicationFails(w)
      PROVE  IInv'
  <2>1. /\ pull[w].phase # "idle" /\ Claimed(w) /\ UNCHANGED <<born, conn, rows, runs>>
        /\ pull'[w].window = pull[w].window /\ pull'[w].generation = pull[w].generation
        /\ pull'[w].seen \subseteq pull[w].seen \cup Page(pull[w].window, pull[w].page)
        /\ pull' = [pull EXCEPT ![w] = pull'[w]]
    BY <1>6, FetchOutcome, FailOutcome DEF Claimed
  <2>2. \A o \in Page(pull[w].window, pull[w].page) : DayOf[o] \in pull[w].window
    BY DEF Page, Within
  <2>3. pull[w].window \in Window /\ \A o \in pull'[w].seen : DayOf[o] \in pull[w].window
    BY <2>1, <2>2 DEF IInv, SeenIsWithin
  <2>. QED
    BY <2>1, <2>3, OnePullStep
<1>7. ASSUME NEW w \in Worker, Fenced(w) \/ Crash(w) PROVE IInv'
  BY <1>7, IdleStep DEF Fenced, Crash
<1>8. ASSUME NEW w \in Worker, PersistFailure(w) PROVE IInv'
  <2>1. CASE Matches(pull[w].boundary)
    BY <1>8, <2>1, FailureStep DEF PersistFailure, Claimed
  <2>2. CASE ~Matches(pull[w].boundary)
    BY <1>8, <2>2, IdleStep DEF PersistFailure
  <2>. QED
    BY <2>1, <2>2
<1>9. ASSUME NEW w \in Worker, Superseded(w) PROVE IInv'
  BY <1>9, FailureStep DEF Superseded, Claimed
<1>10. ASSUME NEW w \in Worker, NEW datasets \in Datasets, NEW complete \in BOOLEAN,
              Publish(w, datasets, complete)
       PROVE  IInv'
  BY <1>10, PublishStep
<1>11. CASE UNCHANGED vars
  BY <1>11, QuietStep DEF vars, IInv, BornInOrder, SeenIsWithin, Claimed
<1>. QED
  BY <1>1, <1>2, <1>3, <1>4, <1>5, <1>6, <1>7, <1>8, <1>9, <1>10, <1>11 DEF Next, Sync

-----------------------------------------------------------------------------
(* Pages *)

\* What a pull lists, and the orders behind one of them, are orders.
LEMMA ListedOrders ==
  ASSUME Parameters, TypeOK, NEW w \in Worker, NEW o
  PROVE  /\ Listed(w) \subseteq Order /\ IsFiniteSet(Listed(w)) /\ Cardinality(Listed(w)) \in Nat
         /\ Behind(w, o) \subseteq Listed(w) /\ IsFiniteSet(Behind(w, o))
         /\ Cardinality(Behind(w, o)) \in Nat
<1>1. Listed(w) \subseteq Order /\ Behind(w, o) \subseteq Listed(w)
  BY DEF Listed, Within, Behind, TypeOK
<1>. QED
  BY <1>1, OrdersAreFinite

\* A listed order has itself behind it, and is preceded by all that are not behind it.
LEMMA RankOfListed ==
  ASSUME Parameters, TypeOK, NEW w \in Worker, NEW o \in Listed(w)
  PROVE  /\ Cardinality(Behind(w, o)) >= 1
         /\ Cardinality({x \in Listed(w) : x > o}) =
              Cardinality(Listed(w)) - Cardinality(Behind(w, o))
<1>. DEFINE ahead == {x \in Listed(w) : x > o}
<1>1. \A x \in Listed(w) : x \in Nat
  BY ListedOrders, OrdersAreFinite
<1>2. ahead \cup Behind(w, o) = Listed(w) /\ ahead \cap Behind(w, o) = {}
  BY <1>1 DEF Behind
<1>3. IsFiniteSet(ahead) /\ Cardinality(ahead) \in Nat
  BY ListedOrders, FS_Subset, FS_CardinalityType
<1>4. Cardinality(ahead \cup Behind(w, o)) = Cardinality(ahead) + Cardinality(Behind(w, o)) - 0
  BY <1>2, <1>3, ListedOrders, FS_Union, FS_EmptySet
<1>5. Cardinality(Behind(w, o)) # 0
  <2>1. o \in Behind(w, o)
    BY <1>1 DEF Behind
  <2>. QED
    BY <2>1, ListedOrders, FS_EmptySet
<1>. QED
  <2>1. Cardinality(Listed(w)) = Cardinality(ahead) + Cardinality(Behind(w, o)) - 0
    BY <1>2, <1>4
  <2>2. Cardinality(Behind(w, o)) \in Nat
    BY ListedOrders
  <2>. QED
    BY <1>3, <1>5, <2>1, <2>2

\* The page of a place in a listing: one that is not before page n nor on it is after it.
LEMMA PlaceAfterPage ==
  ASSUME NEW rank \in Nat, NEW size \in Nat \ {0}, NEW n \in Nat,
         rank >= (n - 1) * size, rank \div size # n - 1
  PROVE  rank >= n * size
OBVIOUS

\* The last page ends the listing.
LEMMA LastPageEnds ==
  ASSUME Parameters, NEW total \in Nat, NEW n \in Nat, n >= LastPage(total)
  PROVE  total <= n * PageSize
<1>1. CASE total = 0
  BY <1>1 DEF Parameters
<1>2. CASE total # 0
  BY <1>2 DEF LastPage, Parameters
<1>. QED
  BY <1>1, <1>2

\* What is still missing after a page of an unchanged total is behind that page.
LEMMA MissedIsBehind ==
  ASSUME Parameters, TypeOK, NEW w \in Worker, WholeSoFar(w), pull[w].phase = "pulling",
         pull[w].total \in {-1, Cardinality(Listed(w))},
         NEW o \in pull[w].throughout \ (pull[w].seen \cup Page(pull[w].window, pull[w].page))
  PROVE  /\ o \in Listed(w)
         /\ Cardinality(Behind(w, o)) <= Cardinality(Listed(w)) - pull[w].page * PageSize
<1>. DEFINE rank == Cardinality({x \in Listed(w) : x > o})
            n == pull[w].page
<1>1. o \in Listed(w) /\ n \in Nat /\ n >= 1 /\ PageSize \in Nat \ {0}
  BY PullParts DEF WholeSoFar, Parameters
<1>2. /\ rank = Cardinality(Listed(w)) - Cardinality(Behind(w, o))
      /\ Cardinality(Listed(w)) \in Nat /\ Cardinality(Behind(w, o)) \in Nat
      /\ rank \in Nat
  <2>1. rank = Cardinality(Listed(w)) - Cardinality(Behind(w, o))
    BY <1>1, RankOfListed
  <2>2. IsFiniteSet({x \in Listed(w) : x > o})
    BY ListedOrders, FS_Subset
  <2>. QED
    BY <2>1, <2>2, ListedOrders, FS_CardinalityType
<1>3. rank >= (n - 1) * PageSize
  <2>1. CASE pull[w].total = -1
    BY <1>1, <1>2, <2>1 DEF WholeSoFar
  <2>2. CASE pull[w].total # -1
    <3>1. Cardinality(Behind(w, o)) <= Cardinality(Listed(w)) - (n - 1) * PageSize
      BY <2>2 DEF WholeSoFar
    <3>. HIDE DEF rank, n
    <3>. QED
      BY <1>1, <1>2, <3>1
  <2>. QED
    BY <2>1, <2>2
<1>4. rank \div PageSize # n - 1
  BY <1>1 DEF Page, Listed
<1>5. rank >= n * PageSize
  <2>. HIDE DEF rank, n
  <2>. QED
    BY <1>1, <1>2, <1>3, <1>4, PlaceAfterPage
<1>. HIDE DEF rank, n
<1>6. Cardinality(Behind(w, o)) <= Cardinality(Listed(w)) - n * PageSize
  BY <1>1, <1>2, <1>5
<1>. QED
  BY <1>1, <1>6 DEF n

\* The outcomes of a page, one by one.
LEMMA FetchCases ==
  ASSUME Parameters, TypeOK, NEW w \in Worker, FetchPage(w)
  PROVE  \/ pull'[w].phase = "pulled" /\ pull'[w].orders = "error"
         \/ /\ pull'[w].phase = "pulled"
            /\ pull[w].total \in {-1, Cardinality(Listed(w))}
            /\ pull[w].page >= LastPage(Cardinality(Listed(w)))
            /\ pull'[w].seen = pull[w].seen \cup Page(pull[w].window, pull[w].page)
         \/ /\ pull[w].total \in {-1, Cardinality(Listed(w))}
            /\ pull'[w].phase = "pulling" /\ pull'[w].page = pull[w].page + 1
            /\ pull'[w].total = Cardinality(Listed(w))
            /\ pull'[w].seen = pull[w].seen \cup Page(pull[w].window, pull[w].page)
            /\ pull'[w].window = pull[w].window
            /\ pull'[w].throughout = pull[w].throughout /\ pull'[w].ever = pull[w].ever
<1>. DEFINE p == pull[w]
            total == Cardinality(Within(store, p.window))
            seen == p.seen \cup Page(p.window, p.page)
<1>1. total = Cardinality(Listed(w))
  BY DEF Listed
<1>2. \/ pull' = [pull EXCEPT ![w] = Conclude(w, {}, "error")]
      \/ /\ p.total \in {-1, total} /\ p.page >= LastPage(total)
         /\ pull' = [pull EXCEPT ![w] = Conclude(w, seen, "available")]
      \/ /\ p.total \in {-1, total}
         /\ pull' = [pull EXCEPT ![w] =
                       [p EXCEPT !.page = p.page + 1, !.total = total, !.seen = seen]]
  BY DEF FetchPage
<1>3. p.phase = "pulling"
  BY DEF FetchPage
<1>. HIDE DEF total, seen
<1>4. CASE pull' = [pull EXCEPT ![w] = Conclude(w, {}, "error")]
  BY <1>4 DEF Conclude, Idle, TypeOK
<1>5. CASE /\ p.total \in {-1, total} /\ p.page >= LastPage(total)
           /\ pull' = [pull EXCEPT ![w] = Conclude(w, seen, "available")]
  BY <1>1, <1>5 DEF Conclude, Idle, TypeOK, seen
<1>6. CASE /\ p.total \in {-1, total}
           /\ pull' = [pull EXCEPT ![w] =
                         [p EXCEPT !.page = p.page + 1, !.total = total, !.seen = seen]]
  <2>1. pull'[w] = [p EXCEPT !.page = p.page + 1, !.total = total, !.seen = seen]
    BY <1>6 DEF TypeOK
  <2>2. /\ pull'[w].phase = p.phase /\ pull'[w].page = p.page + 1 /\ pull'[w].total = total
        /\ pull'[w].seen = seen /\ pull'[w].window = p.window
        /\ pull'[w].throughout = p.throughout /\ pull'[w].ever = p.ever
    BY <2>1, PullParts DEF Pull
  <2>. QED
    BY <1>1, <1>3, <1>6, <2>2 DEF seen
<1>. QED
  BY <1>2, <1>4, <1>5, <1>6

\* A page keeps account of what is missing.
LEMMA FetchKeepsAccount ==
  ASSUME Parameters, TypeOK, NEW w \in Worker, WholeSoFar(w), FetchPage(w)
  PROVE  WholeSoFar(w)'
<1>1. pull[w].phase = "pulling" /\ UNCHANGED store
  BY FetchOutcome
<1>2. CASE pull'[w].phase = "pulled"
  BY <1>2 DEF WholeSoFar
<1>3. CASE /\ pull[w].total \in {-1, Cardinality(Listed(w))}
           /\ pull'[w].phase = "pulling" /\ pull'[w].page = pull[w].page + 1
           /\ pull'[w].total = Cardinality(Listed(w))
           /\ pull'[w].seen = pull[w].seen \cup Page(pull[w].window, pull[w].page)
           /\ pull'[w].window = pull[w].window
           /\ pull'[w].throughout = pull[w].throughout /\ pull'[w].ever = pull[w].ever
  <2>1. Listed(w)' = Listed(w) /\ \A o : Behind(w, o)' = Behind(w, o)
    BY <1>1, <1>3 DEF Listed, Behind, Within
  <2>2. /\ pull[w].page \in Nat /\ pull[w].page >= 1 /\ Cardinality(Listed(w)) \in Nat
        /\ pull[w].seen \subseteq pull[w].ever /\ Listed(w) \subseteq pull[w].ever
        /\ pull[w].throughout \subseteq Listed(w)
    BY <1>1, PullParts, ListedOrders DEF WholeSoFar
  <2>3. Page(pull[w].window, pull[w].page) \subseteq Listed(w)
    BY PageIsListed DEF Listed
  <2>4. ASSUME NEW o \in pull'[w].throughout \ pull'[w].seen
        PROVE  Cardinality(Behind(w, o))' <= pull'[w].total - (pull'[w].page - 1) * PageSize
    <3>1. Cardinality(Behind(w, o)) <= Cardinality(Listed(w)) - pull[w].page * PageSize
      BY <1>1, <1>3, <2>4, MissedIsBehind
    <3>2. pull'[w].page - 1 = pull[w].page
      BY <1>3, <2>2
    <3>. QED
      BY <1>3, <2>1, <3>1, <3>2
  <2>. QED
    BY <1>3, <2>1, <2>2, <2>3, <2>4 DEF WholeSoFar
<1>. QED
  BY <1>2, <1>3, FetchCases

\* An order is created at the front: it is behind none that a pull may have missed.
LEMMA CreateKeepsAccount ==
  ASSUME Parameters, TypeOK, IInv, PagesAreWhole, Create PROVE PagesAreWhole'
<1>1. PICK k \in Nat : born = 1..k
  BY DEF IInv, BornInOrder
<1>. DEFINE o == k + 1
            S == store \cup {o}
<1>2. store' = S /\ pull' = Witnessed(S) /\ store \subseteq 1..k
  BY <1>1, CountOfInterval DEF Create, TypeOK
<1>. HIDE DEF S
<1>3. ASSUME NEW w \in Worker PROVE WholeSoFar(w)'
  <2>1. WholeSoFar(w)
    BY DEF PagesAreWhole
  <2>2. CASE pull[w].phase # "pulling"
    <3>1. pull'[w] = pull[w]
      BY <1>2, <2>2 DEF Witnessed
    <3>. QED
      BY <2>1, <2>2, <3>1 DEF WholeSoFar
  <2>3. CASE pull[w].phase = "pulling"
    <3>1. /\ pull'[w].phase = "pulling" /\ pull'[w].page = pull[w].page
          /\ pull'[w].total = pull[w].total /\ pull'[w].seen = pull[w].seen
          /\ pull'[w].window = pull[w].window
          /\ pull'[w].throughout = pull[w].throughout \cap S
          /\ pull'[w].ever = pull[w].ever \cup Within(S, pull[w].window)
      BY <1>2, <2>3, WitnessedParts
    <3>2. Listed(w)' = Within(S, pull[w].window) /\ Listed(w) \subseteq Listed(w)'
      BY <1>2, <3>1 DEF Listed, Within, S
    <3>3. pull[w].throughout \subseteq Listed(w) /\ Listed(w) \subseteq store
      BY <2>1, <2>3 DEF WholeSoFar, Listed, Within
    <3>4. pull'[w].throughout = pull[w].throughout
      BY <3>1, <3>3 DEF S
    <3>5. ASSUME NEW x \in pull[w].throughout PROVE Behind(w, x)' = Behind(w, x)
      <4>1. x \in 1..k
        BY <1>2, <3>3, <3>5
      <4>2. ~(o <= x)
        BY <1>1, <4>1
      <4>. QED
        BY <1>2, <3>2, <4>2 DEF Behind, Listed, Within, S
    <3>. QED
      BY <2>1, <2>3, <3>1, <3>2, <3>3, <3>4, <3>5 DEF WholeSoFar
  <2>. QED
    BY <2>2, <2>3
<1>. QED
  BY <1>3 DEF PagesAreWhole

\* A deleted order leaves fewer behind the others.
LEMMA DeleteKeepsAccount ==
  ASSUME Parameters, TypeOK, PagesAreWhole, NEW d \in store, Delete(d) PROVE PagesAreWhole'
<1>. DEFINE S == store \ {d}
<1>1. store' = S /\ pull' = Witnessed(S)
  BY DEF Delete
<1>. HIDE DEF S
<1>2. ASSUME NEW w \in Worker PROVE WholeSoFar(w)'
  <2>1. WholeSoFar(w)
    BY DEF PagesAreWhole
  <2>2. CASE pull[w].phase # "pulling"
    <3>1. pull'[w] = pull[w]
      BY <1>1, <2>2 DEF Witnessed
    <3>. QED
      BY <2>1, <2>2, <3>1 DEF WholeSoFar
  <2>3. CASE pull[w].phase = "pulling"
    <3>1. /\ pull'[w].phase = "pulling" /\ pull'[w].page = pull[w].page
          /\ pull'[w].total = pull[w].total /\ pull'[w].seen = pull[w].seen
          /\ pull'[w].window = pull[w].window
          /\ pull'[w].throughout = pull[w].throughout \cap S
          /\ pull'[w].ever = pull[w].ever \cup Within(S, pull[w].window)
      BY <1>1, <2>3, WitnessedParts
    <3>2. /\ Listed(w)' = Within(S, pull[w].window) /\ Listed(w)' \subseteq Listed(w)
          /\ \A x \in Listed(w) \cap S : x \in Listed(w)'
      BY <1>1, <3>1 DEF Listed, Within, S
    <3>3. pull[w].throughout \subseteq Listed(w)
      BY <2>1, <2>3 DEF WholeSoFar
    <3>4. ASSUME NEW x
          PROVE  /\ Cardinality(Behind(w, x)') <= Cardinality(Behind(w, x))
                 /\ Cardinality(Behind(w, x)') \in Nat /\ Cardinality(Behind(w, x)) \in Nat
      <4>1. Behind(w, x)' \subseteq Behind(w, x)
        BY <3>2 DEF Behind
      <4>. QED
        BY <4>1, ListedOrders, FS_Subset, FS_CardinalityType
    <3>5. ASSUME pull[w].total # -1, NEW x \in pull'[w].throughout \ pull'[w].seen
          PROVE  Cardinality(Behind(w, x)') <= pull[w].total - (pull[w].page - 1) * PageSize
      <4>. DEFINE left == pull[w].total - (pull[w].page - 1) * PageSize
      <4>1. Cardinality(Behind(w, x)) <= left
        BY <2>1, <2>3, <3>1, <3>5 DEF WholeSoFar
      <4>2. left \in Int
        BY PullParts DEF Parameters
      <4>. HIDE DEF left
      <4>3. Cardinality(Behind(w, x)') <= left
        BY <3>4, <4>1, <4>2
      <4>. QED
        BY <4>3 DEF left
    <3>. QED
      BY <2>1, <2>3, <3>1, <3>2, <3>3, <3>5 DEF WholeSoFar
  <2>. QED
    BY <2>2, <2>3
<1>. QED
  BY <1>2 DEF PagesAreWhole

\* A pull that is not reading pages, nor about to, has nothing to account for.
LEMMA OnePullKeepsAccount ==
  ASSUME TypeOK, PagesAreWhole, NEW w \in Worker, UNCHANGED store,
         \A v \in Worker \ {w} : pull'[v] = pull[v],
         pull'[w].phase \notin {"read", "pulling"} \/ WholeSoFar(w)'
  PROVE  PagesAreWhole'
<1>1. ASSUME NEW v \in Worker \ {w} PROVE WholeSoFar(v)'
  <2>1. WholeSoFar(v) /\ pull'[v] = pull[v] /\ Listed(v)' = Listed(v)
    BY <1>1 DEF PagesAreWhole, Listed, Within
  <2>2. \A o : Behind(v, o)' = Behind(v, o)
    BY <2>1 DEF Behind
  <2>. QED
    BY <2>1, <2>2 DEF WholeSoFar
<1>2. WholeSoFar(w)'
  BY DEF WholeSoFar
<1>. QED
  BY <1>1, <1>2 DEF PagesAreWhole

\* Every step keeps account of what each pull misses.
LEMMA PagesStep ==
  ASSUME Parameters, TypeOK, IInv, PagesAreWhole, [Next]_vars PROVE PagesAreWhole'
<1>1. CASE Create \/ \E o \in store : Delete(o)
  BY <1>1, CreateKeepsAccount, DeleteKeepsAccount
<1>2. CASE (\E changed \in BOOLEAN : Replace(changed)) \/ RotateEnvelope \/ UNCHANGED vars
  <2>1. UNCHANGED <<store, pull>>
    BY <1>2 DEF Replace, RotateEnvelope, vars
  <2>2. ASSUME NEW w \in Worker PROVE WholeSoFar(w)'
    <3>1. WholeSoFar(w) /\ Listed(w)' = Listed(w) /\ \A o : Behind(w, o)' = Behind(w, o)
      BY <2>1 DEF PagesAreWhole, Listed, Within, Behind
    <3>. QED
      BY <2>1, <3>1 DEF WholeSoFar
  <2>. QED
    BY <2>2 DEF PagesAreWhole
<1>3. ASSUME NEW w \in Worker, NEW window \in Window, Capture(w, window) PROVE PagesAreWhole'
  <2>1. /\ pull'[w].phase = "read" /\ pull'[w].page = 1 /\ pull'[w].total = -1
        /\ pull'[w].seen = {} /\ \A v \in Worker \ {w} : pull'[v] = pull[v]
        /\ UNCHANGED store
    BY <1>3 DEF Capture, Idle, TypeOK
  <2>2. WholeSoFar(w)'
    BY <2>1 DEF WholeSoFar
  <2>. QED
    BY <2>1, <2>2, OnePullKeepsAccount
<1>4. ASSUME NEW w \in Worker, Claim(w) PROVE PagesAreWhole'
  <2>1. CASE pull' = [pull EXCEPT ![w] = Idle]
    <3>1. pull'[w].phase = "idle" /\ \A v \in Worker \ {w} : pull'[v] = pull[v]
      BY <2>1 DEF TypeOK, Idle
    <3>. QED
      BY <1>4, <3>1, OnePullKeepsAccount DEF Claim
  <2>2. CASE pull' = [pull EXCEPT ![w].phase = "pulling",
                                  ![w].generation = conn.claimed + 1,
                                  ![w].throughout = Within(store, pull[w].window),
                                  ![w].ever = Within(store, pull[w].window)]
    <3>1. /\ pull'[w].page = pull[w].page /\ pull'[w].total = pull[w].total
          /\ pull'[w].seen = pull[w].seen /\ pull'[w].window = pull[w].window
          /\ pull'[w].throughout = Within(store, pull[w].window)
          /\ pull'[w].ever = Within(store, pull[w].window)
          /\ pull'[w].phase = "pulling"
          /\ \A v \in Worker \ {w} : pull'[v] = pull[v]
      BY <2>2 DEF TypeOK, Pull
    <3>2. /\ pull[w].page = 1 /\ pull[w].total = -1 /\ pull[w].seen = {} /\ UNCHANGED store
      BY <1>4 DEF Claim, PagesAreWhole, WholeSoFar
    <3>3. WholeSoFar(w)'
      BY <3>1, <3>2 DEF WholeSoFar, Listed
    <3>. QED
      BY <3>1, <3>2, <3>3, OnePullKeepsAccount
  <2>. QED
    BY <1>4, <2>1, <2>2 DEF Claim
<1>5. ASSUME NEW w \in Worker, FetchPage(w) PROVE PagesAreWhole'
  <2>1. WholeSoFar(w)'
    BY <1>5, FetchKeepsAccount DEF PagesAreWhole
  <2>2. UNCHANGED store /\ \A v \in Worker \ {w} : pull'[v] = pull[v]
    BY <1>5, FetchOutcome DEF TypeOK
  <2>. QED
    BY <2>1, <2>2, OnePullKeepsAccount
<1>6. ASSUME NEW w \in Worker, PageFails(w) \/ Abort(w) \/ PublicationFails(w)
      PROVE  PagesAreWhole'
  <2>1. /\ UNCHANGED store /\ pull'[w].phase \in {"pulled", "failed"}
        /\ \A v \in Worker \ {w} : pull'[v] = pull[v]
    BY <1>6, FailOutcome DEF TypeOK
  <2>. QED
    BY <2>1, OnePullKeepsAccount
<1>7. ASSUME NEW w \in Worker, NEW datasets \in Datasets, NEW complete \in BOOLEAN,
             \/ PersistFailure(w) \/ Superseded(w) \/ Fenced(w) \/ Crash(w)
             \/ Publish(w, datasets, complete)
      PROVE  PagesAreWhole'
  <2>1. UNCHANGED store /\ pull' = [pull EXCEPT ![w] = Idle]
    BY <1>7 DEF PersistFailure, Superseded, Fenced, Crash, Publish
  <2>2. pull'[w].phase = "idle" /\ \A v \in Worker \ {w} : pull'[v] = pull[v]
    BY <2>1 DEF TypeOK, Idle
  <2>. QED
    BY <2>1, <2>2, OnePullKeepsAccount
<1>. QED
  <2>1. "typed" \in Datasets /\ TRUE \in BOOLEAN
    BY DEF Datasets
  <2>. QED
    BY <1>1, <1>2, <1>3, <1>4, <1>5, <1>6, <1>7, <2>1 DEF Next, Sync

\* A pull is concluded with orders by a page only.
LEMMA OnlyPagesConclude ==
  ASSUME TypeOK, Next, NEW w \in Worker,
         pull[w].phase = "pulling", pull'[w].phase = "pulled", pull'[w].orders = "available"
  PROVE  FetchPage(w)
<1>1. CASE Create \/ \E o \in store : Delete(o)
  <2>1. pull'[w].phase = pull[w].phase
    BY <1>1, WitnessedParts DEF Create, Delete
  <2>. QED
    BY <2>1
<1>2. CASE (\E changed \in BOOLEAN : Replace(changed)) \/ RotateEnvelope
  BY <1>2 DEF Replace, RotateEnvelope
<1>3. ASSUME NEW v \in Worker, Sync(v) PROVE FetchPage(w)
  <2>1. CASE v # w
    <3>1. pull'[w] = pull[w]
      BY <1>3, <2>1
        DEF Sync, Capture, Claim, FetchPage, PageFails, Abort, PersistFailure, Publish,
          Superseded, Fenced, PublicationFails, Crash, TypeOK
    <3>. QED
      BY <3>1
  <2>2. CASE v = w
    <3>1. ~(\E window \in Window : Capture(w, window)) /\ ~Claim(w)
      BY DEF Capture, Claim
    <3>2. ~PageFails(w) /\ ~Abort(w) /\ ~PublicationFails(w)
      BY FailOutcome
    <3>3. pull' # [pull EXCEPT ![w] = Idle]
      BY DEF Idle, TypeOK
    <3>4. /\ ~PersistFailure(w) /\ ~Superseded(w) /\ ~Fenced(w) /\ ~Crash(w)
          /\ \A datasets, complete : ~Publish(w, datasets, complete)
      BY <3>3 DEF PersistFailure, Superseded, Fenced, Crash, Publish
    <3>. QED
      BY <1>3, <2>2, <3>1, <3>2, <3>4 DEF Sync
  <2>. QED
    BY <2>1, <2>2
<1>. QED
  BY <1>1, <1>2, <1>3 DEF Next

\* A store, a connection without a run, and no pull.
LEMMA InitOK == ASSUME Parameters, Init PROVE TypeOK /\ IInv /\ PagesAreWhole
<1>1. DOMAIN rows = {} /\ DOMAIN runs = {}
  BY DEF Init
<1>2. /\ \A w \in Worker : pull[w] = Idle
      /\ conn = [boundary |-> [revision |-> 1, key |-> 1], claimed |-> 0, published |-> 0,
                 fresh |-> 0, error |-> "none"]
  BY DEF Init
<1>3. PICK n, k \in Nat : Order = 1..n /\ Existing = 1..k /\ k <= n
  BY DEF Parameters
<1>4. Existing \subseteq Order
  BY <1>3
<1>5. TypeOK
  <2>1. Idle \in Pull
    BY DEF Idle, Pull, Phase, Boundary, Revision, Key, Parameters
  <2>2. conn \in Connection
    BY <1>2 DEF Connection, Boundary, Revision, Key, Parameters
  <2>. QED
    BY <1>1, <1>4, <2>1, <2>2 DEF Init, TypeOK
<1>6. IInv
  <2>1. \A day : Answers(day) = {}
    BY <1>1 DEF Answers
  <2>2. BornInOrder
    BY <1>3 DEF Init, BornInOrder
  <2>3. PullsAreClaimed /\ SeenIsWithin
    BY <1>2 DEF PullsAreClaimed, SeenIsWithin, Claimed, Idle
  <2>4. RunsArePublished /\ RowsAreNewest /\ AnswersHaveRows /\ BoundaryIsFenced
    BY <1>1, <1>2, <2>1
      DEF RunsArePublished, RowsAreNewest, AnswersHaveRows, BoundaryIsFenced
  <2>. QED
    BY <2>2, <2>3, <2>4 DEF IInv
<1>7. PagesAreWhole
  BY <1>2 DEF PagesAreWhole, WholeSoFar, Idle
<1>. QED
  BY <1>5, <1>6, <1>7

\* All of it is inductive together.
LEMMA Invariance == ASSUME Parameters PROVE Spec => [](TypeOK /\ IInv /\ PagesAreWhole)
<1>1. Init => TypeOK /\ IInv /\ PagesAreWhole
  BY InitOK
<1>2. TypeOK /\ IInv /\ PagesAreWhole /\ [Next]_vars => (TypeOK /\ IInv /\ PagesAreWhole)'
  BY TypeStep, Step, PagesStep
<1>. QED
  BY <1>1, <1>2, PTL DEF Spec

-----------------------------------------------------------------------------
(* The theorems *)

\* Every variable keeps its type.
THEOREM TypeCorrect == ASSUME Parameters PROVE Spec => []TypeOK
BY Invariance, PTL

\* Orders and freshness are of the connection as it is now, whenever it was replaced under a
\* pull.
THEOREM OldBoundaryLeavesNothing == ASSUME Parameters PROVE Spec => []BoundaryIsFenced
<1>1. IInv => BoundaryIsFenced
  BY DEF IInv
<1>. QED
  BY <1>1, Invariance, PTL

\* The newest of a set of numbers is its maximum.
LEMMA NewestIsMax == ASSUME NEW S, S \subseteq Nat, NEW g, NewestOf(S, g) PROVE Max(S) = g
<1>1. g \in S /\ \A h \in S : g >= h
  BY DEF NewestOf
<1>2. Max(S) \in S /\ \A h \in S : Max(S) >= h
  BY <1>1 DEF Max
<1>3. Max(S) >= g /\ g >= Max(S) /\ Max(S) \in Nat /\ g \in Nat
  BY <1>1, <1>2
<1>. QED
  BY <1>3

\* For every day the readers count what the newest pull of the day found, and are told that
\* the day is covered exactly if a pull has an answer for it.
THEOREM NewestPullCounts == ASSUME Parameters PROVE Spec => []DayIsItsNewestPull
<1>1. TypeOK /\ IInv => DayIsItsNewestPull
  <2>. SUFFICES ASSUME TypeOK, IInv, NEW day \in {DayOf[o] : o \in Order}
                PROVE  /\ Covering(day) = Answers(day)
                       /\ Visible(day) = IF Answers(day) = {} THEN {}
                                         ELSE Within(runs[Max(Answers(day))].seen, {day})
    BY DEF DayIsItsNewestPull
  <2>1. Covering(day) = Answers(day)
    BY DEF Covering, Answers, Evidenced, IInv, RunsArePublished, TypeOK, Run
  <2>2. Visible(day) =
          {o \in DOMAIN rows : DayOf[o] = day /\ o \in runs[rows[o].run].seen}
    <3>1. ASSUME NEW o \in DOMAIN rows
          PROVE  Evidenced(rows[o].run)
                 /\ (rows[o].state = "active" <=> o \in runs[rows[o].run].seen)
      <4>1. /\ rows[o].run \in Answers(DayOf[o])
            /\ rows[o].state = "active" <=> o \in runs[rows[o].run].seen
        BY DEF IInv, RowsAreNewest, NewestOf
      <4>2. Evidenced(rows[o].run)
        BY <4>1 DEF Answers, Evidenced, IInv, RunsArePublished, TypeOK, Run
      <4>. QED
        BY <4>1, <4>2
    <3>. QED
      BY <3>1 DEF Visible
  <2>3. \A o \in DOMAIN rows : DayOf[o] = day => NewestOf(Answers(day), rows[o].run)
    BY DEF IInv, RowsAreNewest
  <2>4. CASE Answers(day) = {}
    BY <2>1, <2>2, <2>3, <2>4 DEF NewestOf
  <2>5. CASE Answers(day) # {}
    <3>1. PICK g \in Answers(day) :
            /\ NewestOf(Answers(day), g)
            /\ \A o \in runs[g].seen : DayOf[o] = day => o \in DOMAIN rows
      BY <2>5 DEF IInv, AnswersHaveRows
    <3>2. Answers(day) \subseteq Nat
      BY DEF Answers, TypeOK, Generation
    <3>3. Max(Answers(day)) = g
      BY <3>1, <3>2, NewestIsMax
    <3>4. \A o \in DOMAIN rows : DayOf[o] = day => rows[o].run = g
      BY <2>3, <3>2, <3>3, NewestIsMax
    <3>5. Visible(day) = Within(runs[g].seen, {day})
      BY <2>2, <3>1, <3>4 DEF Within
    <3>. QED
      BY <2>1, <2>5, <3>3, <3>5
  <2>. QED
    BY <2>4, <2>5
<1>. QED
  BY <1>1, Invariance, PTL

\* A pull that is kept is whole, however many pages it took and whatever was created or
\* deleted between them: it has every order that was there all the time and none that never
\* was.
THEOREM KeptPullIsWhole == ASSUME Parameters PROVE Spec => PullIsWhole
<1>. DEFINE A == \A w \in Worker :
               pull[w].phase = "pulling" /\ pull'[w].phase = "pulled" /\
               pull'[w].orders = "available" =>
                 /\ pull[w].throughout \subseteq pull'[w].seen
                 /\ pull'[w].seen \subseteq pull[w].ever
<1>1. ASSUME Parameters, TypeOK, PagesAreWhole, Next, NEW w \in Worker,
             pull[w].phase = "pulling", pull'[w].phase = "pulled", pull'[w].orders = "available"
      PROVE  /\ pull[w].throughout \subseteq pull'[w].seen
             /\ pull'[w].seen \subseteq pull[w].ever
  <2>1. FetchPage(w)
    BY <1>1, OnlyPagesConclude
  <2>2. /\ pull[w].total \in {-1, Cardinality(Listed(w))}
        /\ pull[w].page >= LastPage(Cardinality(Listed(w)))
        /\ pull'[w].seen = pull[w].seen \cup Page(pull[w].window, pull[w].page)
    BY <1>1, <2>1, FetchCases
  <2>3. WholeSoFar(w)
    BY <1>1 DEF PagesAreWhole
  <2>4. Cardinality(Listed(w)) <= pull[w].page * PageSize /\ Cardinality(Listed(w)) \in Nat
    BY <1>1, <2>2, LastPageEnds, ListedOrders, PullParts
  <2>5. ASSUME NEW o \in pull[w].throughout \ pull'[w].seen PROVE FALSE
    <3>1. /\ o \in Listed(w)
          /\ Cardinality(Behind(w, o)) <= Cardinality(Listed(w)) - pull[w].page * PageSize
      BY <1>1, <2>2, <2>3, <2>5, MissedIsBehind
    <3>2. Cardinality(Behind(w, o)) >= 1 /\ Cardinality(Behind(w, o)) \in Nat
      BY <1>1, <3>1, RankOfListed, ListedOrders
    <3>3. pull[w].page * PageSize \in Nat
      BY <1>1, PullParts DEF Parameters
    <3>. QED
      BY <2>4, <3>1, <3>2, <3>3
  <2>6. pull'[w].seen \subseteq pull[w].ever
    BY <1>1, <2>2, <2>3, PageIsListed DEF WholeSoFar, Listed
  <2>. QED
    BY <2>5, <2>6
<1>2. Parameters /\ TypeOK /\ PagesAreWhole /\ [Next]_vars => [A]_vars
  BY <1>1
<1>. QED
  BY <1>2, Invariance, PTL DEF Spec, PullIsWhole

=============================================================================
