--------------------------- MODULE ResearchReports ---------------------------
(***************************************************************************)
(* The files of one research report: their generation by attempts of one   *)
(* job, which may overlap when a lease is lost, and the visits that list,  *)
(* download, clean or delete them (app/services/reports.py,                *)
(* app/routes/research.py), while participants withdraw and grant their    *)
(* consent.  The database reads committed rows; the files are outside it.  *)
(***************************************************************************)
EXTENDS Integers, FiniteSets, Functions, TLC

CONSTANTS
  Worker,    \* processes that generate
  Person,    \* the participants
  Format,    \* the formats asked for
  None,
  MaxTime,   \* bound: decisions on consent and the creation of the report
  MaxBegun   \* bound: attempts to generate

VARIABLES
  time,      \* the last moment written into a row
  granted,   \* participants whose consent is granted
  deciding,  \* a withdrawal not yet committed, or None
  withdrawn, \* the history of withdrawals
  report,    \* its row, or None
  rows,      \* its artifact rows by format: the bytes whose checksum they hold
  files,     \* its files by format
  gen,       \* for each worker where its attempt stands
  begun,     \* attempts there were
  visit,     \* a request that reads or cleans, or None
  torn       \* an attempt was killed, or the report deleted in the middle of one

vars == <<time, granted, deciding, withdrawn, report, rows, files, gen, begun, visit, torn>>
people == <<time, granted, deciding, withdrawn>>

Idle == [at |-> "idle"]
Nothing == [f \in {} |-> None]
Gone == [status |-> "deleted"]
Exists == report # None /\ report # Gone

Report ==
  [status : {"queued", "running", "success", "failed"}, created : 1..MaxTime,
   scope : SUBSET Person, expired : BOOLEAN]

\* The attempt that rendered a file, and whom it is of.
Bytes == [by : 1..MaxBegun, of : SUBSET Person]
Table == UNION {[formats -> Bytes] : formats \in SUBSET Format}
Decision == [who : Person, at : 1..MaxTime]

\* What an attempt, and a visit, keep of what they read.
Attempt ==
  {Idle, [at |-> "fail"]}
  \cup [at : {"unlinked"}, by : 1..MaxBegun, found : Table]
  \cup [at : {"read"}, by : 1..MaxBegun, put : {{}}]
  \cup [at : {"purge"}, by : 1..MaxBegun, of : SUBSET Person, put : {{}}]
  \cup [at : {"commit"}, by : 1..MaxBegun, of : SUBSET Person, put : {{}}, found : Table]
  \cup [at : {"put"}, by : 1..MaxBegun, of : SUBSET Person, put : SUBSET Format]
  \cup [at : {"clear"}, found : Table]
Visitor ==
  [at : {"row"}, kind : {"read", "delete"}, known : SUBSET Decision]
  \cup [at : {"file"}, kind : {"read", "delete"}, known : SUBSET Decision, format : Format,
        found : Bytes]
  \cup [at : {"purge"}, kind : {"read", "delete"}]
  \cup [at : {"commit"}, kind : {"read", "delete"}, found : Table]

TypeOK ==
  /\ time \in 0..MaxTime /\ begun \in 0..MaxBegun /\ torn \in BOOLEAN
  /\ granted \subseteq Person
  /\ deciding \in Decision \cup {None}
  /\ withdrawn \subseteq Decision
  /\ report \in Report \cup {None, Gone}
  /\ rows \in Table /\ files \in Table
  /\ gen \in [Worker -> Attempt]
  /\ visit \in Visitor \cup {None}

Init ==
  /\ time = 0 /\ granted = Person /\ deciding = None /\ withdrawn = {}
  /\ report = None /\ rows = Nothing /\ files = Nothing
  /\ gen = [w \in Worker |-> Idle] /\ begun = 0
  /\ visit = None /\ torn = FALSE

-----------------------------------------------------------------------------
(* Consent.  A row takes its moment before its transaction commits. *)

Withdraw(p) ==
  /\ deciding = None /\ p \in granted /\ time < MaxTime
  /\ time' = time + 1
  /\ deciding' = [who |-> p, at |-> time + 1]
  /\ UNCHANGED <<granted, withdrawn, report, rows, files, gen, begun, visit, torn>>

Withdrawn ==
  /\ deciding # None
  /\ withdrawn' = withdrawn \cup {deciding}
  /\ granted' = granted \ {deciding.who}
  /\ deciding' = None
  /\ UNCHANGED <<time, report, rows, files, gen, begun, visit, torn>>

Grant(p) ==
  /\ p \notin granted
  /\ granted' = granted \cup {p}
  /\ UNCHANGED <<time, deciding, withdrawn, report, rows, files, gen, begun, visit, torn>>

-----------------------------------------------------------------------------
(* What a report says, and whom it must not name any more. *)

Create(scope) ==
  /\ report = None /\ time < MaxTime
  /\ time' = time + 1
  /\ report' = [status |-> "queued", created |-> time + 1, scope |-> scope, expired |-> FALSE]
  /\ UNCHANGED <<granted, deciding, withdrawn, rows, files, gen, begun, visit, torn>>

Expire ==
  /\ Exists /\ ~report.expired
  /\ report' = [report EXCEPT !.expired = TRUE]
  /\ UNCHANGED <<people, rows, files, gen, begun, visit, torn>>

\* _filtered_events: events of participants that grant it now.
Included == report.scope \cap granted

\* Mutant of Revoked: consent that is granted again counts as if it had never been withdrawn.
RevokedNow == ~ report.scope \subseteq granted

\* A withdrawal after the report was created, also one that is taken back; a report of one
\* participant wants its consent now.
Revoked ==
  \/ \E w \in withdrawn : w.who \in report.scope /\ w.at > report.created
  \/ Cardinality(report.scope) = 1 /\ ~ report.scope \subseteq granted

Invalid == report.expired \/ Revoked

\* All formats are rendered from one reading; two attempts never render the same bytes.
Rendered(w) == [by |-> gen[w].by, of |-> gen[w].of]

Intact ==
  /\ DOMAIN rows = Format
  /\ \A f \in Format : f \in DOMAIN files /\ files[f] = rows[f]

Without(table, keys) == Restrict(table, DOMAIN table \ keys)

\* A purge takes the rows it read, and unlinks what they name before it commits.
Unlinked(found) == Without(files, DOMAIN found)
Deleted(found) == Without(rows, {f \in DOMAIN found : f \in DOMAIN rows /\ rows[f] = found[f]})

-----------------------------------------------------------------------------
(* generate_report. *)

At(w, stage) == gen[w].at = stage
Go(w, new) == gen' = [gen EXCEPT ![w] = new]

\* The handler refuses an expired report.
Accepted == Exists /\ ~report.expired

\* A successful report is rebuilt when its files are not what its rows say.
Begin(w) ==
  /\ At(w, "idle") /\ begun < MaxBegun
  /\ Accepted /\ ~(report.status = "success" /\ Intact)
  /\ begun' = begun + 1
  /\ LET found == IF report.status = "success" THEN rows ELSE Nothing
     IN /\ files' = Unlinked(found)
        /\ Go(w, [at |-> "unlinked", by |-> begun + 1, found |-> found])
  /\ UNCHANGED <<people, report, rows, visit, torn>>

Run(w) ==
  /\ At(w, "unlinked")
  /\ IF Exists
     THEN /\ report' = [report EXCEPT !.status = "running"]
          /\ rows' = Deleted(gen[w].found)
          /\ Go(w, [at |-> "read", by |-> gen[w].by, put |-> {}])
     ELSE Go(w, Idle) /\ UNCHANGED <<report, rows>>
  /\ UNCHANGED <<people, files, begun, visit, torn>>

\* The events are read and rendered once; then the rows of an earlier attempt.
Read(w) ==
  /\ At(w, "read") /\ Exists
  /\ Go(w, [at |-> "purge", by |-> gen[w].by, of |-> Included, put |-> {}])
  /\ UNCHANGED <<people, report, rows, files, begun, visit, torn>>

Purge(w) ==
  /\ At(w, "purge")
  /\ files' = Unlinked(rows)
  /\ Go(w, [at |-> "commit", by |-> gen[w].by, of |-> gen[w].of, put |-> {}, found |-> rows])
  /\ UNCHANGED <<people, report, rows, begun, visit, torn>>

Purged(w) ==
  /\ At(w, "commit")
  /\ rows' = Deleted(gen[w].found)
  /\ Go(w, [at |-> "put", by |-> gen[w].by, of |-> gen[w].of, put |-> {}])
  /\ UNCHANGED <<people, report, files, begun, visit, torn>>

\* The file is replaced in one step.
Put(w, f) ==
  /\ At(w, "put") /\ f \notin gen[w].put
  /\ files' = [g \in DOMAIN files \cup {f} |-> IF g = f THEN Rendered(w) ELSE files[g]]
  /\ Go(w, [gen[w] EXCEPT !.put = @ \cup {f}])
  /\ UNCHANGED <<people, report, rows, begun, visit, torn>>

\* A report has one row for a format.
Publish(w) ==
  /\ At(w, "put") /\ gen[w].put = Format /\ Exists /\ rows = Nothing
  /\ rows' = [f \in Format |-> Rendered(w)]
  /\ report' = [report EXCEPT !.status = "success"]
  /\ Go(w, Idle)
  /\ UNCHANGED <<people, files, begun, visit, torn>>

\* Mutant of Kept: a failed attempt leaves its files.
KeptAll(w) == files

\* What an attempt that failed leaves on the disk, whoever else wrote it.
Kept(w) == Without(files, gen[w].put)

\* Anything raises, or the rows are taken, or the report is gone.
Fail(w) ==
  /\ gen[w].at \in {"read", "purge", "commit", "put"}
  /\ files' = Kept(w)
  /\ Go(w, [at |-> "fail"])
  /\ UNCHANGED <<people, report, rows, begun, visit, torn>>

Clear(w) ==
  /\ At(w, "fail")
  /\ IF Exists
     THEN /\ files' = Unlinked(rows)
          /\ Go(w, [at |-> "clear", found |-> rows])
     ELSE Go(w, Idle) /\ UNCHANGED files
  /\ UNCHANGED <<people, report, rows, begun, visit, torn>>

Cleared(w) ==
  /\ At(w, "clear")
  /\ IF Exists
     THEN rows' = Deleted(gen[w].found) /\ report' = [report EXCEPT !.status = "failed"]
     ELSE UNCHANGED <<rows, report>>
  /\ Go(w, Idle)
  /\ UNCHANGED <<people, files, begun, visit, torn>>

Killed(w) ==
  /\ ~At(w, "idle")
  /\ Go(w, Idle) /\ torn' = TRUE
  /\ UNCHANGED <<people, report, rows, files, begun, visit>>

-----------------------------------------------------------------------------
(* The routes and the cleanup job. *)

\* A visit that found the report invalid, or is to delete it, purges; a download goes on.  What
\* it will answer must do with what it knew here.  The cleanup visits what is invalid.
Visit(kind) ==
  /\ visit = None /\ Exists
  /\ visit' = IF kind = "delete" \/ Invalid THEN [at |-> "purge", kind |-> kind]
              ELSE [at |-> "row", kind |-> kind, known |-> withdrawn]
  /\ UNCHANGED <<people, report, rows, files, gen, begun, torn>>

Look == Visit("read")
Remove == Visit("delete")

FindRow(f) ==
  /\ visit # None /\ visit.at = "row"
  /\ visit' = IF f \in DOMAIN rows
              THEN [at |-> "file", kind |-> visit.kind, known |-> visit.known, format |-> f,
                    found |-> rows[f]]
              ELSE None
  /\ UNCHANGED <<people, report, rows, files, gen, begun, torn>>

\* The bytes must be those of the row.
Answers ==
  visit.format \in DOMAIN files /\ files[visit.format] = visit.found

ReadFile ==
  /\ visit # None /\ visit.at = "file"
  /\ visit' = IF Answers THEN None ELSE [at |-> "purge", kind |-> "read"]
  /\ UNCHANGED <<people, report, rows, files, gen, begun, torn>>

Unlink ==
  /\ visit # None /\ visit.at = "purge"
  /\ files' = Unlinked(rows)
  /\ visit' = [at |-> "commit", kind |-> visit.kind, found |-> rows]
  /\ UNCHANGED <<people, report, rows, gen, begun, torn>>

\* Deleting the report takes the rows it has by then with it.
Commit ==
  /\ visit # None /\ visit.at = "commit"
  /\ IF visit.kind = "delete" /\ Exists
     THEN /\ report' = Gone /\ rows' = Nothing
          /\ torn' = (torn \/ rows # visit.found \/ \E w \in Worker : ~At(w, "idle"))
     ELSE rows' = Deleted(visit.found) /\ UNCHANGED <<report, torn>>
  /\ visit' = None
  /\ UNCHANGED <<people, files, gen, begun>>

Abandoned ==
  /\ visit # None
  /\ visit' = None
  /\ UNCHANGED <<people, report, rows, files, gen, begun, torn>>

Next ==
  \/ \E p \in Person : Withdraw(p) \/ Grant(p) \/ Create({p})
  \/ Create(Person) \/ Withdrawn \/ Expire
  \/ \E w \in Worker :
       \/ Begin(w) \/ Run(w) \/ Read(w) \/ Purge(w) \/ Purged(w) \/ Publish(w)
       \/ \E f \in Format : Put(w, f)
       \/ Fail(w) \/ Clear(w) \/ Cleared(w) \/ Killed(w)
  \/ Look \/ Remove
  \/ \E f \in Format : FindRow(f)
  \/ ReadFile \/ Unlink \/ Commit \/ Abandoned

Spec == Init /\ [][Next]_vars

-----------------------------------------------------------------------------
(* Properties. *)

\* A download never answers the data of somebody whose withdrawal after the creation of the
\* report was known when it began, even if that person was read before, was granted again or the
\* file was replaced since.
NobodyWithdrawnIsServed ==
  visit # None /\ visit.at = "file" /\ Exists /\ Answers =>
    \A w \in visit.known : w.at > report.created => w.who \notin files[visit.format].of

\* When nobody is at work, a file on the disk is named by a row, so that the cleanup finds it,
\* unless an attempt was killed or the report deleted under one.
NoFileIsForgotten ==
  (\A w \in Worker : At(w, "idle")) /\ visit = None /\ ~torn => DOMAIN files \subseteq DOMAIN rows

=============================================================================
