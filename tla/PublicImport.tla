----------------------------- MODULE PublicImport -----------------------------
(***************************************************************************)
(* Runs of the public import (scripts/public-vanilla-import.ts and          *)
(* writePublicImport), one action per awaited statement or group of them    *)
(* that nobody else can observe.  Vanilla changes between runs, users edit  *)
(* the imported rows, runs overlap, and a run may be killed at any step.    *)
(*                                                                          *)
(* A run sees the snapshot its transaction takes with its first statement.  *)
(* When the run applies its plan, that statement is the one that waits for  *)
(* the advisory lock, so the snapshot is older than the lock.               *)
(***************************************************************************)
EXTENDS Naturals, FiniteSets

CONSTANTS Sources,     \* the states of the Vanilla database
          FirstSource, \* the one the model starts in
          Plan(_),     \* the rows planned for one, a set of entries
          Throws(_),   \* whether planning it throws
          Runs,        \* invocations of the command line tool
          Nobody,      \* no run
          NoSource,    \* no state of Vanilla
          UserRow,     \* the columns of a row as a user left them
          UserKeys,    \* rows users may change
          StateKeys,   \* those of them that users also add and remove
          MaxEdits,    \* bound: changes by users
          MaxChanges   \* bound: changes of Vanilla

ASSUME RunsAssumption == Nobody \notin Runs
ASSUME SourcesAssumption == FirstSource \in Sources /\ NoSource \notin Sources
\* A Vanilla row makes one row of a kind; users leave rows no import plans.
ASSUME PlanAssumption ==
    \A s \in Sources : \A e \in Plan(s) :
        e.row # UserRow /\ \A f \in Plan(s) : e.name = f.name => e = f

VARIABLES source, target, ledger,
          lock,      \* the run that holds the advisory lock
          run,       \* the memory of every run
          touched,   \* keys of rows that users added, changed or removed
          edits, changes

vars == <<source, target, ledger, lock, run, touched, edits, changes>>

-----------------------------------------------------------------------------
(* Entries carry the key of their row, with its table, and the name of their *)
(* record, an entity type and a Vanilla id.                                 *)

\* planned: the columns the import writes; others: the columns it leaves to
\* their defaults, like `watching`.
NewRow(e) == [planned |-> e.row, others |-> "default"]

Empty == [x \in {} |-> x]

\* The tables after inserting the rows of `new`, and the records made of it.
WithRows(t, new) ==
    [k \in DOMAIN t \cup {e.key : e \in new} |->
        IF k \in DOMAIN t THEN t[k]
        ELSE NewRow(CHOOSE e \in new : e.key = k)]

\* Mutant: records are written for topics and posts only.
WithSomeRecords(l, new) ==
    [n \in DOMAIN l \cup {e.name : e \in {x \in new :
                             x.key[1] \in {"Topic", "Post"}}} |->
        IF n \in DOMAIN l THEN l[n]
        ELSE LET e == CHOOSE x \in new : x.name = n
             IN  [key |-> e.key, stored |-> NewRow(e)]]

WithRecords(l, new) ==
    [n \in DOMAIN l \cup {e.name : e \in new} |->
        IF n \in DOMAIN l THEN l[n]
        ELSE LET e == CHOOSE x \in new : x.name = n
             IN  [key |-> e.key, stored |-> NewRow(e)]]

\* from: the state of Vanilla the plan was made of; seen, records, stale: the
\* tables, the records and `touched` in the snapshot of the transaction.
Idle == [phase |-> "idle", mode |-> "dry run", from |-> NoSource,
         seen |-> Empty, records |-> Empty, stale |-> {}]

Init ==
    /\ source = FirstSource
    /\ target = Empty
    /\ ledger = Empty
    /\ lock = Nobody
    /\ run = [r \in Runs |-> Idle]
    /\ touched = {}
    /\ edits = 0 /\ changes = 0

Others == <<touched, edits, changes>>

-----------------------------------------------------------------------------
(* A run.                                                                   *)

Applies(r) == run[r].mode = "apply"

Goto(r, phase) == run' = [run EXCEPT ![r].phase = phase]

\* One consistent snapshot of Vanilla and the member directory, and its plan.
ReadAndPlan(r, mode) ==
    /\ run[r].phase = "idle"
    /\ run' = [run EXCEPT ![r].phase = IF Throws(source) THEN "refused"
                                                          ELSE "planned",
                          ![r].mode = mode,
                          ![r].from = source]
    /\ UNCHANGED <<source, target, ledger, lock>> /\ UNCHANGED Others

\* BEGIN and the first statement, which takes the snapshot.
Begin(r) ==
    /\ run[r].phase = "planned"
    /\ run' = [run EXCEPT ![r].phase = IF Applies(r) THEN "waiting"
                                                       ELSE "begun",
                          ![r].seen = target, ![r].records = ledger,
                          ![r].stale = touched]
    /\ UNCHANGED <<source, target, ledger, lock>> /\ UNCHANGED Others

AcquireLock(r) ==
    /\ run[r].phase = "waiting"
    /\ lock = Nobody
    /\ lock' = r
    /\ Goto(r, "begun")
    /\ UNCHANGED <<source, target, ledger>> /\ UNCHANGED Others

\* Mutant: the lock outlives the transaction.
ReleaseNever(r) == lock' = lock

\* The transaction is over; its lock goes with it.
Release(r) == lock' = IF lock = r THEN Nobody ELSE lock

IsDuplicate(plan) ==
    \E e, f \in plan : e # f /\ e.key = f.key

\* Mutant: only the source is compared with the record.
IsSourceDrift(e, seen, records) ==
    /\ e.name \in DOMAIN records
    /\ records[e.name].stored.planned # e.row

\* A row imported before is in conflict when it is gone, when it would now be
\* planned differently (its hash covers its key), or when its planned columns
\* are not as inserted.
IsConflict(e, seen, records) ==
    /\ e.name \in DOMAIN records
    /\ e.key \in DOMAIN seen =>
          \/ records[e.name] # [key |-> e.key, stored |-> NewRow(e)]
          \/ seen[e.key].planned # records[e.name].stored.planned

\* Mutant: the records of earlier imports are not looked at.
IsTaken(e, seen, records) == e.key \in DOMAIN seen

\* A row that is there without a record belongs to somebody else.
IsUnowned(e, seen, records) ==
    /\ e.name \notin DOMAIN records
    /\ e.key \in DOMAIN seen

PlanOf(r) == Plan(run[r].from)

IsRefused(r) ==
    \/ IsDuplicate(PlanOf(r))
    \/ \E e \in PlanOf(r) :
          \/ IsConflict(e, run[r].seen, run[r].records)
          \/ IsUnowned(e, run[r].seen, run[r].records)

NewEntries(r) == {e \in PlanOf(r) : e.name \notin DOMAIN run[r].records}

\* The checks, all of them on the snapshot.
Check(r) ==
    /\ run[r].phase = "begun"
    /\ \/ /\ IsRefused(r)
          /\ Goto(r, "refused")
          /\ Release(r)
       \/ /\ ~IsRefused(r)
          /\ Goto(r, "checked")
          /\ UNCHANGED lock
    /\ UNCHANGED <<source, target, ledger>> /\ UNCHANGED Others

\* Mutant: INSERT ... ON CONFLICT DO NOTHING.
InsertMissingRows(r) ==
    /\ run[r].phase = "checked" /\ Applies(r)
    /\ Goto(r, "inserted")
    /\ UNCHANGED <<source, target, ledger, lock>> /\ UNCHANGED Others

\* The rows are inserted, seen by nobody yet.  A row that was committed since
\* the snapshot is not in it, but the unique index knows it.
InsertRows(r) ==
    /\ run[r].phase = "checked" /\ Applies(r)
    /\ \/ /\ \E e \in NewEntries(r) :
                e.key \in DOMAIN target \/ e.name \in DOMAIN ledger
          /\ Goto(r, "refused")
          /\ Release(r)
       \/ /\ \A e \in NewEntries(r) :
                e.key \notin DOMAIN target /\ e.name \notin DOMAIN ledger
          /\ Goto(r, "inserted")
          /\ UNCHANGED lock
    /\ UNCHANGED <<source, target, ledger>> /\ UNCHANGED Others

Commit(r) ==
    /\ run[r].phase = "inserted"
    /\ target' = WithRows(target, NewEntries(r))
    /\ ledger' = WithRecords(ledger, NewEntries(r))
    /\ touched' = touched \ {e.key : e \in NewEntries(r)}
    /\ Goto(r, "committed")
    /\ Release(r)
    /\ UNCHANGED <<source, edits, changes>>

\* A dry run commits a transaction that only read.
CommitDryRun(r) ==
    /\ run[r].phase = "checked" /\ ~Applies(r)
    /\ Goto(r, "committed")
    /\ UNCHANGED <<source, target, ledger, lock>> /\ UNCHANGED Others

Open == {"waiting", "begun", "checked", "inserted"}

\* The run is killed or a statement fails: its transaction is rolled back.
Fail(r) ==
    /\ run[r].phase \in Open \cup {"planned"}
    /\ Goto(r, "failed")
    /\ Release(r)
    /\ UNCHANGED <<source, target, ledger>> /\ UNCHANGED Others

RunStep(r) ==
    \/ \E mode \in {"apply", "dry run"} : ReadAndPlan(r, mode)
    \/ Begin(r) \/ AcquireLock(r) \/ Check(r) \/ InsertRows(r)
    \/ Commit(r) \/ CommitDryRun(r)

-----------------------------------------------------------------------------
(* Users of the forums and of Vanilla.                                      *)

Edit == edits < MaxEdits /\ edits' = edits + 1

\* Rows inserted and not yet committed make the writer of the same key wait.
Reserved == UNION {{e.key : e \in NewEntries(r)} :
                      r \in {q \in Runs : run[q].phase = "inserted"}}

IsImported(k) == \E n \in DOMAIN ledger : ledger[n].key = k

EditRow(k) ==
    /\ k \in DOMAIN target /\ Edit
    /\ target[k].planned # UserRow
    /\ target' = [target EXCEPT ![k].planned = UserRow]
    /\ touched' = touched \cup {k}
    /\ UNCHANGED <<source, ledger, lock, run, changes>>

\* A change of a column the import does not write, like turning a watch off.
EditOtherColumn(k) ==
    /\ k \in DOMAIN target /\ Edit
    /\ target[k].others = "default"
    /\ target' = [target EXCEPT ![k].others = "changed"]
    /\ UNCHANGED <<source, ledger, lock, run, touched, changes>>

\* Watches and read states are keyed by topic and member.
TopicOf(k) == <<"Topic", k[2][1]>>

AddRow(k) ==
    /\ k \in StateKeys \ (DOMAIN target \cup Reserved) /\ Edit
    /\ TopicOf(k) \in DOMAIN target
    /\ target' = [j \in DOMAIN target \cup {k} |->
                     IF j = k THEN [planned |-> UserRow, others |-> "default"]
                              ELSE target[j]]
    /\ touched' = touched \cup {k}
    /\ UNCHANGED <<source, ledger, lock, run, changes>>

RemoveRow(k) ==
    /\ k \in StateKeys \cap DOMAIN target /\ Edit
    /\ target' = [j \in DOMAIN target \ {k} |-> target[j]]
    /\ touched' = IF IsImported(k) THEN touched \cup {k} ELSE touched \ {k}
    /\ UNCHANGED <<source, ledger, lock, run, changes>>

VanillaChanges(s) ==
    /\ changes < MaxChanges /\ changes' = changes + 1
    /\ source' = s
    /\ UNCHANGED <<target, ledger, lock, run, touched, edits>>

UserStep ==
    \/ \E k \in UserKeys : \/ EditRow(k) \/ EditOtherColumn(k)
                          \/ AddRow(k) \/ RemoveRow(k)
    \/ \E s \in Sources \ {source} : VanillaChanges(s)

Next == (\E r \in Runs : RunStep(r) \/ Fail(r)) \/ UserStep

\* A process that runs keeps running; nobody has to start one or edit a row.
Spec ==
    /\ Init /\ [][Next]_vars
    /\ \A r \in Runs :
          WF_vars(Begin(r) \/ AcquireLock(r) \/ Check(r) \/ InsertRows(r)
                  \/ Commit(r) \/ CommitDryRun(r))

-----------------------------------------------------------------------------
(* Properties.                                                              *)

Phases == Open \cup {"idle", "planned", "committed", "refused", "failed"}
Ended == {"committed", "refused", "failed"}

PlannedKeys(r) == {e.key : e \in PlanOf(r)}

\* Shapes of the variables; and the lock is held by the applying run that is
\* past its first statement, so at most one run inserts.
TypeOK ==
    /\ source \in Sources
    /\ lock \in Runs \cup {Nobody}
    /\ \A r \in Runs :
          /\ run[r].phase \in Phases
          /\ lock = r <=> /\ Applies(r)
                          /\ run[r].phase \in Open \ {"waiting"}
    /\ \A k \in DOMAIN target :
          /\ DOMAIN target[k] = {"planned", "others"}
          /\ target[k].others \in {"default", "changed"}

\* "All inserts occur in one serializable transaction": every row planned by
\* a run that committed has its record, and every record comes from such a
\* run, whatever ran beside it, failed or was killed.
LedgerIsWhole ==
    /\ \A r \in Runs : run[r].phase = "committed" /\ Applies(r) =>
          \A e \in PlanOf(r) :
             /\ e.name \in DOMAIN ledger
             /\ ledger[e.name] = [key |-> e.key, stored |-> NewRow(e)]
    /\ \A n \in DOMAIN ledger : \E r \in Runs :
          /\ run[r].phase = "committed" /\ Applies(r)
          /\ \E e \in PlanOf(r) :
                /\ e.name = n
                /\ ledger[n] = [key |-> e.key, stored |-> NewRow(e)]

\* A row that no user touched is what a record says, and a record whose row no
\* user touched has it.
UntouchedRowsMatch ==
    /\ \A n \in DOMAIN ledger : ledger[n].key \in touched \cup DOMAIN target
    /\ \A k \in DOMAIN target \ touched :
          \E n \in DOMAIN ledger :
             /\ ledger[n].key = k
             /\ ledger[n].stored.planned = target[k].planned

\* "The importer refuses unowned ID collisions ... changed target content": a
\* run, dry or not, that commits planned no row a user had changed, removed
\* or added before the run took its snapshot.  One may come back: a row removed
\* by its member that was imported from another row of Vanilla.
EditsAreNoticed ==
    \A r \in Runs : run[r].phase = "committed" =>
        \A e \in PlanOf(r) : e.key \in run[r].stale =>
            e.name \notin DOMAIN run[r].records /\ e.key \notin DOMAIN run[r].seen

\* "an unchanged rerun [is] a no-op": a run is refused only because planning
\* threw, a user touched a planned row, its place was given to another row of
\* Vanilla, Vanilla would now give another row, or another import committed
\* after the run took its snapshot.
RefusalHasCause ==
    [][\A r \in Runs :
          run[r].phase # "refused" /\ run'[r].phase = "refused" =>
             \/ Throws(run'[r].from)
             \/ IsDuplicate(PlanOf(r))
             \/ PlannedKeys(r) \cap (run[r].stale \cup touched) # {}
             \/ \E e \in PlanOf(r), n \in DOMAIN ledger :
                   n # e.name /\ ledger[n].key = e.key
             \/ \E e \in PlanOf(r) :
                   /\ e.name \in DOMAIN ledger
                   /\ \/ e.name \notin DOMAIN run[r].records
                      \/ ledger[e.name] # [key |-> e.key, stored |-> NewRow(e)]
      ]_vars

Ledger == INSTANCE ImportLedger

\* No run changes a row that is there, whoever made it: see ImportLedger.
ImplementsLedger == Ledger!Spec

\* A planned run ends: none waits for the lock forever.
EveryImportEnds ==
    \A r \in Runs : run[r].phase = "planned" ~> run[r].phase \in Ended

=============================================================================
