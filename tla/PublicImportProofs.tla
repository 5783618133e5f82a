-------------------------- MODULE PublicImportProofs --------------------------
(***************************************************************************)
(* Proofs about PublicImport, for any plans that give a row of Vanilla one *)
(* row of a kind, any number of runs and any edits, and about PublicPlan,  *)
(* for any snapshots: that its plans are of this kind among others.        *)
(***************************************************************************)
EXTENDS PlannedImport, FiniteSetTheorems, TLAPS

RunFields == {"phase", "mode", "from", "seen", "records", "stale"}

Shapes == DOMAIN run = Runs /\ \A r \in Runs : DOMAIN run[r] = RunFields

\* What tables t, records l and the touched keys u say of one another: a record
\* holds a planned row; the row is there or was touched; an untouched row is as
\* some record says; and a touched one is as a user left it.
RecordsSound(t, l, u) ==
  /\ \A n \in DOMAIN l : l[n].stored.planned # UserRow
  /\ \A n \in DOMAIN l : l[n].key \in u \cup DOMAIN t
  /\ \A k \in DOMAIN t \ u :
       \E n \in DOMAIN l : l[n].key = k /\ l[n].stored.planned = t[k].planned
  /\ \A k \in u \cap DOMAIN t : t[k].planned = UserRow

Snapped == {"waiting", "begun", "checked", "inserted", "committed"}
Passed == {"checked", "inserted", "committed"}

IsNew(e) == e.key \notin DOMAIN target /\ e.name \notin DOMAIN ledger

\* What a run knows: its snapshot was sound and its records are still there; it
\* passed the checks; and what it has inserted is in nobody's way.
SnapshotOK(r) ==
  run[r].phase \in Snapped =>
    /\ RecordsSound(run[r].seen, run[r].records, run[r].stale)
    /\ \A n \in DOMAIN run[r].records :
         n \in DOMAIN ledger /\ ledger[n] = run[r].records[n]

RunOK(r) ==
  /\ run[r].phase # "idle" => run[r].from \in Sources
  /\ run[r].phase \in {"waiting", "inserted"} => Applies(r)
  /\ run[r].phase \in Passed => ~IsRefused(r)
  /\ run[r].phase = "inserted" => \A e \in NewEntries(r) : IsNew(e)

IInv ==
  /\ Shapes /\ TypeOK
  /\ RecordsSound(target, ledger, touched)
  /\ \A r \in Runs : SnapshotOK(r) /\ RunOK(r)
  /\ LedgerIsWhole

LEMMA InitIInv == Init => IInv
<1> SUFFICES ASSUME Init PROVE IInv
  OBVIOUS
<1> USE DEF Init, Idle, Empty
<1>1. Shapes
  BY DEF Shapes, RunFields
<1>2. TypeOK
  BY SourcesAssumption, RunsAssumption DEF TypeOK, Phases, Open, Applies
<1>3. RecordsSound(target, ledger, touched)
  BY DEF RecordsSound
<1>4. \A r \in Runs : SnapshotOK(r) /\ RunOK(r)
  BY DEF SnapshotOK, RunOK, Snapped, Passed
<1>5. LedgerIsWhole
  BY DEF LedgerIsWhole
<1>6. QED
  BY <1>1, <1>2, <1>3, <1>4, <1>5 DEF IInv

-----------------------------------------------------------------------------
(* Steps of one run that leave the tables alone.                           *)

\* What is said of a run depends on its memory and the tables.
LEMMA SameMemory ==
  ASSUME NEW q, run'[q].from = run[q].from, run'[q].seen = run[q].seen,
         run'[q].records = run[q].records, run'[q].mode = run[q].mode
  PROVE  /\ PlanOf(q)' = PlanOf(q) /\ NewEntries(q)' = NewEntries(q)
         /\ IsRefused(q)' <=> IsRefused(q)
         /\ Applies(q)' <=> Applies(q)
  BY DEF PlanOf, NewEntries, IsRefused, Applies

\* The lock is with the applying run that is past its first statement.
LockOK(r) == lock = r <=> Applies(r) /\ run[r].phase \in Open \ {"waiting"}

LEMMA TablesAlone ==
  ASSUME IInv, NEW r \in Runs, UNCHANGED <<target, ledger, touched>>,
         source' \in Sources, lock' \in Runs \cup {Nobody},
         DOMAIN run' = Runs, DOMAIN run'[r] = RunFields,
         run'[r].phase \in Phases,
         \A q \in Runs \ {r} : run'[q] = run[q] /\ (lock' = q <=> lock = q),
         LockOK(r)', SnapshotOK(r)', RunOK(r)',
         run[r].phase # "committed",
         run'[r].phase = "committed" => ~Applies(r)'
  PROVE  IInv'
<1> USE DEF IInv
<1>0. \A q \in Runs \ {r} :
         /\ PlanOf(q)' = PlanOf(q) /\ NewEntries(q)' = NewEntries(q)
         /\ IsRefused(q)' <=> IsRefused(q)
         /\ Applies(q)' <=> Applies(q)
  BY SameMemory
<1>1. Shapes'
  BY DEF Shapes
<1>2. TypeOK'
  BY <1>0 DEF TypeOK, LockOK
<1>3. RecordsSound(target, ledger, touched)'
  BY DEF RecordsSound
<1>4. \A q \in Runs : SnapshotOK(q)'
  BY DEF SnapshotOK, RecordsSound
<1>5. \A q \in Runs : RunOK(q)'
  BY <1>0 DEF RunOK, IsNew
<1>6. LedgerIsWhole'
  BY <1>0 DEF LedgerIsWhole
<1>7. QED
  BY <1>1, <1>2, <1>3, <1>4, <1>5, <1>6

LEMMA ReadAndPlanKeeps ==
  ASSUME IInv, NEW r \in Runs, NEW mode, ReadAndPlan(r, mode)
  PROVE  IInv'
<1> USE DEF ReadAndPlan, Others, IInv, Shapes
<1>1. /\ DOMAIN run' = Runs /\ DOMAIN run'[r] = RunFields
      /\ run'[r].phase \in {"planned", "refused"} /\ run'[r].from = source
      /\ \A q \in Runs \ {r} : run'[q] = run[q]
  BY DEF RunFields
<1>2. LockOK(r)'
  BY <1>1 DEF TypeOK, LockOK, Open
<1>3. SnapshotOK(r)' /\ RunOK(r)'
  BY <1>1 DEF TypeOK, SnapshotOK, RunOK, Snapped, Passed
<1>4. QED
  BY <1>1, <1>2, <1>3, TablesAlone DEF TypeOK, Phases, Open

LEMMA BeginKeeps ==
  ASSUME IInv, NEW r \in Runs, Begin(r)
  PROVE  IInv'
<1> USE DEF Begin, Others, IInv, Shapes
<1>1. /\ DOMAIN run' = Runs /\ DOMAIN run'[r] = RunFields
      /\ run'[r].phase = IF Applies(r) THEN "waiting" ELSE "begun"
      /\ run'[r].mode = run[r].mode /\ run'[r].from = run[r].from
      /\ run'[r].seen = target /\ run'[r].records = ledger
      /\ run'[r].stale = touched
      /\ \A q \in Runs \ {r} : run'[q] = run[q]
  BY DEF RunFields
<1>2. LockOK(r)'
  BY <1>1 DEF TypeOK, LockOK, Open, Applies
<1>3. SnapshotOK(r)'
  BY <1>1 DEF SnapshotOK
<1>4. RunOK(r)'
  BY <1>1 DEF RunOK, Passed, Applies
<1>5. QED
  BY <1>1, <1>2, <1>3, <1>4, TablesAlone DEF TypeOK, Phases, Open

\* A step that moves a run to another phase and changes nothing else of it.
LEMMA GotoMoves ==
  ASSUME Shapes, NEW r \in Runs, NEW p, Goto(r, p)
  PROVE  /\ DOMAIN run' = Runs /\ DOMAIN run'[r] = RunFields
         /\ run'[r].phase = p
         /\ \A q \in Runs \ {r} : run'[q] = run[q]
         /\ run'[r].mode = run[r].mode /\ run'[r].from = run[r].from
         /\ run'[r].seen = run[r].seen /\ run'[r].records = run[r].records
         /\ run'[r].stale = run[r].stale
         /\ PlanOf(r)' = PlanOf(r) /\ NewEntries(r)' = NewEntries(r)
         /\ IsRefused(r)' <=> IsRefused(r)
         /\ Applies(r)' <=> Applies(r)
<1>1. /\ DOMAIN run' = Runs /\ DOMAIN run'[r] = RunFields
      /\ run'[r].phase = p
      /\ \A q \in Runs \ {r} : run'[q] = run[q]
      /\ run'[r].mode = run[r].mode /\ run'[r].from = run[r].from
      /\ run'[r].seen = run[r].seen /\ run'[r].records = run[r].records
      /\ run'[r].stale = run[r].stale
  BY DEF Goto, Shapes, RunFields
<1>2. QED
  BY <1>1, SameMemory

LEMMA AcquireLockKeeps ==
  ASSUME IInv, NEW r \in Runs, AcquireLock(r)
  PROVE  IInv'
<1> USE DEF AcquireLock, Others, IInv
<1>1. /\ DOMAIN run' = Runs /\ DOMAIN run'[r] = RunFields
      /\ run'[r].phase = "begun"
      /\ \A q \in Runs \ {r} : run'[q] = run[q]
      /\ Applies(r)' <=> Applies(r)
      /\ run'[r].from = run[r].from
      /\ run'[r].seen = run[r].seen /\ run'[r].records = run[r].records
      /\ run'[r].stale = run[r].stale
  BY GotoMoves
<1>2. LockOK(r)'
  BY <1>1 DEF RunOK, LockOK, Open
<1>3. SnapshotOK(r)' /\ RunOK(r)'
  BY <1>1 DEF SnapshotOK, RunOK, Snapped, Passed, RecordsSound
<1>4. \A q \in Runs \ {r} : lock' = q <=> lock = q
  BY RunsAssumption
<1>5. QED
  BY <1>1, <1>2, <1>3, <1>4, TablesAlone DEF TypeOK, Phases, Open

\* The transaction of a run ends without a trace.
LEMMA RunEndsAlone ==
  ASSUME IInv, NEW r \in Runs, NEW p \in {"refused", "failed"}, Goto(r, p),
         Release(r), run[r].phase # "committed",
         UNCHANGED <<source, target, ledger, touched>>,
         run[r].phase # "idle"
  PROVE  IInv'
<1> USE DEF IInv
<1>1. /\ DOMAIN run' = Runs /\ DOMAIN run'[r] = RunFields
      /\ run'[r].phase = p
      /\ \A q \in Runs \ {r} : run'[q] = run[q]
      /\ run'[r].from = run[r].from
  BY GotoMoves
<1>2. LockOK(r)'
  BY <1>1, RunsAssumption DEF LockOK, Open, Release
<1>3. SnapshotOK(r)' /\ RunOK(r)'
  BY <1>1 DEF SnapshotOK, RunOK, Snapped, Passed
<1>4. /\ \A q \in Runs \ {r} : lock' = q <=> lock = q
      /\ lock' \in Runs \cup {Nobody}
  BY RunsAssumption DEF Release, TypeOK
<1>5. QED
  BY <1>1, <1>2, <1>3, <1>4, TablesAlone DEF TypeOK, Phases, Open

LEMMA CheckKeeps ==
  ASSUME IInv, NEW r \in Runs, Check(r)
  PROVE  IInv'
<1> USE DEF Check, Others
<1>1. CASE IsRefused(r)
  BY <1>1, RunEndsAlone
<1>2. CASE ~IsRefused(r)
  <2> USE DEF IInv
  <2>1. /\ DOMAIN run' = Runs /\ DOMAIN run'[r] = RunFields
        /\ run'[r].phase = "checked"
        /\ \A q \in Runs \ {r} : run'[q] = run[q]
        /\ IsRefused(r)' <=> IsRefused(r)
        /\ Applies(r)' <=> Applies(r)
        /\ run'[r].from = run[r].from
        /\ run'[r].seen = run[r].seen /\ run'[r].records = run[r].records
        /\ run'[r].stale = run[r].stale
    BY <1>2, GotoMoves
  <2>2. LockOK(r)'
    BY <1>2, <2>1 DEF TypeOK, LockOK, Open
  <2>3. SnapshotOK(r)'
    BY <1>2, <2>1 DEF SnapshotOK, Snapped, RecordsSound
  <2>4. RunOK(r)'
    BY <1>2, <2>1 DEF RunOK, Passed
  <2>5. QED
    BY <1>2, <2>1, <2>2, <2>3, <2>4, TablesAlone DEF TypeOK, Phases, Open
<1>3. QED
  BY <1>1, <1>2

LEMMA InsertRowsKeeps ==
  ASSUME IInv, NEW r \in Runs, InsertRows(r)
  PROVE  IInv'
<1> USE DEF InsertRows, Others
<1>1. CASE \E e \in NewEntries(r) : ~IsNew(e)
  BY <1>1, RunEndsAlone DEF IsNew
<1>2. CASE \A e \in NewEntries(r) : IsNew(e)
  <2> USE DEF IInv
  <2>1. /\ DOMAIN run' = Runs /\ DOMAIN run'[r] = RunFields
        /\ run'[r].phase = "inserted"
        /\ \A q \in Runs \ {r} : run'[q] = run[q]
        /\ IsRefused(r)' <=> IsRefused(r)
        /\ NewEntries(r)' = NewEntries(r)
        /\ Applies(r)' <=> Applies(r)
        /\ run'[r].from = run[r].from
        /\ run'[r].seen = run[r].seen /\ run'[r].records = run[r].records
        /\ run'[r].stale = run[r].stale
        /\ lock' = lock
    BY <1>2, GotoMoves DEF IsNew
  <2>2. LockOK(r)'
    BY <2>1 DEF TypeOK, LockOK, Open
  <2>3. SnapshotOK(r)'
    BY <2>1 DEF SnapshotOK, Snapped, RecordsSound
  <2>4. RunOK(r)'
    BY <1>2, <2>1 DEF RunOK, Passed, IsNew
  <2>5. QED
    BY <2>1, <2>2, <2>3, <2>4, TablesAlone DEF TypeOK, Phases, Open
<1>3. QED
  BY <1>1, <1>2

LEMMA CommitDryRunKeeps ==
  ASSUME IInv, NEW r \in Runs, CommitDryRun(r)
  PROVE  IInv'
<1> USE DEF CommitDryRun, Others, IInv
<1>1. /\ DOMAIN run' = Runs /\ DOMAIN run'[r] = RunFields
      /\ run'[r].phase = "committed"
      /\ \A q \in Runs \ {r} : run'[q] = run[q]
      /\ IsRefused(r)' <=> IsRefused(r)
      /\ Applies(r)' <=> Applies(r)
      /\ run'[r].from = run[r].from
      /\ run'[r].seen = run[r].seen /\ run'[r].records = run[r].records
      /\ run'[r].stale = run[r].stale
  BY GotoMoves
<1>2. LockOK(r)'
  BY <1>1 DEF TypeOK, LockOK, Open
<1>3. SnapshotOK(r)'
  BY <1>1 DEF SnapshotOK, Snapped, RecordsSound
<1>4. RunOK(r)'
  BY <1>1 DEF RunOK, Passed
<1>5. QED
  BY <1>1, <1>2, <1>3, <1>4, TablesAlone DEF TypeOK, Phases, Open

LEMMA FailKeeps ==
  ASSUME IInv, NEW r \in Runs, Fail(r)
  PROVE  IInv'
  BY RunEndsAlone DEF Fail, Others, Open

-----------------------------------------------------------------------------
(* The step that shows the rows of a run to everybody.                     *)

Added(r) == {e.key : e \in NewEntries(r)}

\* The tables after a commit: the old rows as they were, and the planned ones.
Adds(r) ==
  /\ \A e \in NewEntries(r) : e \in PlanOf(r) /\ IsNew(e)
  /\ DOMAIN target' = DOMAIN target \cup Added(r)
  /\ \A k \in DOMAIN target : target'[k] = target[k]
  /\ \A e \in NewEntries(r) : target'[e.key] = NewRow(e)
  /\ \A n \in DOMAIN ledger : n \in DOMAIN ledger' /\ ledger'[n] = ledger[n]
  /\ \A e \in NewEntries(r) :
       /\ e.name \in DOMAIN ledger'
       /\ ledger'[e.name] = [key |-> e.key, stored |-> NewRow(e)]
  /\ \A n \in DOMAIN ledger' :
       n \notin DOMAIN ledger => \E e \in NewEntries(r) : n = e.name
  /\ run[r].from \in Sources /\ ~IsRefused(r)

LEMMA CommitAdds ==
  ASSUME IInv, NEW r \in Runs, Commit(r)
  PROVE  Adds(r)
<1> USE DEF IInv, Commit
<1>1. /\ \A e \in NewEntries(r) : e \in PlanOf(r) /\ IsNew(e)
      /\ run[r].from \in Sources /\ ~IsRefused(r)
  BY DEF RunOK, Passed, NewEntries
<1>2. \A e, f \in NewEntries(r) : (e.key = f.key \/ e.name = f.name) => e = f
  BY <1>1, PlanAssumption DEF IsRefused, IsDuplicate, PlanOf
<1>3. \A e \in NewEntries(r) : (CHOOSE x \in NewEntries(r) : x.key = e.key) = e
  BY <1>2
<1>4. \A e \in NewEntries(r) : (CHOOSE x \in NewEntries(r) : x.name = e.name) = e
  BY <1>2
<1>5. /\ DOMAIN target' = DOMAIN target \cup Added(r)
      /\ \A k \in DOMAIN target : target'[k] = target[k]
  BY DEF WithRows, Added
<1>6. \A e \in NewEntries(r) : target'[e.key] = NewRow(e)
  <2> TAKE e \in NewEntries(r)
  <2>1. e.key \notin DOMAIN target
    BY <1>1 DEF IsNew
  <2>2. target'[e.key] = NewRow(CHOOSE x \in NewEntries(r) : x.key = e.key)
    BY <2>1 DEF WithRows
  <2>3. QED
    BY <2>2, <1>3
<1>7. /\ DOMAIN ledger' = DOMAIN ledger \cup {e.name : e \in NewEntries(r)}
      /\ \A n \in DOMAIN ledger : ledger'[n] = ledger[n]
  BY DEF WithRecords
<1>8. \A e \in NewEntries(r) :
        ledger'[e.name] = [key |-> e.key, stored |-> NewRow(e)]
  <2> TAKE e \in NewEntries(r)
  <2> DEFINE c == CHOOSE x \in NewEntries(r) : x.name = e.name
  <2>1. e.name \notin DOMAIN ledger
    BY <1>1 DEF IsNew
  <2>2. ledger'[e.name] = [key |-> c.key, stored |-> NewRow(c)]
    BY <2>1 DEF WithRecords
  <2>3. c = e
    BY <1>4
  <2>4. QED
    BY <2>2, <2>3
<1>9. \A n \in DOMAIN ledger' :
        n \notin DOMAIN ledger => \E e \in NewEntries(r) : n = e.name
  BY <1>7
<1>10. QED
  BY <1>1, <1>5, <1>6, <1>7, <1>8, <1>9 DEF Adds

LEMMA CommitIsSound ==
  ASSUME IInv, NEW r \in Runs, Commit(r)
  PROVE  RecordsSound(target', ledger', touched')
<1>0. /\ RecordsSound(target, ledger, touched)
      /\ touched' = touched \ Added(r)
  BY DEF IInv, Commit, Added
<1>c. Adds(r)
  BY CommitAdds
<1>1. \A n \in DOMAIN ledger' : ledger'[n].stored.planned # UserRow
  <2> TAKE n \in DOMAIN ledger'
  <2>1. CASE n \in DOMAIN ledger
    BY <2>1, <1>0, <1>c DEF RecordsSound, Adds
  <2>2. CASE n \notin DOMAIN ledger
    <3>1. PICK e \in NewEntries(r) : n = e.name
      BY <2>2, <1>c DEF Adds
    <3>2. e.row # UserRow
      BY <1>c, PlanAssumption DEF PlanOf, Adds
    <3>3. ledger'[n] = [key |-> e.key, stored |-> NewRow(e)]
      BY <3>1, <1>c DEF Adds
    <3>4. QED
      BY <3>2, <3>3 DEF NewRow
  <2>3. QED
    BY <2>1, <2>2
<1>2. \A n \in DOMAIN ledger' : ledger'[n].key \in touched' \cup DOMAIN target'
  <2> TAKE n \in DOMAIN ledger'
  <2>1. CASE n \in DOMAIN ledger
    BY <2>1, <1>0, <1>c DEF RecordsSound, Adds
  <2>2. CASE n \notin DOMAIN ledger
    <3>1. PICK e \in NewEntries(r) : n = e.name
      BY <2>2, <1>c DEF Adds
    <3>2. ledger'[n] = [key |-> e.key, stored |-> NewRow(e)]
      BY <3>1, <1>c DEF Adds
    <3>3. e.key \in DOMAIN target'
      BY <1>c DEF Added, Adds
    <3>4. QED
      BY <3>2, <3>3
  <2>3. QED
    BY <2>1, <2>2
<1>3. \A k \in DOMAIN target' \ touched' :
        \E n \in DOMAIN ledger' :
           ledger'[n].key = k /\ ledger'[n].stored.planned = target'[k].planned
  <2> TAKE k \in DOMAIN target' \ touched'
  <2>1. CASE k \in Added(r)
    <3>1. PICK e \in NewEntries(r) : k = e.key
      BY <2>1 DEF Added
    <3>2. /\ ledger'[e.name] = [key |-> e.key, stored |-> NewRow(e)]
          /\ e.name \in DOMAIN ledger' /\ target'[k] = NewRow(e)
      BY <3>1, <1>c DEF Adds
    <3>3. QED
      BY <3>1, <3>2
  <2>2. CASE k \notin Added(r)
    <3>1. k \in DOMAIN target \ touched
      BY <2>2, <1>0, <1>c DEF Adds
    <3>2. PICK n \in DOMAIN ledger :
            ledger[n].key = k /\ ledger[n].stored.planned = target[k].planned
      BY <3>1, <1>0 DEF RecordsSound
    <3>3. QED
      BY <3>1, <3>2, <1>c DEF Adds
  <2>3. QED
    BY <2>1, <2>2
<1>4. \A k \in touched' \cap DOMAIN target' : target'[k].planned = UserRow
  BY <1>0, <1>c DEF RecordsSound, Adds
<1>5. QED
  BY <1>1, <1>2, <1>3, <1>4 DEF RecordsSound

\* The run that commits has a record for every row of its plan, old or new.
LEMMA CommitIsWhole ==
  ASSUME IInv, NEW r \in Runs, Commit(r), NEW e \in PlanOf(r)
  PROVE  /\ e.name \in DOMAIN ledger'
         /\ ledger'[e.name] = [key |-> e.key, stored |-> NewRow(e)]
<1>c. Adds(r)
  BY CommitAdds
<1>1. CASE e \in NewEntries(r)
  BY <1>1, <1>c DEF Adds
<1>2. CASE e \notin NewEntries(r)
  <2>1. e.name \in DOMAIN run[r].records
    BY <1>2 DEF NewEntries
  <2>2. run[r].records[e.name] = [key |-> e.key, stored |-> NewRow(e)]
    BY <2>1, <1>c DEF IsRefused, IsConflict, Adds
  <2>3. /\ e.name \in DOMAIN ledger
        /\ ledger[e.name] = run[r].records[e.name]
    BY <2>1 DEF IInv, Commit, SnapshotOK, Snapped
  <2>4. QED
    BY <2>2, <2>3, <1>c DEF Adds
<1>3. QED
  BY <1>1, <1>2

LEMMA CommitKeeps ==
  ASSUME IInv, NEW r \in Runs, Commit(r)
  PROVE  IInv'
<1>c. Adds(r)
  BY CommitAdds
<1> USE DEF IInv
<1>1. /\ DOMAIN run' = Runs /\ DOMAIN run'[r] = RunFields
      /\ run'[r].phase = "committed"
      /\ \A q \in Runs \ {r} : run'[q] = run[q]
      /\ IsRefused(r)' <=> IsRefused(r)
      /\ PlanOf(r)' = PlanOf(r)
      /\ Applies(r)' <=> Applies(r)
      /\ run'[r].from = run[r].from
      /\ run'[r].seen = run[r].seen /\ run'[r].records = run[r].records
      /\ run'[r].stale = run[r].stale
  BY GotoMoves DEF Commit
<1>2. \A q \in Runs \ {r} :
         /\ PlanOf(q)' = PlanOf(q) /\ NewEntries(q)' = NewEntries(q)
         /\ IsRefused(q)' <=> IsRefused(q)
         /\ Applies(q)' <=> Applies(q)
  BY <1>1, SameMemory
<1>3. Applies(r) /\ lock = r
  BY DEF Commit, RunOK, TypeOK, Open
<1>4. Shapes'
  BY <1>1 DEF Shapes
<1>5. TypeOK'
  <2>1. source' \in Sources /\ lock' \in Runs \cup {Nobody}
    BY DEF Commit, TypeOK, Release
  <2>2. /\ run'[r].phase \in Phases
        /\ (lock = r)' <=> Applies(r)' /\ run'[r].phase \in Open \ {"waiting"}
    BY <1>1, <1>3, RunsAssumption DEF Commit, Release, Phases, Open
  <2>3. \A q \in Runs \ {r} :
          /\ run'[q].phase \in Phases
          /\ (lock = q)' <=> Applies(q)' /\ run'[q].phase \in Open \ {"waiting"}
    BY <1>1, <1>2, <1>3, RunsAssumption DEF Commit, Release, TypeOK
  <2>4. ASSUME NEW k \in DOMAIN target'
        PROVE  /\ DOMAIN target'[k] = {"planned", "others"}
               /\ target'[k].others \in {"default", "changed"}
    <3>1. CASE k \in DOMAIN target
      BY <3>1, <1>c DEF Adds, TypeOK
    <3>2. CASE k \notin DOMAIN target
      <4>1. PICK e \in NewEntries(r) : k = e.key
        BY <3>2, <1>c DEF Adds, Added
      <4>2. target'[k] = NewRow(e)
        BY <4>1, <1>c DEF Adds
      <4>3. QED
        BY <4>2 DEF NewRow
    <3>3. QED
      BY <3>1, <3>2
  <2>5. QED
    BY <2>1, <2>2, <2>3, <2>4 DEF TypeOK
<1>6. RecordsSound(target, ledger, touched)'
  BY CommitIsSound DEF RecordsSound
<1>7. \A q \in Runs : SnapshotOK(q)'
  <2>1. SnapshotOK(r)'
    BY <1>1, <1>c DEF SnapshotOK, Snapped, Commit, RecordsSound, Adds
  <2>2. \A q \in Runs \ {r} : SnapshotOK(q)'
    BY <1>1, <1>c DEF SnapshotOK, RecordsSound, Adds
  <2>3. QED
    BY <2>1, <2>2
<1>8. \A q \in Runs : RunOK(q)'
  <2>1. RunOK(r)'
    BY <1>1, <1>c DEF RunOK, Passed, Adds
  <2>2. ASSUME NEW q \in Runs \ {r} PROVE RunOK(q)'
    <3>1. run[q].phase # "inserted"
      BY <1>3 DEF TypeOK, RunOK, Open
    <3>2. QED
      BY <1>1, <1>2, <3>1 DEF RunOK
  <2>3. QED
    BY <2>1, <2>2
<1>9. LedgerIsWhole'
  <2>1. ASSUME NEW q \in Runs, run'[q].phase = "committed", Applies(q)',
               NEW e \in PlanOf(q)'
        PROVE  /\ e.name \in DOMAIN ledger'
               /\ ledger'[e.name] = [key |-> e.key, stored |-> NewRow(e)]
    <3>1. CASE q = r
      BY <1>1, <2>1, <3>1, CommitIsWhole
    <3>2. CASE q # r
      BY <1>1, <1>2, <2>1, <3>2, <1>c DEF LedgerIsWhole, Adds
    <3>3. QED
      BY <3>1, <3>2
  <2>2. ASSUME NEW n \in DOMAIN ledger'
        PROVE  \E q \in Runs :
                 /\ run'[q].phase = "committed" /\ Applies(q)'
                 /\ \E e \in PlanOf(q)' :
                      /\ e.name = n
                      /\ ledger'[n] = [key |-> e.key, stored |-> NewRow(e)]
    <3>1. CASE n \in DOMAIN ledger
      <4>1. PICK q \in Runs :
              /\ run[q].phase = "committed" /\ Applies(q)
              /\ \E e \in PlanOf(q) :
                   /\ e.name = n
                   /\ ledger[n] = [key |-> e.key, stored |-> NewRow(e)]
        BY <3>1 DEF LedgerIsWhole
      <4>2. q # r
        BY <4>1 DEF Commit
      <4>3. QED
        BY <1>1, <1>2, <3>1, <4>1, <4>2, <1>c DEF Adds
    <3>2. CASE n \notin DOMAIN ledger
      <4>1. PICK e \in NewEntries(r) : n = e.name
        BY <3>2, <1>c DEF Adds
      <4>2. QED
        BY <1>1, <1>3, <4>1, <1>c DEF Adds
    <3>3. QED
      BY <3>1, <3>2
  <2>3. QED
    BY <2>1, <2>2 DEF LedgerIsWhole
<1>10. QED
  BY <1>4, <1>5, <1>6, <1>7, <1>8, <1>9

-----------------------------------------------------------------------------
(* Steps of users, who leave runs, records and the lock alone.             *)

LEMMA UsersKeep ==
  ASSUME IInv, UNCHANGED <<ledger, lock, run>>, source' \in Sources,
         RecordsSound(target, ledger, touched)',
         \A k \in DOMAIN target' :
            /\ DOMAIN target'[k] = {"planned", "others"}
            /\ target'[k].others \in {"default", "changed"},
         \A q \in Runs : run[q].phase = "inserted" =>
            \A e \in NewEntries(q) : e.key \notin DOMAIN target'
  PROVE  IInv'
<1> USE DEF IInv
<1>1. \A q \in Runs :
         /\ PlanOf(q)' = PlanOf(q) /\ NewEntries(q)' = NewEntries(q)
         /\ IsRefused(q)' <=> IsRefused(q)
         /\ Applies(q)' <=> Applies(q)
  BY SameMemory
<1>2. Shapes'
  BY DEF Shapes
<1>3. TypeOK'
  BY <1>1 DEF TypeOK
<1>4. \A q \in Runs : SnapshotOK(q)'
  BY DEF SnapshotOK, RecordsSound
<1>5. \A q \in Runs : RunOK(q)'
  BY <1>1 DEF RunOK, IsNew
<1>6. LedgerIsWhole'
  BY <1>1 DEF LedgerIsWhole
<1>7. QED
  BY <1>2, <1>3, <1>4, <1>5, <1>6

\* Rows inserted by a run are in nobody's way until it commits.
LEMMA InsertedAreNew ==
  ASSUME IInv, NEW q \in Runs, run[q].phase = "inserted", NEW e \in NewEntries(q)
  PROVE  e.key \notin DOMAIN target
  BY DEF IInv, RunOK, IsNew

LEMMA EditRowKeeps ==
  ASSUME IInv, NEW k, EditRow(k)
  PROVE  IInv'
<1> USE DEF EditRow
<1>1. /\ DOMAIN target' = DOMAIN target
      /\ \A j \in DOMAIN target \ {k} : target'[j] = target[j]
      /\ DOMAIN target'[k] = DOMAIN target[k]
      /\ target'[k].others = target[k].others
      /\ target'[k].planned = UserRow
  BY DEF IInv, TypeOK
<1>2. RecordsSound(target', ledger', touched')
  BY <1>1 DEF IInv, RecordsSound
<1>3. \A j \in DOMAIN target' :
         /\ DOMAIN target'[j] = {"planned", "others"}
         /\ target'[j].others \in {"default", "changed"}
  BY <1>1 DEF IInv, TypeOK
<1>4. source' \in Sources
  BY DEF IInv, TypeOK
<1>5. RecordsSound(target, ledger, touched)'
  BY <1>2 DEF RecordsSound
<1>6. \A q \in Runs : run[q].phase = "inserted" =>
         \A e \in NewEntries(q) : e.key \notin DOMAIN target'
  BY <1>1, InsertedAreNew
<1>7. QED
  BY <1>3, <1>4, <1>5, <1>6, UsersKeep

LEMMA EditOtherColumnKeeps ==
  ASSUME IInv, NEW k, EditOtherColumn(k)
  PROVE  IInv'
<1> USE DEF EditOtherColumn
<1>1. /\ DOMAIN target' = DOMAIN target
      /\ \A j \in DOMAIN target \ {k} : target'[j] = target[j]
      /\ DOMAIN target'[k] = DOMAIN target[k]
      /\ target'[k].others = "changed"
      /\ target'[k].planned = target[k].planned
  BY DEF IInv, TypeOK
<1>2. \A j \in DOMAIN target : target'[j].planned = target[j].planned
  BY <1>1
<1>3. RecordsSound(target', ledger', touched')
  BY <1>1, <1>2 DEF IInv, RecordsSound
<1>4. \A j \in DOMAIN target' :
         /\ DOMAIN target'[j] = {"planned", "others"}
         /\ target'[j].others \in {"default", "changed"}
  BY <1>1 DEF IInv, TypeOK
<1>5. source' \in Sources
  BY DEF IInv, TypeOK
<1>6. RecordsSound(target, ledger, touched)'
  BY <1>3 DEF RecordsSound
<1>7. \A q \in Runs : run[q].phase = "inserted" =>
         \A e \in NewEntries(q) : e.key \notin DOMAIN target'
  BY <1>1, InsertedAreNew
<1>8. QED
  BY <1>4, <1>5, <1>6, <1>7, UsersKeep

LEMMA AddRowKeeps ==
  ASSUME IInv, NEW k, AddRow(k)
  PROVE  IInv'
<1> USE DEF AddRow
<1>1. /\ DOMAIN target' = DOMAIN target \cup {k} /\ k \notin DOMAIN target
      /\ \A j \in DOMAIN target : target'[j] = target[j]
      /\ target'[k] = [planned |-> UserRow, others |-> "default"]
  OBVIOUS
<1>2. /\ target'[k].planned = UserRow /\ target'[k].others = "default"
      /\ DOMAIN target'[k] = {"planned", "others"}
  BY <1>1
<1>3. RecordsSound(target', ledger', touched')
  BY <1>1, <1>2 DEF IInv, RecordsSound
<1>4. \A j \in DOMAIN target' :
         /\ DOMAIN target'[j] = {"planned", "others"}
         /\ target'[j].others \in {"default", "changed"}
  BY <1>1, <1>2 DEF IInv, TypeOK
<1>5. source' \in Sources
  BY DEF IInv, TypeOK
<1>6. RecordsSound(target, ledger, touched)'
  BY <1>3 DEF RecordsSound
<1>7. \A q \in Runs : run[q].phase = "inserted" =>
         \A e \in NewEntries(q) : e.key \notin DOMAIN target'
  BY <1>1, InsertedAreNew DEF Reserved
<1>8. QED
  BY <1>4, <1>5, <1>6, <1>7, UsersKeep

LEMMA RemoveRowKeeps ==
  ASSUME IInv, NEW k, RemoveRow(k)
  PROVE  IInv'
<1> USE DEF RemoveRow
<1>1. /\ DOMAIN target' = DOMAIN target \ {k} /\ k \in DOMAIN target
      /\ \A j \in DOMAIN target' : target'[j] = target[j]
  OBVIOUS
<1>2. RecordsSound(target', ledger', touched')
  <2>1. CASE IsImported(k)
    BY <1>1, <2>1 DEF IInv, RecordsSound
  <2>2. CASE ~IsImported(k)
    BY <1>1, <2>2 DEF IInv, RecordsSound, IsImported
  <2>3. QED
    BY <2>1, <2>2
<1>3. \A j \in DOMAIN target' :
         /\ DOMAIN target'[j] = {"planned", "others"}
         /\ target'[j].others \in {"default", "changed"}
  BY <1>1 DEF IInv, TypeOK
<1>4. source' \in Sources
  BY DEF IInv, TypeOK
<1>5. RecordsSound(target, ledger, touched)'
  BY <1>2 DEF RecordsSound
<1>6. \A q \in Runs : run[q].phase = "inserted" =>
         \A e \in NewEntries(q) : e.key \notin DOMAIN target'
  BY <1>1, InsertedAreNew
<1>7. QED
  BY <1>3, <1>4, <1>5, <1>6, UsersKeep

LEMMA VanillaChangesKeeps ==
  ASSUME IInv, NEW s \in Sources, VanillaChanges(s)
  PROVE  IInv'
<1> USE DEF VanillaChanges
<1>1. RecordsSound(target, ledger, touched)'
  BY DEF IInv, RecordsSound
<1>2. \A j \in DOMAIN target' :
         /\ DOMAIN target'[j] = {"planned", "others"}
         /\ target'[j].others \in {"default", "changed"}
  BY DEF IInv, TypeOK
<1>3. \A q \in Runs : run[q].phase = "inserted" =>
         \A e \in NewEntries(q) : e.key \notin DOMAIN target'
  BY InsertedAreNew
<1>4. QED
  BY <1>1, <1>2, <1>3, UsersKeep

-----------------------------------------------------------------------------
(* The invariant.                                                          *)

LEMMA NextIInv == IInv /\ [Next]_vars => IInv'
<1> SUFFICES ASSUME IInv, [Next]_vars PROVE IInv'
  OBVIOUS
<1>1. ASSUME NEW r \in Runs, RunStep(r) PROVE IInv'
  BY <1>1, ReadAndPlanKeeps, BeginKeeps, AcquireLockKeeps, CheckKeeps,
     InsertRowsKeeps, CommitKeeps, CommitDryRunKeeps DEF RunStep
<1>2. ASSUME NEW r \in Runs, Fail(r) PROVE IInv'
  BY <1>2, FailKeeps
<1>3. CASE UserStep
  BY <1>3, EditRowKeeps, EditOtherColumnKeeps, AddRowKeeps, RemoveRowKeeps,
     VanillaChangesKeeps DEF UserStep
<1>4. CASE UNCHANGED vars
  <2>1. RecordsSound(target, ledger, touched)'
    BY <1>4 DEF IInv, RecordsSound, vars
  <2>2. UNCHANGED <<ledger, lock, run>> /\ source' = source /\ target' = target
    BY <1>4 DEF vars
  <2>3. \A q \in Runs : run[q].phase = "inserted" =>
           \A e \in NewEntries(q) : e.key \notin DOMAIN target'
    BY <2>2, InsertedAreNew
  <2>4. QED
    BY <2>1, <2>2, <2>3, UsersKeep DEF IInv, TypeOK
<1>5. QED
  BY <1>1, <1>2, <1>3, <1>4 DEF Next

\* The inductive invariant holds in every reachable state of any set of runs
\* (writePublicImport and the users who share its tables).
THEOREM Invariance == Spec => []IInv
  BY InitIInv, NextIInv, PTL DEF Spec

\* Every variable keeps its shape, and the advisory lock is with the applying
\* run that is past its first statement, so that no two runs ever insert
\* (writePublicImport, pg_advisory_xact_lock).
THEOREM TypeCorrect == Spec => []TypeOK
<1>1. IInv => TypeOK
  BY DEF IInv
<1>2. QED
  BY <1>1, Invariance, PTL

\* An import is there whole or not at all, with its records, for any plans and
\* any number of runs, overlapping, failing and killed (writePublicImport).
THEOREM LedgerIsComplete == Spec => []LedgerIsWhole
<1>1. IInv => LedgerIsWhole
  BY DEF IInv
<1>2. QED
  BY <1>1, Invariance, PTL

\* A row no user touched is as a record of its import says, and a record whose
\* row no user touched has it: only the code's inserts and users' changes reach
\* the tables.
THEOREM UntouchedRows == Spec => []UntouchedRowsMatch
<1>1. IInv => UntouchedRowsMatch
  BY DEF IInv, RecordsSound, UntouchedRowsMatch
<1>2. QED
  BY <1>1, Invariance, PTL

\* A run that commits planned no row that a user had changed, removed or added
\* before its snapshot (the conflict and ownership checks of writePublicImport).
THEOREM EditsNoticed == Spec => []EditsAreNoticed
<1>1. IInv => EditsAreNoticed
  <2> SUFFICES ASSUME IInv, NEW r \in Runs, run[r].phase = "committed",
                      NEW e \in PlanOf(r), e.key \in run[r].stale
               PROVE  /\ e.name \notin DOMAIN run[r].records
                      /\ e.key \notin DOMAIN run[r].seen
    BY DEF EditsAreNoticed
  <2>1. /\ RecordsSound(run[r].seen, run[r].records, run[r].stale)
        /\ ~IsRefused(r)
    BY DEF IInv, SnapshotOK, RunOK, Snapped, Passed
  <2>2. e.name \notin DOMAIN run[r].records
    <3> SUFFICES ASSUME e.name \in DOMAIN run[r].records PROVE FALSE
      OBVIOUS
    <3>1. /\ e.key \in DOMAIN run[r].seen
          /\ run[r].seen[e.key].planned = run[r].records[e.name].stored.planned
      BY <2>1 DEF IsRefused, IsConflict
    <3>2. /\ run[r].seen[e.key].planned = UserRow
          /\ run[r].records[e.name].stored.planned # UserRow
      BY <2>1, <3>1 DEF RecordsSound
    <3>3. QED
      BY <3>1, <3>2
  <2>3. QED
    BY <2>1, <2>2 DEF IsRefused, IsUnowned
<1>2. QED
  BY <1>1, Invariance, PTL

-----------------------------------------------------------------------------
(* Action properties.                                                      *)

\* The cause a run is refused for, as RefusalHasCause lists them.
Cause(r) ==
  \/ Throws(run'[r].from)
  \/ IsDuplicate(PlanOf(r))
  \/ PlannedKeys(r) \cap (run[r].stale \cup touched) # {}
  \/ \E e \in PlanOf(r), n \in DOMAIN ledger :
        n # e.name /\ ledger[n].key = e.key
  \/ \E e \in PlanOf(r) :
        /\ e.name \in DOMAIN ledger
        /\ \/ e.name \notin DOMAIN run[r].records
           \/ ledger[e.name] # [key |-> e.key, stored |-> NewRow(e)]

LEMMA CheckHasCause ==
  ASSUME IInv, NEW r \in Runs, Check(r), IsRefused(r)
  PROVE  Cause(r)
<1> DEFINE seen == run[r].seen
           records == run[r].records
<1>1. /\ RecordsSound(seen, records, run[r].stale)
      /\ \A n \in DOMAIN records : n \in DOMAIN ledger /\ ledger[n] = records[n]
  BY DEF IInv, Check, SnapshotOK, Snapped
<1>2. ASSUME NEW e \in PlanOf(r), e.key \in DOMAIN seen, NEW n \in DOMAIN records,
             records[n].key = e.key, n # e.name
      PROVE  Cause(r)
  BY <1>1, <1>2 DEF Cause
<1>3. ASSUME NEW e \in PlanOf(r), e.key \in run[r].stale PROVE Cause(r)
  BY <1>3 DEF Cause, PlannedKeys
<1>4. ASSUME NEW e \in PlanOf(r), IsConflict(e, seen, records) PROVE Cause(r)
  <2>1. CASE records[e.name] # [key |-> e.key, stored |-> NewRow(e)]
    BY <1>1, <1>4, <2>1 DEF Cause, IsConflict
  <2>2. CASE records[e.name] = [key |-> e.key, stored |-> NewRow(e)]
    <3>1. records[e.name].key = e.key
      BY <2>2
    <3>2. CASE e.key \notin DOMAIN seen
      BY <1>1, <1>3, <1>4, <3>1, <3>2 DEF IsConflict, RecordsSound
    <3>3. CASE e.key \in DOMAIN seen /\ e.key \notin run[r].stale
      <4>1. PICK n \in DOMAIN records :
              /\ records[n].key = e.key
              /\ records[n].stored.planned = seen[e.key].planned
        BY <1>1, <3>3 DEF RecordsSound
      <4>2. n # e.name
        BY <1>4, <2>2, <3>3, <4>1 DEF IsConflict
      <4>3. QED
        BY <1>2, <3>3, <4>1, <4>2
    <3>4. QED
      BY <1>3, <3>2, <3>3
  <2>3. QED
    BY <2>1, <2>2
<1>5. ASSUME NEW e \in PlanOf(r), IsUnowned(e, seen, records) PROVE Cause(r)
  <2>1. CASE e.key \notin run[r].stale
    <3>1. PICK n \in DOMAIN records : records[n].key = e.key
      BY <1>1, <1>5, <2>1 DEF RecordsSound, IsUnowned
    <3>2. QED
      BY <1>2, <1>5, <3>1 DEF IsUnowned
  <2>2. QED
    BY <1>3, <2>1
<1>6. CASE IsDuplicate(PlanOf(r))
  BY <1>6 DEF Cause
<1>7. QED
  BY <1>4, <1>5, <1>6 DEF IsRefused

LEMMA InsertHasCause ==
  ASSUME IInv, NEW r \in Runs, InsertRows(r), NEW e \in NewEntries(r), ~IsNew(e)
  PROVE  Cause(r)
<1>1. e \in PlanOf(r) /\ e.name \notin DOMAIN run[r].records
  BY DEF NewEntries
<1>2. CASE e.name \in DOMAIN ledger
  BY <1>1, <1>2 DEF Cause
<1>3. CASE e.key \in touched
  BY <1>1, <1>3 DEF Cause, PlannedKeys
<1>4. CASE e.name \notin DOMAIN ledger /\ e.key \notin touched
  <2>1. e.key \in DOMAIN target
    BY <1>4 DEF IsNew
  <2>2. PICK n \in DOMAIN ledger : ledger[n].key = e.key
    BY <1>4, <2>1 DEF IInv, RecordsSound
  <2>3. QED
    BY <1>1, <1>4, <2>2 DEF Cause
<1>5. QED
  BY <1>2, <1>3, <1>4

\* A run is refused only for a reason a user, Vanilla or another import gave: an
\* unchanged rerun is never refused (the checks and inserts of writePublicImport).
THEOREM RefusalsHaveCauses == Spec => RefusalHasCause
<1>1. ASSUME IInv, [Next]_vars, NEW r \in Runs,
             run[r].phase # "refused", run'[r].phase = "refused"
      PROVE  Cause(r)
  <2> USE <1>1
  <2>0. Shapes
    BY DEF IInv
  <2>1. ASSUME NEW q \in Runs, NEW mode, ReadAndPlan(q, mode) PROVE Cause(r)
    <3>1. q = r
      BY <2>0, <2>1 DEF ReadAndPlan, Shapes
    <3>2. run'[r].from = source /\ Throws(source)
      BY <2>0, <2>1, <3>1 DEF ReadAndPlan, Shapes, RunFields
    <3>3. QED
      BY <3>2 DEF Cause
  <2>2. ASSUME NEW q \in Runs, Check(q) PROVE Cause(r)
    <3>1. q = r
      BY <2>0, <2>2, GotoMoves DEF Check
    <3>2. IsRefused(r)
      BY <2>0, <2>2, <3>1, GotoMoves DEF Check
    <3>3. QED
      BY <2>2, <3>1, <3>2, CheckHasCause
  <2>3. ASSUME NEW q \in Runs, InsertRows(q) PROVE Cause(r)
    <3>1. q = r
      BY <2>0, <2>3, GotoMoves DEF InsertRows
    <3>2. \E e \in NewEntries(r) : ~IsNew(e)
      BY <2>0, <2>3, <3>1, GotoMoves DEF InsertRows, IsNew
    <3>3. QED
      BY <2>3, <3>1, <3>2, InsertHasCause
  <2>4. ASSUME NEW q \in Runs, Begin(q) PROVE FALSE
    BY <2>0, <2>4 DEF Begin, Shapes, RunFields
  <2>5. ASSUME NEW q \in Runs,
               AcquireLock(q) \/ Commit(q) \/ CommitDryRun(q) \/ Fail(q)
        PROVE  FALSE
    BY <2>0, <2>5, GotoMoves DEF AcquireLock, Commit, CommitDryRun, Fail
  <2>6. CASE UserStep
    BY <2>6 DEF UserStep, EditRow, EditOtherColumn, AddRow, RemoveRow,
                VanillaChanges
  <2>7. CASE UNCHANGED vars
    BY <2>7 DEF vars
  <2>8. QED
    BY <2>1, <2>2, <2>3, <2>4, <2>5, <2>6, <2>7 DEF Next, RunStep
<1>2. IInv /\ [Next]_vars =>
        [\A r \in Runs :
           run[r].phase # "refused" /\ run'[r].phase = "refused" => Cause(r)]_vars
  BY <1>1
<1>3. QED
  BY <1>2, Invariance, PTL DEF Spec, RefusalHasCause, Cause

-----------------------------------------------------------------------------
(* The abstract specification: see ImportLedger.                           *)

LEMMA CommitImports ==
  ASSUME IInv, NEW r \in Runs, Commit(r)
  PROVE  Ledger!Import
<1>c. Adds(r)
  BY CommitAdds
<1>1. \A e \in NewEntries(r) :
        /\ e.name \in DOMAIN ledger' \ DOMAIN ledger
        /\ ledger'[e.name] = [key |-> e.key, stored |-> NewRow(e)]
        /\ e.key \in DOMAIN target' \ DOMAIN target
        /\ target'[e.key] = NewRow(e)
  BY <1>c DEF Adds, IsNew, Added
<1>2. \A n \in DOMAIN ledger' \ DOMAIN ledger :
        \E e \in NewEntries(r) :
          n = e.name /\ ledger'[n] = [key |-> e.key, stored |-> NewRow(e)]
  <2> TAKE n \in DOMAIN ledger' \ DOMAIN ledger
  <2>1. PICK e \in NewEntries(r) : n = e.name
    BY <1>c DEF Adds
  <2>2. ledger'[n] = [key |-> e.key, stored |-> NewRow(e)]
    BY <1>1, <2>1
  <2>3. QED
    BY <2>1, <2>2
<1>3. \A n \in DOMAIN ledger' \ DOMAIN ledger :
        /\ ledger'[n].key \in DOMAIN target' \ DOMAIN target
        /\ target'[ledger'[n].key] = ledger'[n].stored
  <2> TAKE n \in DOMAIN ledger' \ DOMAIN ledger
  <2>1. PICK e \in NewEntries(r) :
          n = e.name /\ ledger'[n] = [key |-> e.key, stored |-> NewRow(e)]
    BY <1>2
  <2>2. ledger'[n].key = e.key /\ ledger'[n].stored = NewRow(e)
    BY <2>1
  <2>3. QED
    BY <2>2, <1>1
<1>4. \A k \in DOMAIN target' \ DOMAIN target :
        \E n \in DOMAIN ledger' \ DOMAIN ledger : ledger'[n].key = k
  <2> TAKE k \in DOMAIN target' \ DOMAIN target
  <2>1. PICK e \in NewEntries(r) : k = e.key
    BY <1>c DEF Adds, Added
  <2>2. /\ ledger'[e.name] = [key |-> e.key, stored |-> NewRow(e)]
        /\ e.name \in DOMAIN ledger' \ DOMAIN ledger
    BY <1>1
  <2>3. QED
    BY <2>1, <2>2
<1>5. DOMAIN target' \ DOMAIN target =
        {ledger'[n].key : n \in DOMAIN ledger' \ DOMAIN ledger}
  BY <1>3, <1>4
<1>6. /\ DOMAIN target \subseteq DOMAIN target'
      /\ \A k \in DOMAIN target : target'[k] = target[k]
      /\ DOMAIN ledger \subseteq DOMAIN ledger'
      /\ \A n \in DOMAIN ledger : ledger'[n] = ledger[n]
  BY <1>c DEF Adds
<1>7. QED
  BY <1>3, <1>5, <1>6 DEF Ledger!Import

\* Imports only ever add whole sets of rows with their records, and no run, of
\* any number, changes a row that is there or a record (writePublicImport).
THEOREM LedgerImplemented == Spec => ImplementsLedger
<1>1. Init => Ledger!Init
  BY DEF Init, Empty, Ledger!Init
<1>2. ASSUME IInv, [Next]_vars
      PROVE  Ledger!Next \/ UNCHANGED <<target, ledger>>
  <2> USE <1>2
  <2>1. ASSUME NEW r \in Runs, RunStep(r)
        PROVE  Ledger!Next \/ UNCHANGED <<target, ledger>>
    <3>1. CASE Commit(r)
      BY <3>1, CommitImports DEF Ledger!Next
    <3>2. CASE ~Commit(r)
      BY <2>1, <3>2 DEF RunStep, ReadAndPlan, Begin, AcquireLock, Check,
                        InsertRows, CommitDryRun
    <3>3. QED
      BY <3>1, <3>2
  <2>2. ASSUME \/ UNCHANGED vars
               \/ \E r \in Runs : Fail(r)
               \/ \E s \in Sources : VanillaChanges(s)
        PROVE  UNCHANGED <<target, ledger>>
    BY <2>2 DEF vars, Fail, VanillaChanges
  <2>3. ASSUME NEW k, EditRow(k) \/ EditOtherColumn(k) \/ AddRow(k) \/ RemoveRow(k)
        PROVE  Ledger!Next
    <3>1. k \in DOMAIN target \cup DOMAIN target'
      BY <2>3 DEF EditRow, EditOtherColumn, AddRow, RemoveRow
    <3>2. Ledger!UserWrites(k)
      BY <2>3 DEF EditRow, EditOtherColumn, AddRow, RemoveRow, Ledger!UserWrites
    <3>3. QED
      BY <3>1, <3>2 DEF Ledger!Next
  <2> QED
    BY <2>1, <2>2, <2>3 DEF UserStep, Next
<1>3. IInv /\ [Next]_vars => [Ledger!Next]_<<target, ledger>>
  BY <1>2
<1>4. QED
  BY <1>1, <1>3, Invariance, PTL DEF Spec, ImplementsLedger, Ledger!Spec

-----------------------------------------------------------------------------
(* The plan.  Its walks up the trees are recursive functions.  What they     *)
(* compute is proved by induction over sets of naturals, which needs no      *)
(* theorem with an operator for a parameter.                                *)

\* Induction for a set of naturals: of the intervals that end outside it one
\* would be least, because strict inclusion of finite sets is well founded.
LEMMA NatSetInduction ==
  ASSUME NEW S, 0 \in S, \A n \in Nat : n \in S => n + 1 \in S
  PROVE  \A n \in Nat : n \in S
<1> SUFFICES ASSUME NEW n \in Nat, n \notin S PROVE FALSE
  OBVIOUS
<1> DEFINE U == 0..n
           Lost == {k \in U : k \notin S}
           F == {0..k : k \in Lost}
<1>1. IsFiniteSet(U)
  BY FS_Interval
<1>2. F \subseteq SUBSET U /\ F # {}
  <2>1. \A k \in Lost : 0..k \subseteq U
    OBVIOUS
  <2>2. 0..n \in F
    OBVIOUS
  <2> QED BY <2>1, <2>2
<1> HIDE DEF F
<1>3. IsWellFoundedOn(StrictSubsetOrdering(U), SUBSET U)
  BY <1>1, FS_StrictSubsetOrderingWellFounded, FS_FiniteSubsetsOfFinite
<1>4. PICK T \in F : \A V \in F : <<V, T>> \notin StrictSubsetOrdering(U)
  BY <1>2, <1>3, WFMin
<1>5. PICK k \in Lost : T = 0..k
  BY <1>4 DEF F
<1>6. k - 1 \in Lost
  BY <1>5
<1>7. 0..(k - 1) \in F
  BY <1>6 DEF F
<1>8. 0..(k - 1) \subseteq T /\ 0..(k - 1) # T
  <2>1. k \in T /\ k \notin 0..(k - 1)
    BY <1>5
  <2>2. 0..(k - 1) \subseteq T
    BY <1>5
  <2> QED BY <2>1, <2>2
<1>9. <<0..(k - 1), T>> \in StrictSubsetOrdering(U)
  BY <1>2, <1>7, <1>8 DEF StrictSubsetOrdering
<1> QED BY <1>4, <1>7, <1>9

\* A step function has a path from every element.
LEMMA Iteration ==
  ASSUME NEW S, NEW c \in S, NEW g \in [S -> S]
  PROVE  \E f \in [Nat -> S] : f[0] = c /\ \A n \in Nat : f[n + 1] = g[f[n]]
<1> DEFINE Path(n) == {h \in [0..n -> S] :
                         h[0] = c /\ \A i \in 0..n : i < n => h[i + 1] = g[h[i]]}
<1>1. \A n \in Nat : Path(n) # {}
  <2> DEFINE Reached == {n \in Nat : Path(n) # {}}
  <2>1. 0 \in Reached
    <3>1. [i \in 0..0 |-> c] \in Path(0)
      OBVIOUS
    <3> QED BY <3>1
  <2>2. ASSUME NEW n \in Nat, n \in Reached PROVE n + 1 \in Reached
    <3>1. PICK h : h \in Path(n)
      BY <2>2
    <3>2. [i \in 0..(n + 1) |-> IF i = n + 1 THEN g[h[n]] ELSE h[i]] \in Path(n + 1)
      BY <3>1
    <3> QED BY <3>2
  <2> HIDE DEF Reached
  <2>3. \A n \in Nat : n \in Reached
    BY <2>1, <2>2, NatSetInduction
  <2> QED BY <2>3 DEF Reached
<1>2. ASSUME NEW n \in Nat, NEW h \in Path(n), NEW k \in Path(n + 1)
      PROVE  h[n] = k[n]
  <2> DEFINE Same == {i \in Nat : i <= n => h[i] = k[i]}
  <2>1. 0 \in Same
    OBVIOUS
  <2>2. ASSUME NEW i \in Nat, i \in Same PROVE i + 1 \in Same
    <3>1. CASE i + 1 <= n
      <4>1. h[i] = k[i]
        BY <2>2, <3>1
      <4>2. h[i + 1] = g[h[i]] /\ k[i + 1] = g[k[i]]
        BY <3>1
      <4> QED BY <4>1, <4>2
    <3>2. CASE ~(i + 1 <= n)
      BY <3>2
    <3> QED BY <3>1, <3>2
  <2> HIDE DEF Same
  <2>3. n \in Same
    BY <2>1, <2>2, NatSetInduction
  <2> QED BY <2>3 DEF Same
<1> DEFINE path(n) == CHOOSE h : h \in Path(n)
           f == [n \in Nat |-> path(n)[n]]
<1>3. \A n \in Nat : path(n) \in Path(n)
  BY <1>1
<1> HIDE DEF path
<1>4. f[0] = c
  BY <1>3
<1>5. ASSUME NEW n \in Nat PROVE f[n + 1] = g[f[n]]
  <2>1. path(n)[n] = path(n + 1)[n]
    <3>1. path(n) \in Path(n) /\ path(n + 1) \in Path(n + 1)
      BY <1>3
    <3> HIDE DEF Path
    <3> QED BY <3>1, <1>2
  <2>2. path(n + 1)[n + 1] = g[path(n + 1)[n]]
    BY <1>3
  <2> QED BY <2>1, <2>2
<1>6. f \in [Nat -> S]
  <2>1. \A n \in Nat : path(n)[n] \in S
    BY <1>3
  <2> QED BY <2>1
<1> QED BY <1>4, <1>5, <1>6

\* The recursive definition of a walk has a solution, and Walk is one.
LEMMA WalkSteps ==
  ASSUME NEW s, NEW c
  PROVE  /\ Walk(s, c)[0] = c
         /\ \A n \in Nat : Walk(s, c)[n + 1] = StepUp(s, Walk(s, c)[n])
<1> DEFINE D == DOMAIN s.categories
           S == {c} \cup D \cup {s.categories[x].parent : x \in D}
           g == [x \in S |-> StepUp(s, x)]
           at(f) == [n \in Nat |-> IF n = 0 THEN c ELSE StepUp(s, f[n - 1])]
<1>1. g \in [S -> S]
  BY DEF StepUp
<1> HIDE DEF S
<1>2. c \in S
  BY DEF S
<1> HIDE DEF g
<1>3. PICK f \in [Nat -> S] : f[0] = c /\ \A n \in Nat : f[n + 1] = g[f[n]]
  BY <1>1, <1>2, Iteration
<1>4. \A n \in Nat : f[n + 1] = StepUp(s, f[n])
  BY <1>3 DEF g
<1>5. f = [n \in Nat |-> IF n = 0 THEN c ELSE StepUp(s, f[n - 1])]
  <2>1. \A n \in Nat : f[n] = IF n = 0 THEN c ELSE StepUp(s, f[n - 1])
    <3> TAKE n \in Nat
    <3>1. CASE n = 0
      BY <1>3, <3>1
    <3>2. CASE n # 0
      <4>1. n - 1 \in Nat /\ (n - 1) + 1 = n
        BY <3>2
      <4> QED BY <1>4, <3>2, <4>1
    <3> QED BY <3>1, <3>2
  <2> QED BY <1>3, <2>1
<1>6. Walk(s, c) = CHOOSE h : h = [n \in Nat |-> IF n = 0 THEN c ELSE StepUp(s, h[n - 1])]
  BY DEF Walk
<1>7. Walk(s, c) = [n \in Nat |-> IF n = 0 THEN c ELSE StepUp(s, Walk(s, c)[n - 1])]
  BY <1>5, <1>6
<1> DEFINE w == Walk(s, c)
<1> HIDE DEF w
<1>8. w = [n \in Nat |-> IF n = 0 THEN c ELSE StepUp(s, w[n - 1])]
  BY <1>7 DEF w
<1>9. w[0] = c /\ \A n \in Nat : w[n + 1] = StepUp(s, w[n])
  BY <1>8
<1> QED BY <1>9 DEF w

\* A walk begins with a step to where the walk from the next category begins.
LEMMA WalkFromNext ==
  ASSUME NEW s, NEW c
  PROVE  \A n \in Nat : Walk(s, c)[n + 1] = Walk(s, StepUp(s, c))[n]
<1> DEFINE next == StepUp(s, c)
           Same == {n \in Nat : Walk(s, c)[n + 1] = Walk(s, next)[n]}
<1>1. 0 \in Same
  <2>1. Walk(s, c)[0] = c /\ Walk(s, c)[0 + 1] = StepUp(s, Walk(s, c)[0])
    BY WalkSteps
  <2>2. Walk(s, next)[0] = next
    BY WalkSteps
  <2> QED BY <2>1, <2>2
<1>2. ASSUME NEW n \in Nat, n \in Same PROVE n + 1 \in Same
  <2>1. Walk(s, c)[(n + 1) + 1] = StepUp(s, Walk(s, c)[n + 1])
    BY WalkSteps
  <2>2. Walk(s, next)[n + 1] = StepUp(s, Walk(s, next)[n])
    BY WalkSteps
  <2> QED BY <1>2, <2>1, <2>2
<1> HIDE DEF Same
<1>3. \A n \in Nat : n \in Same
  BY <1>1, <1>2, NatSetInduction
<1> QED BY <1>3 DEF Same

\* A walk stays at an excluded category, and at the top.
LEMMA WalkStays ==
  ASSUME NEW s, NEW c, StepUp(s, c) = c
  PROVE  \A n \in Nat : Walk(s, c)[n] = c
<1> DEFINE Here == {n \in Nat : Walk(s, c)[n] = c}
<1>1. 0 \in Here
  BY WalkSteps
<1>2. ASSUME NEW n \in Nat, n \in Here PROVE n + 1 \in Here
  BY <1>2, WalkSteps
<1> HIDE DEF Here
<1>3. \A n \in Nat : n \in Here
  BY <1>1, <1>2, NatSetInduction
<1> QED BY <1>3 DEF Here

LEMMA SizeOfTree ==
  ASSUME NEW s, IsSnapshot(s)
  PROVE  /\ Cardinality(DOMAIN s.categories) \in Nat
         /\ \A c \in DOMAIN s.categories : Cardinality(DOMAIN s.categories) # 0
BY FS_CardinalityType, FS_EmptySet DEF IsSnapshot

\* No public category is excluded, and the category above a public one is the
\* top or public.
LEMMA AbovePublic ==
  ASSUME NEW s, IsSnapshot(s), NEW c \in PublicCategories(s)
  PROVE  /\ ~IsExcluded(s.categories[c])
         /\ \/ s.categories[c].parent = TopLevel
            \/ s.categories[c].parent \in PublicCategories(s)
<1> DEFINE D == DOMAIN s.categories
           N == Cardinality(D)
           p == s.categories[c].parent
<1> HIDE DEF N
<1>1. c \in D /\ Walk(s, c)[N] = TopLevel /\ TopLevel \notin D
  BY DEF PublicCategories, IsPublic, EndOfWalk, IsSnapshot, N
<1>2. N \in Nat /\ N # 0
  BY <1>1, SizeOfTree DEF N
<1>3. ~IsExcluded(s.categories[c])
  <2> SUFFICES ASSUME IsExcluded(s.categories[c]) PROVE FALSE
    OBVIOUS
  <2>1. StepUp(s, c) = c
    BY DEF StepUp
  <2> QED BY <1>1, <1>2, <2>1, WalkStays
<1>4. StepUp(s, c) = p
  BY <1>1, <1>3 DEF StepUp
<1>5. PICK n \in Nat : N = n + 1
  <2>1. N - 1 \in Nat /\ N = (N - 1) + 1
    BY <1>2
  <2> QED BY <2>1
<1>6. Walk(s, p)[n] = TopLevel
  BY <1>1, <1>4, <1>5, WalkFromNext
<1>7. Walk(s, p)[N] = TopLevel
  <2>1. Walk(s, p)[n + 1] = StepUp(s, Walk(s, p)[n])
    BY WalkSteps
  <2>2. StepUp(s, TopLevel) = TopLevel
    BY <1>1 DEF StepUp
  <2> QED BY <1>5, <1>6, <2>1, <2>2
<1>8. CASE p \in D
  BY <1>3, <1>7, <1>8 DEF PublicCategories, IsPublic, EndOfWalk, N
<1>9. CASE p \notin D
  <2>1. StepUp(s, p) = p
    BY <1>9 DEF StepUp
  <2> QED BY <1>2, <1>3, <1>7, <2>1, WalkStays
<1> QED BY <1>8, <1>9

\* A category that is not public leads to an excluded one, unless the snapshot
\* is refused.
LEMMA EndOfOthers ==
  ASSUME NEW s, IsSnapshot(s), ~CategoriesAreBroken(s),
         NEW c \in DOMAIN s.categories, c \notin PublicCategories(s)
  PROVE  EndOfWalk(s, c) \in Marked(s)
<1>1. EndOfWalk(s, c) # TopLevel
  BY DEF PublicCategories, IsPublic
<1>2. CASE s.categories[c].code = "groups"
  <2>1. IsExcluded(s.categories[c])
    BY <1>2 DEF IsExcluded
  <2>2. StepUp(s, c) = c
    BY <2>1 DEF StepUp
  <2>3. EndOfWalk(s, c) = c
    BY <2>2, WalkStays, SizeOfTree DEF EndOfWalk
  <2> QED BY <2>1, <2>3 DEF Marked
<1>3. CASE s.categories[c].code # "groups"
  BY <1>1, <1>3 DEF CategoriesAreBroken, Marked
<1> QED BY <1>2, <1>3

\* A subtree that holds the end of a walk holds its beginning.
LEMMA WalkBack ==
  ASSUME NEW s, NEW T \in SUBSET DOMAIN s.categories, IsSubtree(s, T), NEW c,
         EndOfWalk(s, c) \in T, Cardinality(DOMAIN s.categories) \in Nat
  PROVE  c \in T
<1> DEFINE N == Cardinality(DOMAIN s.categories)
<1> HIDE DEF N
<1>1. N \in Nat /\ Walk(s, c)[N] \in T
  BY DEF N, EndOfWalk
<1> DEFINE In == {n \in Nat : n <= N => Walk(s, c)[N - n] \in T}
<1>2. 0 \in In
  BY <1>1
<1>3. ASSUME NEW n \in Nat, n \in In PROVE n + 1 \in In
  <2> SUFFICES ASSUME n + 1 <= N PROVE Walk(s, c)[N - (n + 1)] \in T
    OBVIOUS
  <2>1. PICK m \in Nat : m = N - (n + 1) /\ m + 1 = N - n
    <3>1. N - (n + 1) \in Nat /\ (N - (n + 1)) + 1 = N - n
      BY <1>1
    <3> QED BY <3>1
  <2>2. Walk(s, c)[m + 1] \in T
    BY <1>1, <1>3, <2>1
  <2>3. StepUp(s, Walk(s, c)[m]) \in T
    BY <2>2, WalkSteps
  <2> QED BY <2>1, <2>3 DEF StepUp, IsSubtree
<1> HIDE DEF In
<1>4. N \in In
  BY <1>1, <1>2, <1>3, NatSetInduction
<1>5. Walk(s, c)[0] \in T
  BY <1>1, <1>4 DEF In
<1> QED BY <1>5, WalkSteps

LEMMA EveryPlanKeepsOut == PlansKeepOut
<1> SUFFICES ASSUME NEW s \in Snapshots, ~IsRejected(s) PROVE KeepsOut(s)
  BY DEF PlansKeepOut, IsKeptOut
<1> DEFINE D == DOMAIN s.categories
           S == D \ PublicCategories(s)
<1>1. IsSnapshot(s) /\ ~CategoriesAreBroken(s)
  BY SnapshotsAssumption DEF IsRejected
<1>2. IsSubtree(s, S)
  <2>1. Marked(s) \subseteq S
    BY <1>1, AbovePublic DEF Marked
  <2>2. ASSUME NEW c \in D, s.categories[c].parent \in S PROVE c \in S
    <3>1. s.categories[c].parent # TopLevel
      BY <1>1, <2>2 DEF IsSnapshot
    <3> QED BY <1>1, <2>2, <3>1, AbovePublic
  <2> QED BY <2>1, <2>2 DEF IsSubtree
<1>3. ASSUME NEW T \in SUBSET S, IsSubtree(s, T) PROVE T = S
  <2>1. ASSUME NEW c \in S PROVE c \in T
    <3>1. EndOfWalk(s, c) \in T
      BY <1>1, <1>3, EndOfOthers DEF IsSubtree
    <3> QED BY <1>1, <1>3, <3>1, WalkBack, SizeOfTree
  <2> QED BY <2>1
<1>4. {e.name[2] : e \in CategoryEntries(s)} = D \ S
  <2>1. \A e \in CategoryEntries(s) : e.name[2] \in PublicCategories(s)
    BY DEF CategoryEntries, Entry
  <2>2. \A c \in PublicCategories(s) : \E e \in CategoryEntries(s) : e.name[2] = c
    <3> TAKE c \in PublicCategories(s)
    <3> DEFINE e == Entry("PublicForumCategory", "category", c, CategoryTopic(c),
                          [read |-> ReadRoles(s, c), create |-> CreateRoles(s, c),
                           reply |-> WriteRoles(s, c, "reply")])
    <3>1. e \in CategoryEntries(s)
      BY DEF CategoryEntries
    <3>2. e.name[2] = c
      BY DEF Entry
    <3> QED BY <3>1, <3>2
  <2>3. PublicCategories(s) = D \ S
    BY DEF PublicCategories
  <2> QED BY <2>1, <2>2, <2>3
<1> QED BY <1>2, <1>3, <1>4 DEF KeepsOut

\* Whatever the category tree of Vanilla and however it changes, the categories
\* planned are those outside the challenge and group subtrees: publicCategories,
\* which stops at the first excluded category above one, publishes nothing below.
THEOREM PublicCategoriesKeptOut == Spec => []PlanKeepsOut
<1>1. TypeOK => PlanKeepsOut
  BY EveryPlanKeepsOut, VanillaAssumption DEF PlanKeepsOut, PlansKeepOut, TypeOK
<1>2. QED
  BY <1>1, TypeCorrect, PTL

-----------------------------------------------------------------------------
(* How the rows of a plan fit together.                                     *)

\* A sequence whose next element depends on the last one alone, and that comes
\* back to an element, goes round for ever.
IsDetermined(f) == \A m, n \in Nat : f[m] = f[n] => f[m + 1] = f[n + 1]

Returns(f, i, j) == IsDetermined(f) /\ i < j /\ f[i] = f[j]
GoesRound(f, i, j) == \A n \in Nat : \E x \in i..(j - 1) : f[i + n] = f[x]

LEMMA Loop ==
  ASSUME NEW f, NEW i \in Nat, NEW j \in Nat, Returns(f, i, j)
  PROVE  GoesRound(f, i, j)
<1>0. IsDetermined(f) /\ i < j /\ f[i] = f[j]
  BY DEF Returns
<1> DEFINE Round == {n \in Nat : \E x \in i..(j - 1) : f[i + n] = f[x]}
<1>1. 0 \in Round
  <2>1. i \in i..(j - 1) /\ i + 0 = i
    BY <1>0
  <2> QED BY <2>1
<1>2. ASSUME NEW n \in Nat, n \in Round PROVE n + 1 \in Round
  <2>1. PICK x \in i..(j - 1) : f[i + n] = f[x]
    BY <1>2
  <2>2. f[i + (n + 1)] = f[x + 1]
    <3>1. i + n \in Nat /\ x \in Nat /\ (i + n) + 1 = i + (n + 1)
      BY <2>1
    <3>2. f[(i + n) + 1] = f[x + 1]
      BY <1>0, <2>1, <3>1 DEF IsDetermined
    <3> QED BY <3>1, <3>2
  <2>3. CASE x + 1 < j
    <3>1. x + 1 \in i..(j - 1)
      BY <2>1, <2>3
    <3> QED BY <2>2, <3>1
  <2>4. CASE x + 1 = j
    <3>1. i \in i..(j - 1)
      BY <1>0
    <3> QED BY <1>0, <2>2, <2>4, <3>1
  <2> QED BY <2>1, <2>3, <2>4
<1> HIDE DEF Round
<1>3. \A n \in Nat : n \in Round
  BY <1>1, <1>2, NatSetInduction
<1> QED BY <1>3 DEF Round, GoesRound

\* The walk from a public category visits public ones until it is at the top.
LEMMA WalkIsPublic ==
  ASSUME NEW s, IsSnapshot(s), NEW c \in PublicCategories(s)
  PROVE  \A n \in Nat : \/ Walk(s, c)[n] \in PublicCategories(s)
                        \/ Walk(s, c)[n] = TopLevel
<1> DEFINE Up == {n \in Nat : \/ Walk(s, c)[n] \in PublicCategories(s)
                              \/ Walk(s, c)[n] = TopLevel}
<1>1. 0 \in Up
  BY WalkSteps
<1>2. ASSUME NEW n \in Nat, n \in Up PROVE n + 1 \in Up
  <2>1. Walk(s, c)[n + 1] = StepUp(s, Walk(s, c)[n])
    BY WalkSteps
  <2>2. CASE Walk(s, c)[n] = TopLevel
    BY <2>1, <2>2 DEF StepUp, IsSnapshot
  <2>3. CASE Walk(s, c)[n] \in PublicCategories(s)
    <3>1. Walk(s, c)[n] \in DOMAIN s.categories
      BY <2>3 DEF PublicCategories
    <3> QED BY <2>1, <2>3, <3>1, AbovePublic DEF StepUp
  <2> QED BY <1>2, <2>2, <2>3
<1> HIDE DEF Up
<1>3. \A n \in Nat : n \in Up
  BY <1>1, <1>2, NatSetInduction
<1> QED BY <1>3 DEF Up

\* Once at the top, it stays there.
LEMMA TopIsLast ==
  ASSUME NEW s, IsSnapshot(s), NEW c, NEW n \in Nat, Walk(s, c)[n] = TopLevel
  PROVE  \A m \in Nat : Walk(s, c)[n + m] = TopLevel
<1> DEFINE Top == {m \in Nat : Walk(s, c)[n + m] = TopLevel}
<1>1. 0 \in Top
  OBVIOUS
<1>2. ASSUME NEW m \in Nat, m \in Top PROVE m + 1 \in Top
  <2>1. Walk(s, c)[(n + m) + 1] = StepUp(s, Walk(s, c)[n + m])
    BY WalkSteps
  <2> QED BY <1>2, <2>1 DEF StepUp, IsSnapshot
<1> HIDE DEF Top
<1>3. \A m \in Nat : m \in Top
  BY <1>1, <1>2, NatSetInduction
<1> QED BY <1>3 DEF Top

\* It is there after as many steps as there are public categories: else it
\* would visit one twice and never arrive.
LEMMA WalkIsShort ==
  ASSUME NEW s, IsSnapshot(s), NEW c \in PublicCategories(s)
  PROVE  /\ IsFiniteSet(PublicCategories(s))
         /\ Cardinality(PublicCategories(s)) \in Nat
         /\ Walk(s, c)[Cardinality(PublicCategories(s))] = TopLevel
<1> DEFINE P == PublicCategories(s)
           M == Cardinality(P)
           f == Walk(s, c)
<1>1. P \subseteq DOMAIN s.categories /\ TopLevel \notin P
  BY DEF PublicCategories, IsSnapshot
<1>2. IsFiniteSet(P) /\ M \in Nat
  BY <1>1, FS_Subset, FS_CardinalityType DEF IsSnapshot
<1>3. PICK N \in Nat : f[N] = TopLevel
  BY SizeOfTree DEF PublicCategories, IsPublic, EndOfWalk
<1>4. \A n \in Nat : f[n] \in P \/ f[n] = TopLevel
  BY WalkIsPublic
<1>5. IsDetermined(f)
  BY WalkSteps DEF IsDetermined
<1>6. \A n, m \in Nat : f[n] = TopLevel => f[n + m] = TopLevel
  BY TopIsLast
<1> HIDE DEF P, f, M
<1>7. ASSUME f[M] # TopLevel PROVE FALSE
  <2>1. \A n \in 0..M : f[n] \in P
    <3> SUFFICES ASSUME NEW n \in 0..M, f[n] = TopLevel PROVE FALSE
      BY <1>2, <1>4
    <3>1. n \in Nat /\ M - n \in Nat /\ n + (M - n) = M
      BY <1>2
    <3> QED BY <1>6, <1>7, <3>1
  <2> DEFINE g == [n \in 0..M |-> f[n]]
  <2>2. g \in [0..M -> P]
    BY <2>1
  <2>3. IsFiniteSet(0..M) /\ M < Cardinality(0..M)
    BY <1>2, FS_Interval
  <2> HIDE DEF g
  <2>4. PICK x, y \in 0..M : x # y /\ g[x] = g[y]
    BY <1>2, <2>2, <2>3, FS_PigeonHole DEF M
  <2>5. f[x] = f[y]
    BY <2>4 DEF g
  <2>6. PICK i \in Nat, j \in Nat : i < j /\ j <= M /\ f[i] = f[j]
    <3>1. x \in Nat /\ y \in Nat /\ x <= M /\ y <= M /\ (x < y \/ y < x)
      BY <1>2, <2>4
    <3> QED BY <2>5, <3>1
  <2>7. \A n \in Nat : \E z \in i..(j - 1) : f[i + n] = f[z]
    <3>1. Returns(f, i, j)
      BY <1>5, <2>6 DEF Returns
    <3>2. GoesRound(f, i, j)
      BY <3>1, Loop
    <3> QED BY <3>2 DEF GoesRound
  <2>8. PICK z \in i..(j - 1) : f[i + N] = f[z]
    BY <1>3, <2>7
  <2>9. z \in 0..M
    BY <1>2, <2>6
  <2>10. N + i = i + N
    BY <1>3
  <2> QED BY <1>1, <1>3, <1>6, <2>1, <2>8, <2>9, <2>10
<1> QED BY <1>2, <1>7 DEF P, M, f

\* The parent of a topic of the plan is one of them, if there is one.
LEMMA ParentIsTopic ==
  ASSUME NEW s, IsSnapshot(s)
  PROVE  /\ \A c \in PublicCategories(s) :
              ParentTopic(s, CategoryTopic(c)) =
                IF s.categories[c].parent = TopLevel THEN Nothing
                ELSE CategoryTopic(s.categories[c].parent)
         /\ \A d \in Discussions(s) :
              ParentTopic(s, Thread(d)) = CategoryTopic(s.discussions[d].category)
         /\ \A t \in Topics(s) :
              /\ t # Nothing
              /\ \/ ParentTopic(s, t) = Nothing
                 \/ \E c \in PublicCategories(s) : ParentTopic(s, t) = CategoryTopic(c)
<1>1. \A c : /\ CategoryTopic(c)[1] = "category" /\ CategoryTopic(c)[2] = c
             /\ Thread(c)[1] = "discussion" /\ Thread(c)[2] = c
  BY DEF CategoryTopic, Thread
<1>2. \A c \in PublicCategories(s) :
        ParentTopic(s, CategoryTopic(c)) =
          IF s.categories[c].parent = TopLevel THEN Nothing
          ELSE CategoryTopic(s.categories[c].parent)
  BY <1>1 DEF ParentTopic
<1>3. \A d \in Discussions(s) :
        ParentTopic(s, Thread(d)) = CategoryTopic(s.discussions[d].category)
  BY <1>1 DEF ParentTopic
<1>4. \A d \in Discussions(s) : /\ d \in DOMAIN s.discussions
                                /\ s.discussions[d].category \in PublicCategories(s)
  BY DEF Discussions
<1>5. \A c \in PublicCategories(s) : c \in DOMAIN s.categories
  BY DEF PublicCategories
<1>6. ASSUME NEW t \in Topics(s)
      PROVE  /\ t # Nothing
             /\ \/ ParentTopic(s, t) = Nothing
                \/ \E c \in PublicCategories(s) : ParentTopic(s, t) = CategoryTopic(c)
  <2>1. CASE \E c \in PublicCategories(s) : t = CategoryTopic(c)
    <3>1. PICK c \in PublicCategories(s) : t = CategoryTopic(c)
      BY <2>1
    <3>2. t # Nothing
      BY <1>5, <3>1 DEF IsSnapshot
    <3> QED BY <1>2, <3>1, <3>2, AbovePublic
  <2>2. CASE \E d \in Discussions(s) : t = Thread(d)
    <3>1. PICK d \in Discussions(s) : t = Thread(d)
      BY <2>2
    <3>2. t # Nothing
      BY <1>4, <3>1 DEF IsSnapshot
    <3> QED BY <1>3, <1>4, <3>1, <3>2
  <2> QED BY <2>1, <2>2 DEF Topics
<1> QED BY <1>2, <1>3, <1>6

\* What is above a topic, and above nothing.
Over(s, t) == IF t = Nothing THEN Nothing ELSE ParentTopic(s, t)

\* The recursive definition of a lineage has a solution inside the plan.
LEMMA LineageSteps ==
  ASSUME NEW s, IsSnapshot(s), NEW t \in Topics(s)
  PROVE  /\ Lineage(s, t)[0] = t
         /\ \A n \in Nat : Lineage(s, t)[n + 1] = Over(s, Lineage(s, t)[n])
<1> DEFINE S == Topics(s) \cup {Nothing}
           g == [x \in S |-> Over(s, x)]
<1>1. g \in [S -> S]
  <2>1. \A x \in S : Over(s, x) \in S
    BY ParentIsTopic DEF Over, Topics
  <2> QED BY <2>1
<1>2. t \in S
  OBVIOUS
<1> HIDE DEF S, g
<1>3. PICK f \in [Nat -> S] : f[0] = t /\ \A n \in Nat : f[n + 1] = g[f[n]]
  BY <1>1, <1>2, Iteration
<1>4. \A n \in Nat : f[n + 1] = Over(s, f[n])
  BY <1>3 DEF g
<1>5. f = [n \in Nat |-> IF n = 0 THEN t
                         ELSE IF f[n - 1] = Nothing THEN Nothing
                         ELSE ParentTopic(s, f[n - 1])]
  <2>1. \A n \in Nat : f[n] = IF n = 0 THEN t
                              ELSE IF f[n - 1] = Nothing THEN Nothing
                              ELSE ParentTopic(s, f[n - 1])
    <3> TAKE n \in Nat
    <3>1. CASE n = 0
      BY <1>3, <3>1
    <3>2. CASE n # 0
      <4>1. n - 1 \in Nat /\ (n - 1) + 1 = n
        BY <3>2
      <4> QED BY <1>4, <3>2, <4>1 DEF Over
    <3> QED BY <3>1, <3>2
  <2> QED BY <1>3, <2>1
<1>6. Lineage(s, t) = CHOOSE h : h = [n \in Nat |-> IF n = 0 THEN t
                                         ELSE IF h[n - 1] = Nothing THEN Nothing
                                         ELSE ParentTopic(s, h[n - 1])]
  BY DEF Lineage
<1> DEFINE up == Lineage(s, t)
<1> HIDE DEF up
<1>7. up = [n \in Nat |-> IF n = 0 THEN t
                          ELSE IF up[n - 1] = Nothing THEN Nothing
                          ELSE ParentTopic(s, up[n - 1])]
  BY <1>5, <1>6 DEF up
<1>8. up[0] = t /\ \A n \in Nat : up[n + 1] = Over(s, up[n])
  BY <1>7 DEF Over
<1> QED BY <1>8 DEF up

\* The ancestors of a topic are its parent and the ancestors of that.
LEMMA LineageFromNext ==
  ASSUME NEW s, IsSnapshot(s), NEW t \in Topics(s)
  PROVE  \A n \in Nat :
           Lineage(s, t)[n + 1] = IF ParentTopic(s, t) = Nothing THEN Nothing
                                  ELSE Lineage(s, ParentTopic(s, t))[n]
<1> DEFINE p == ParentTopic(s, t)
           up == Lineage(s, t)
<1>1. up[0] = t /\ \A n \in Nat : up[n + 1] = Over(s, up[n])
  BY LineageSteps
<1>2. Over(s, t) = p
  BY ParentIsTopic DEF Over
<1>3. CASE p = Nothing
  <2> DEFINE Gone == {n \in Nat : up[n + 1] = Nothing}
  <2> HIDE DEF up, p
  <2>1. 0 \in Gone
    BY <1>1, <1>2, <1>3
  <2>2. ASSUME NEW n \in Nat, n \in Gone PROVE n + 1 \in Gone
    BY <1>1, <2>2 DEF Over
  <2> HIDE DEF Gone
  <2>3. \A n \in Nat : n \in Gone
    BY <2>1, <2>2, NatSetInduction
  <2>4. \A n \in Nat : up[n + 1] = Nothing
    BY <2>3 DEF Gone
  <2> QED BY <1>3, <2>4 DEF up, p
<1>4. CASE p # Nothing
  <2> DEFINE above == Lineage(s, p)
             Same == {n \in Nat : up[n + 1] = above[n]}
  <2>1. p \in Topics(s)
    BY <1>4, ParentIsTopic DEF Topics
  <2>2. above[0] = p /\ \A n \in Nat : above[n + 1] = Over(s, above[n])
    BY <2>1, LineageSteps
  <2> HIDE DEF up, p, above
  <2>3. 0 \in Same
    BY <1>1, <1>2, <2>2
  <2>4. ASSUME NEW n \in Nat, n \in Same PROVE n + 1 \in Same
    BY <1>1, <2>2, <2>4
  <2> HIDE DEF Same
  <2>5. \A n \in Nat : n \in Same
    BY <2>3, <2>4, NatSetInduction
  <2>6. \A n \in Nat : up[n + 1] = above[n]
    BY <2>5 DEF Same
  <2> QED BY <1>4, <2>6 DEF up, p, above
<1> QED BY <1>3, <1>4

\* The ancestors of a category topic are those of the walk from its category.
LEMMA LineageIsWalk ==
  ASSUME NEW s, IsSnapshot(s), NEW c \in PublicCategories(s)
  PROVE  \A n \in Nat : Walk(s, c)[n] = TopLevel =>
                          Lineage(s, CategoryTopic(c))[n] = Nothing
<1> DEFINE P == PublicCategories(s)
           w == Walk(s, c)
           up == Lineage(s, CategoryTopic(c))
           Along == {n \in Nat : \/ w[n] = TopLevel /\ up[n] = Nothing
                                 \/ /\ w[n] # TopLevel
                                    /\ w[n] \in P
                                    /\ up[n] = CategoryTopic(w[n])}
<1>1. CategoryTopic(c) \in Topics(s)
  BY DEF Topics
<1>2. w[0] = c /\ \A n \in Nat : w[n + 1] = StepUp(s, w[n])
  BY WalkSteps
<1>3. up[0] = CategoryTopic(c) /\ \A n \in Nat : up[n + 1] = Over(s, up[n])
  BY <1>1, LineageSteps
<1>4. ASSUME NEW x \in P
      PROVE  /\ x # TopLevel
             /\ \/ StepUp(s, x) = TopLevel /\ Over(s, CategoryTopic(x)) = Nothing
                \/ /\ StepUp(s, x) # TopLevel
                   /\ StepUp(s, x) \in P
                   /\ Over(s, CategoryTopic(x)) = CategoryTopic(StepUp(s, x))
  <2>1. x \in DOMAIN s.categories /\ CategoryTopic(x) \in Topics(s)
    BY DEF PublicCategories, Topics
  <2>2. x # TopLevel /\ CategoryTopic(x) # Nothing
    BY <2>1 DEF IsSnapshot
  <2>3. StepUp(s, x) = s.categories[x].parent
    BY <2>1, AbovePublic DEF StepUp
  <2> QED BY <2>1, <2>2, <2>3, AbovePublic, ParentIsTopic DEF Over
<1>5. StepUp(s, TopLevel) = TopLevel /\ Over(s, Nothing) = Nothing
  BY DEF StepUp, Over, IsSnapshot
<1>6. c \in P
  OBVIOUS
<1> HIDE DEF P, w, up
<1>7. 0 \in Along
  BY <1>2, <1>3, <1>4, <1>6
<1>8. ASSUME NEW n \in Nat, n \in Along PROVE n + 1 \in Along
  BY <1>2, <1>3, <1>4, <1>5, <1>8
<1> HIDE DEF Along
<1>9. \A n \in Nat : n \in Along
  BY <1>7, <1>8, NatSetInduction
<1>10. \A n \in Nat : w[n] = TopLevel => up[n] = Nothing
  BY <1>9 DEF Along
<1> QED BY <1>10 DEF w, up

\* There are at least as many topics as public categories.
LEMMA TopicsAreMany ==
  ASSUME NEW s, IsSnapshot(s)
  PROVE  /\ Cardinality(Topics(s)) \in Nat
         /\ Cardinality(PublicCategories(s)) \in Nat
         /\ Cardinality(PublicCategories(s)) <= Cardinality(Topics(s))
<1> DEFINE P == PublicCategories(s)
           C == {CategoryTopic(c) : c \in P}
           D == Discussions(s)
           T == {Thread(d) : d \in D}
           f == [c \in P |-> CategoryTopic(c)]
           g == [d \in D |-> Thread(d)]
<1>1. IsFiniteSet(P) /\ IsFiniteSet(D)
  <2>1. P \subseteq DOMAIN s.categories /\ D \subseteq DOMAIN s.discussions
    BY DEF PublicCategories, Discussions
  <2>2. IsFiniteSet(DOMAIN s.categories) /\ IsFiniteSet(DOMAIN s.discussions)
    BY DEF IsSnapshot
  <2> QED BY <2>1, <2>2, FS_Subset
<1>2. f \in Surjection(P, C) /\ g \in Surjection(D, T)
  BY DEF Surjection
<1>3. IsFiniteSet(C) /\ IsFiniteSet(T)
  <2> HIDE DEF P, C, D, T, f, g
  <2> QED BY <1>1, <1>2, FS_Surjection
<1>4. Topics(s) = C \cup T
  BY DEF Topics
<1>5. IsFiniteSet(Topics(s))
  <2> HIDE DEF C, T
  <2> QED BY <1>3, <1>4, FS_Union
<1>6. f \in Injection(P, Topics(s))
  BY <1>4 DEF Injection, IsInjective, CategoryTopic
<1>7. Cardinality(P) <= Cardinality(Topics(s))
  <2> HIDE DEF P, f
  <2> QED BY <1>5, <1>6, FS_Injection
<1> QED BY <1>1, <1>5, <1>7, FS_CardinalityType

\* A topic has fewer ancestors than there are topics.
LEMMA LineageEnds ==
  ASSUME NEW s, IsSnapshot(s), NEW c \in PublicCategories(s)
  PROVE  Lineage(s, CategoryTopic(c))[Cardinality(Topics(s))] = Nothing
<1> DEFINE M == Cardinality(PublicCategories(s))
           N == Cardinality(Topics(s))
<1>1. M \in Nat /\ N \in Nat /\ M <= N
  BY TopicsAreMany
<1>2. Walk(s, c)[M] = TopLevel
  BY WalkIsShort
<1> HIDE DEF M, N
<1>3. N - M \in Nat /\ M + (N - M) = N
  BY <1>1
<1>4. Walk(s, c)[N] = TopLevel
  BY <1>1, <1>2, <1>3, TopIsLast
<1> QED BY <1>1, <1>4, LineageIsWalk DEF N

\* The distances of a topic are its own and, one more, those of its parent.
LEMMA DepthsOfTopic ==
  ASSUME NEW s, IsSnapshot(s), NEW t \in Topics(s)
  PROVE  Depths(s, t) =
           {<<t, 0>>} \cup
             (IF ParentTopic(s, t) = Nothing THEN {}
              ELSE {<<a[1], a[2] + 1>> : a \in Depths(s, ParentTopic(s, t))})
<1> DEFINE p == ParentTopic(s, t)
           N == Cardinality(Topics(s))
           up == Lineage(s, t)
           above == Lineage(s, p)
           OfTopic == {<<up[n], n>> : n \in {m \in 0..N : up[m] # Nothing}}
           OfParent == {<<above[n], n>> : n \in {m \in 0..N : above[m] # Nothing}}
<1>1. N \in Nat /\ N # 0
  <2>1. PICK c \in PublicCategories(s) : TRUE
    BY DEF Topics, Discussions
  <2>2. Cardinality(PublicCategories(s)) # 0
    BY <2>1, WalkIsShort, FS_EmptySet
  <2> QED BY <2>2, TopicsAreMany
<1>2. up[0] = t /\ t # Nothing
  BY LineageSteps, ParentIsTopic
<1>3. \A n \in Nat : up[n + 1] = IF p = Nothing THEN Nothing ELSE above[n]
  BY LineageFromNext
<1>4. p # Nothing => above[N] = Nothing
  BY LineageEnds, ParentIsTopic
<1>5. Depths(s, t) = OfTopic /\ Depths(s, p) = OfParent
  BY DEF Depths
<1> HIDE DEF p, N, up, above
<1>6. ASSUME NEW n \in Nat, n # 0 PROVE \E m \in Nat : n = m + 1
  <2>1. n - 1 \in Nat /\ n = (n - 1) + 1
    BY <1>6
  <2> QED BY <2>1
<1>7. <<t, 0>> \in OfTopic
  BY <1>1, <1>2
<1>8. CASE p = Nothing
  <2>1. \A n \in 0..N : up[n] # Nothing => n = 0
    BY <1>1, <1>3, <1>6, <1>8
  <2>2. OfTopic = {<<t, 0>>}
    BY <1>2, <1>7, <2>1
  <2> QED BY <1>5, <1>8, <2>2 DEF p
<1>9. CASE p # Nothing
  <2> DEFINE Shifted == {<<a[1], a[2] + 1>> : a \in OfParent}
  <2>1. ASSUME NEW n \in 0..N, up[n] # Nothing
        PROVE  <<up[n], n>> \in {<<t, 0>>} \cup Shifted
    <3>1. CASE n = 0
      BY <1>2, <3>1
    <3>2. CASE n # 0
      <4>1. PICK m \in Nat : n = m + 1
        BY <1>1, <1>6, <3>2
      <4>2. above[m] = up[n] /\ m \in 0..N
        BY <1>1, <1>3, <1>9, <4>1
      <4>3. <<above[m], m>> \in OfParent
        BY <2>1, <4>2
      <4>4. <<above[m], m + 1>> \in Shifted
        <5>1. PICK a \in OfParent : a = <<above[m], m>>
          BY <4>3
        <5>2. <<a[1], a[2] + 1>> \in Shifted
          OBVIOUS
        <5> QED BY <5>1, <5>2
      <4> QED BY <4>1, <4>2, <4>4
    <3> QED BY <3>1, <3>2
  <2>2. ASSUME NEW a \in OfParent PROVE <<a[1], a[2] + 1>> \in OfTopic
    <3>1. PICK m \in 0..N : a = <<above[m], m>> /\ above[m] # Nothing
      BY <2>2
    <3>2. m # N /\ m \in Nat
      BY <1>1, <1>4, <1>9, <3>1
    <3>3. m + 1 \in 0..N
      BY <1>1, <3>2
    <3>4. up[m + 1] = above[m]
      BY <1>3, <1>9, <3>2
    <3> QED BY <3>1, <3>3, <3>4
  <2>3. OfTopic \subseteq {<<t, 0>>} \cup Shifted
    BY <2>1
  <2>4. {<<t, 0>>} \cup Shifted \subseteq OfTopic
    BY <1>7, <2>2
  <2>5. OfTopic = {<<t, 0>>} \cup Shifted
    BY <2>3, <2>4
  <2> QED BY <1>5, <1>9, <2>5 DEF p
<1> QED BY <1>8, <1>9

\* The tables, names and rows of the entries of each kind.
LEMMA EntryTables ==
  ASSUME NEW s
  PROVE  /\ \A e \in CategoryTopicEntries(s) : \E c \in PublicCategories(s) :
              /\ e.key = <<"Topic", CategoryTopic(c)>>
              /\ e.name = <<"category-topic", c>>
              /\ e.row.parent = ParentTopic(s, CategoryTopic(c))
         /\ \A e \in ThreadEntries(s) : \E d \in Discussions(s) :
              /\ e.key = <<"Topic", Thread(d)>>
              /\ e.name = <<"discussion", d>>
              /\ e.row.parent = ParentTopic(s, Thread(d))
         /\ \A e \in CategoryEntries(s) : \E c \in PublicCategories(s) :
              /\ e.key = <<"PublicForumCategory", CategoryTopic(c)>>
              /\ e.name = <<"category", c>>
         /\ \A e \in StarterEntries(s) : \E d \in Discussions(s) :
              /\ e.key = <<"Post", <<"starter", d>>>>
              /\ e.name = <<"starter", d>>
              /\ e.row.topic = Thread(d) /\ e.row.parent = Thread(d)
         /\ \A e \in CommentEntries(s) : \E k \in Comments(s) :
              /\ e.key = <<"Post", <<"comment", k>>>>
              /\ e.name = <<"comment", k>>
              /\ e.row.topic = Thread(s.comments[k].discussion)
              /\ e.row.parent = CommentParent(s, k)
         /\ \A e \in RoleMemberEntries(s) :
              e.key[1] = "PublicForumRoleMember" /\ e.name[1] = "role-member"
         /\ \A e \in StateEntries(s) : \E w \in States(s) :
              \/ e.key[1] = "TopicWatch" /\ e.name = <<"watch", <<w.topic, w.user>>>>
              \/ e.key[1] = "TopicReadState" /\ e.name = <<"read", <<w.topic, w.user>>>>
<1>1. \A e \in CategoryTopicEntries(s) : \E c \in PublicCategories(s) :
        /\ e.key = <<"Topic", CategoryTopic(c)>>
        /\ e.name = <<"category-topic", c>>
        /\ e.row.parent = ParentTopic(s, CategoryTopic(c))
  BY DEF CategoryTopicEntries, Entry, TopicRow
<1>2. \A e \in ThreadEntries(s) : \E d \in Discussions(s) :
        /\ e.key = <<"Topic", Thread(d)>>
        /\ e.name = <<"discussion", d>>
        /\ e.row.parent = ParentTopic(s, Thread(d))
  BY DEF ThreadEntries, Entry, TopicRow
<1>3. \A e \in CategoryEntries(s) : \E c \in PublicCategories(s) :
        /\ e.key = <<"PublicForumCategory", CategoryTopic(c)>>
        /\ e.name = <<"category", c>>
  BY DEF CategoryEntries, Entry
<1>4. \A e \in StarterEntries(s) : \E d \in Discussions(s) :
        /\ e.key = <<"Post", <<"starter", d>>>>
        /\ e.name = <<"starter", d>>
        /\ e.row.topic = Thread(d) /\ e.row.parent = Thread(d)
  BY DEF StarterEntries, Entry, PostRow
<1>5. \A e \in CommentEntries(s) : \E k \in Comments(s) :
        /\ e.key = <<"Post", <<"comment", k>>>>
        /\ e.name = <<"comment", k>>
        /\ e.row.topic = Thread(s.comments[k].discussion)
        /\ e.row.parent = CommentParent(s, k)
  BY DEF CommentEntries, Entry, PostRow
<1>6. \A e \in RoleMemberEntries(s) :
        e.key[1] = "PublicForumRoleMember" /\ e.name[1] = "role-member"
  <2> TAKE e \in RoleMemberEntries(s)
  <2>1. PICK id, key, row :
          e = Entry("PublicForumRoleMember", "role-member", id, key, row)
    BY DEF RoleMemberEntries
  <2> QED BY <2>1 DEF Entry
<1>7. \A e \in StateEntries(s) : \E w \in States(s) :
        \/ e.key[1] = "TopicWatch" /\ e.name = <<"watch", <<w.topic, w.user>>>>
        \/ e.key[1] = "TopicReadState" /\ e.name = <<"read", <<w.topic, w.user>>>>
  BY DEF StateEntries, Entry
<1> QED BY <1>1, <1>2, <1>3, <1>4, <1>5, <1>6, <1>7

\* A closure row holds a topic, an ancestor and their distance.
LEMMA ClosureTables ==
  ASSUME NEW s, NEW e \in ClosureEntries(s)
  PROVE  /\ e.key[1] = "TopicClosure" /\ e.name[1] = "closure"
         /\ \E t \in Topics(s) : \E a \in Depths(s, t) :
              e.row = [ancestor |-> a[1], descendant |-> t, depth |-> a[2]]
<1>1. PICK p \in UNION {{<<t, a>> : a \in Depths(s, t)} : t \in Topics(s)} :
        e = Entry("TopicClosure", "closure", <<p[1], p[2][1]>>, <<p[2][1], p[1]>>,
                  [ancestor |-> p[2][1], descendant |-> p[1], depth |-> p[2][2]])
  BY DEF ClosureEntries
<1>2. PICK t \in Topics(s) : \E a \in Depths(s, t) : p = <<t, a>>
  BY <1>1
<1>3. PICK a \in Depths(s, t) : p = <<t, a>>
  BY <1>2
<1>4. p[1] = t /\ p[2] = a
  BY <1>3
<1>5. /\ e.key[1] = "TopicClosure" /\ e.name[1] = "closure"
      /\ e.row = [ancestor |-> a[1], descendant |-> t, depth |-> a[2]]
  BY <1>1, <1>4 DEF Entry
<1> QED BY <1>5

\* Every public category, discussion, comment and distance has its entry.
LEMMA EntriesExist ==
  ASSUME NEW s
  PROVE  /\ \A c \in PublicCategories(s) : \E e \in CategoryEntries(s) :
              e.key = <<"PublicForumCategory", CategoryTopic(c)>>
         /\ \A d \in Discussions(s) : \E e \in ThreadEntries(s) :
              e.key = <<"Topic", Thread(d)>>
         /\ \A k \in Comments(s) : \E e \in CommentEntries(s) :
              /\ e.key = <<"Post", <<"comment", k>>>>
              /\ e.row.topic = Thread(s.comments[k].discussion)
         /\ \A t \in Topics(s) : \A a \in Depths(s, t) : \E e \in ClosureEntries(s) :
              /\ e.key = <<"TopicClosure", <<a[1], t>>>>
              /\ e.row = [ancestor |-> a[1], descendant |-> t, depth |-> a[2]]
<1>1. ASSUME NEW c \in PublicCategories(s)
      PROVE  \E e \in CategoryEntries(s) :
               e.key = <<"PublicForumCategory", CategoryTopic(c)>>
  <2> DEFINE e == Entry("PublicForumCategory", "category", c, CategoryTopic(c),
                        [read |-> ReadRoles(s, c), create |-> CreateRoles(s, c),
                         reply |-> WriteRoles(s, c, "reply")])
  <2>1. e \in CategoryEntries(s)
    BY DEF CategoryEntries
  <2> QED BY <2>1 DEF Entry
<1>2. ASSUME NEW d \in Discussions(s)
      PROVE  \E e \in ThreadEntries(s) : e.key = <<"Topic", Thread(d)>>
  <2> DEFINE e == Entry("Topic", "discussion", d, Thread(d),
                        TopicRow(s, Thread(d), s.discussions[d].user,
                                 s.discussions[d].text))
  <2>1. e \in ThreadEntries(s)
    BY DEF ThreadEntries
  <2> QED BY <2>1 DEF Entry
<1>3. ASSUME NEW k \in Comments(s)
      PROVE  \E e \in CommentEntries(s) :
               /\ e.key = <<"Post", <<"comment", k>>>>
               /\ e.row.topic = Thread(s.comments[k].discussion)
  <2> DEFINE e == Entry("Post", "comment", k, <<"comment", k>>,
                        PostRow(s, s.comments[k].discussion, CommentParent(s, k),
                                s.comments[k]))
  <2>1. e \in CommentEntries(s)
    BY DEF CommentEntries
  <2> QED BY <2>1 DEF Entry, PostRow
<1>4. ASSUME NEW t \in Topics(s), NEW a \in Depths(s, t)
      PROVE  \E e \in ClosureEntries(s) :
               /\ e.key = <<"TopicClosure", <<a[1], t>>>>
               /\ e.row = [ancestor |-> a[1], descendant |-> t, depth |-> a[2]]
  <2> DEFINE p == <<t, a>>
             e == Entry("TopicClosure", "closure", <<p[1], p[2][1]>>, <<p[2][1], p[1]>>,
                        [ancestor |-> p[2][1], descendant |-> p[1], depth |-> p[2][2]])
  <2>1. p \in UNION {{<<u, b>> : b \in Depths(s, u)} : u \in Topics(s)}
    OBVIOUS
  <2>2. e \in ClosureEntries(s)
    BY <2>1 DEF ClosureEntries
  <2>3. p[1] = t /\ p[2] = a
    OBVIOUS
  <2> QED BY <2>2, <2>3 DEF Entry
<1> QED BY <1>1, <1>2, <1>3, <1>4

\* Keys name the table, and names the kind, of an entry.
LEMMA KeyTables ==
  ASSUME NEW s
  PROVE  /\ \A e \in CategoryTopicEntries(s) \cup ThreadEntries(s) : e.key[1] = "Topic"
         /\ \A e \in CategoryEntries(s) : e.key[1] = "PublicForumCategory"
         /\ \A e \in StarterEntries(s) \cup CommentEntries(s) : e.key[1] = "Post"
         /\ \A e \in ClosureEntries(s) : e.key[1] = "TopicClosure"
         /\ \A e \in RoleMemberEntries(s) : e.key[1] = "PublicForumRoleMember"
         /\ \A e \in StateEntries(s) : e.key[1] \in {"TopicWatch", "TopicReadState"}
<1>1. \A e \in CategoryTopicEntries(s) : e.key[1] = "Topic"
  BY EntryTables
<1>2. \A e \in ThreadEntries(s) : e.key[1] = "Topic"
  BY EntryTables
<1>3. \A e \in CategoryEntries(s) : e.key[1] = "PublicForumCategory"
  BY EntryTables
<1>4. \A e \in StarterEntries(s) : e.key[1] = "Post"
  BY EntryTables
<1>5. \A e \in CommentEntries(s) : e.key[1] = "Post"
  BY EntryTables
<1>6. \A e \in ClosureEntries(s) : e.key[1] = "TopicClosure"
  BY ClosureTables
<1>7. \A e \in RoleMemberEntries(s) : e.key[1] = "PublicForumRoleMember"
  BY EntryTables
<1>8. \A e \in StateEntries(s) : e.key[1] \in {"TopicWatch", "TopicReadState"}
  BY EntryTables
<1> QED BY <1>1, <1>2, <1>3, <1>4, <1>5, <1>6, <1>7, <1>8

\* The rows of a plan in the tables of topics, posts and closure rows.
LEMMA TopicRows ==
  ASSUME NEW s, NEW e \in RowsOf(s), e.key[1] = "Topic"
  PROVE  \E t \in Topics(s) : e.key[2] = t /\ e.row.parent = ParentTopic(s, t)
<1>1. e \in CategoryTopicEntries(s) \cup ThreadEntries(s)
  BY KeyTables DEF RowsOf
<1>2. CASE e \in CategoryTopicEntries(s)
  <2>1. PICK c \in PublicCategories(s) :
          /\ e.key = <<"Topic", CategoryTopic(c)>>
          /\ e.row.parent = ParentTopic(s, CategoryTopic(c))
    BY <1>2, EntryTables
  <2> QED BY <2>1 DEF Topics
<1>3. CASE e \in ThreadEntries(s)
  <2>1. PICK d \in Discussions(s) :
          /\ e.key = <<"Topic", Thread(d)>>
          /\ e.row.parent = ParentTopic(s, Thread(d))
    BY <1>3, EntryTables
  <2> QED BY <2>1 DEF Topics
<1> QED BY <1>1, <1>2, <1>3

LEMMA PostRows ==
  ASSUME NEW s, NEW e \in RowsOf(s), e.key[1] = "Post"
  PROVE  e \in StarterEntries(s) \cup CommentEntries(s)
BY KeyTables DEF RowsOf

LEMMA ClosureRows ==
  ASSUME NEW s, NEW e \in RowsOf(s), e.key[1] = "TopicClosure"
  PROVE  e \in ClosureEntries(s)
BY KeyTables DEF RowsOf

\* The closure rows of a topic hold its ancestors at their distances.
LEMMA AboveIsDepths ==
  ASSUME NEW s, NEW t \in Topics(s)
  PROVE  {<<e.row.ancestor, e.row.depth>> :
            e \in {c \in RowsOf(s) : /\ c.key[1] = "TopicClosure"
                                     /\ c.row.descendant = t}} = Depths(s, t)
<1> DEFINE Rows == {c \in RowsOf(s) : /\ c.key[1] = "TopicClosure"
                                      /\ c.row.descendant = t}
<1>1. ASSUME NEW e \in Rows PROVE <<e.row.ancestor, e.row.depth>> \in Depths(s, t)
  <2>1. e \in ClosureEntries(s) /\ e.row.descendant = t
    BY ClosureRows
  <2>2. PICK u \in Topics(s) : \E a \in Depths(s, u) :
          e.row = [ancestor |-> a[1], descendant |-> u, depth |-> a[2]]
    BY <2>1, ClosureTables
  <2>3. PICK a \in Depths(s, u) :
          e.row = [ancestor |-> a[1], descendant |-> u, depth |-> a[2]]
    BY <2>2
  <2>4. u = t /\ e.row.ancestor = a[1] /\ e.row.depth = a[2]
    BY <2>1, <2>3
  <2>5. a = <<a[1], a[2]>>
    BY DEF Depths
  <2> QED BY <2>4, <2>5
<1>2. ASSUME NEW a \in Depths(s, t)
      PROVE  \E e \in Rows : a = <<e.row.ancestor, e.row.depth>>
  <2>1. PICK e \in ClosureEntries(s) :
          /\ e.key[1] = "TopicClosure"
          /\ e.row = [ancestor |-> a[1], descendant |-> t, depth |-> a[2]]
    BY EntriesExist, ClosureTables
  <2>2. e \in Rows
    BY <2>1 DEF RowsOf
  <2>3. a = <<a[1], a[2]>>
    BY DEF Depths
  <2> QED BY <2>1, <2>2, <2>3
<1> HIDE DEF Rows
<1>3. {<<e.row.ancestor, e.row.depth>> : e \in Rows} = Depths(s, t)
  BY <1>1, <1>2
<1> QED BY <1>3 DEF Rows

\* A post hangs below its topic or below a planned post of the same topic.
LEMMA PostsHang ==
  ASSUME NEW s, IsSnapshot(s), ~IsRejected(s),
         NEW e \in RowsOf(s), e.key[1] = "Post"
  PROVE  /\ \E t \in RowsOf(s) : t.key[1] = "Topic" /\ t.key[2] = e.row.topic
         /\ \/ e.row.parent = e.row.topic
            \/ \E p \in RowsOf(s) : /\ p.key[1] = "Post"
                                    /\ p.key[2] = e.row.parent
                                    /\ p.row.topic = e.row.topic
<1>1. \A d \in Discussions(s) : \E t \in RowsOf(s) :
        t.key[1] = "Topic" /\ t.key[2] = Thread(d)
  <2> TAKE d \in Discussions(s)
  <2>1. PICK t \in ThreadEntries(s) : t.key = <<"Topic", Thread(d)>>
    BY EntriesExist
  <2> QED BY <2>1 DEF RowsOf
<1>2. CASE e \in StarterEntries(s)
  <2>1. PICK d \in Discussions(s) : e.row.topic = Thread(d) /\ e.row.parent = Thread(d)
    BY <1>2, EntryTables
  <2> QED BY <1>1, <2>1
<1>3. CASE e \in CommentEntries(s)
  <2>1. PICK k \in Comments(s) : /\ e.row.topic = Thread(s.comments[k].discussion)
                                 /\ e.row.parent = CommentParent(s, k)
    BY <1>3, EntryTables
  <2>2. s.comments[k].discussion \in Discussions(s)
    BY DEF Comments
  <2> DEFINE p == s.comments[k].parent
  <2>3. CASE p \in DOMAIN s.comments
    <3>1. p # Nothing
      BY <2>3 DEF IsSnapshot
    <3>2. p \in Comments(s) /\ s.comments[p].discussion = s.comments[k].discussion
      BY <3>1 DEF IsRejected, CommentIsOrphan
    <3>3. PICK q \in CommentEntries(s) :
            /\ q.key = <<"Post", <<"comment", p>>>>
            /\ q.row.topic = Thread(s.comments[p].discussion)
      BY <3>2, EntriesExist
    <3>4. e.row.parent = <<"comment", p>>
      BY <2>1, <2>3 DEF CommentParent
    <3>5. q \in RowsOf(s) /\ q.key[1] = "Post" /\ q.key[2] = e.row.parent
          /\ q.row.topic = e.row.topic
      BY <2>1, <3>2, <3>3, <3>4 DEF RowsOf
    <3> QED BY <1>1, <2>1, <2>2, <3>5
  <2>4. CASE p \notin DOMAIN s.comments
    <3>1. e.row.parent = e.row.topic
      BY <2>1, <2>4 DEF CommentParent
    <3> QED BY <1>1, <2>1, <2>2, <3>1
  <2> QED BY <2>3, <2>4
<1> QED BY <1>2, <1>3, PostRows

\* Among any of the imported comments there is one that answers none of them.
LEMMA CommentsEnd ==
  ASSUME NEW s, ~IsRejected(s), NEW S, S # {},
         \A e \in S : e \in RowsOf(s) /\ e.key[1] = "Post" /\ e.name[1] = "comment"
  PROVE  \E e \in S : \A p \in S : e.row.parent # p.key[2]
<1>1. ASSUME NEW e \in S
      PROVE  \E k \in Comments(s) :
               e.key[2] = <<"comment", k>> /\ e.row.parent = CommentParent(s, k)
  <2>1. e \notin StarterEntries(s)
    BY EntryTables
  <2>2. e \in CommentEntries(s)
    BY <2>1, PostRows
  <2>3. PICK k \in Comments(s) : /\ e.key = <<"Post", <<"comment", k>>>>
                                 /\ e.row.parent = CommentParent(s, k)
    BY <2>2, EntryTables
  <2> QED BY <2>3
<1> DEFINE K == {k \in Comments(s) : \E e \in S :
                   e.key[2] = <<"comment", k>> /\ e.row.parent = CommentParent(s, k)}
<1>2. K \in SUBSET Comments(s) /\ K # {}
  BY <1>1
<1>3. PICK k \in K : s.comments[k].parent \notin K
  <2> HIDE DEF K
  <2> QED BY <1>2 DEF IsRejected, CommentsAreCyclic
<1>4. PICK e \in S : e.key[2] = <<"comment", k>> /\ e.row.parent = CommentParent(s, k)
  OBVIOUS
<1>5. ASSUME NEW p \in S, e.row.parent = p.key[2] PROVE FALSE
  <2>1. PICK l \in K : p.key[2] = <<"comment", l>>
    BY <1>1
  <2>2. CommentParent(s, k) = <<"comment", l>>
    BY <1>4, <1>5, <2>1
  <2>3. s.comments[k].parent = l
    BY <2>2 DEF CommentParent, Thread
  <2> QED BY <1>3, <2>3
<1> QED BY <1>4, <1>5

LEMMA EveryPlanConnects == PlansConnect
<1> SUFFICES ASSUME NEW s \in Snapshots, ~IsRejected(s) PROVE IsConnected(s)
  BY DEF PlansConnect, IsWhole
<1> DEFINE plan == RowsOf(s)
           topics == {e \in plan : e.key[1] = "Topic"}
           posts == {e \in plan : e.key[1] = "Post"}
           above(t) == {<<e.row.ancestor, e.row.depth>> :
                           e \in {c \in plan : /\ c.key[1] = "TopicClosure"
                                               /\ c.row.descendant = t}}
<1>1. IsSnapshot(s)
  BY SnapshotsAssumption
<1>2. \A t \in Topics(s) : above(t) = Depths(s, t)
  BY AboveIsDepths
<1>3. ASSUME NEW e \in topics
      PROVE  IF e.row.parent = Nothing THEN above(e.key[2]) = {<<e.key[2], 0>>}
             ELSE /\ \E c \in plan : /\ c.key[1] = "PublicForumCategory"
                                     /\ c.key[2] = e.row.parent
                  /\ above(e.key[2]) = {<<e.key[2], 0>>} \cup
                        {<<a[1], a[2] + 1>> : a \in above(e.row.parent)}
  <2>1. PICK t \in Topics(s) : e.key[2] = t /\ e.row.parent = ParentTopic(s, t)
    BY TopicRows
  <2>2. CASE e.row.parent = Nothing
    BY <1>1, <1>2, <2>1, <2>2, DepthsOfTopic
  <2>3. CASE e.row.parent # Nothing
    <3>1. PICK c \in PublicCategories(s) : e.row.parent = CategoryTopic(c)
      BY <1>1, <2>1, <2>3, ParentIsTopic
    <3>2. PICK r \in CategoryEntries(s) :
            r.key = <<"PublicForumCategory", CategoryTopic(c)>>
      BY EntriesExist
    <3>3. r \in plan /\ r.key[1] = "PublicForumCategory" /\ r.key[2] = e.row.parent
      BY <3>1, <3>2 DEF RowsOf
    <3>4. e.row.parent \in Topics(s)
      BY <3>1 DEF Topics
    <3>5. above(e.key[2]) = {<<e.key[2], 0>>} \cup
             {<<a[1], a[2] + 1>> : a \in above(e.row.parent)}
      BY <1>1, <1>2, <2>1, <2>3, <3>4, DepthsOfTopic
    <3> QED BY <2>3, <3>3, <3>5
  <2> QED BY <2>2, <2>3
<1>4. ASSUME NEW e \in posts
      PROVE  /\ \E t \in topics : t.key[2] = e.row.topic
             /\ \/ e.row.parent = e.row.topic
                \/ \E p \in posts : /\ p.key[2] = e.row.parent
                                    /\ p.row.topic = e.row.topic
  BY <1>1, PostsHang
<1>5. ASSUME NEW S \in SUBSET {e \in posts : e.name[1] = "comment"}, S # {}
      PROVE  \E e \in S : \A p \in S : e.row.parent # p.key[2]
  BY <1>5, CommentsEnd
<1> QED BY <1>3, <1>4, <1>5 DEF IsConnected

\* Whatever the trees of categories and replies of Vanilla, the rows planned fit
\* together: posts hang in their topics without a loop, topics below planned
\* categories, and closure rows are those of the parent, one deeper.
THEOREM PlansAreConnected == Spec => []PlanIsConnected
<1>1. TypeOK => PlanIsConnected
  BY EveryPlanConnects, VanillaAssumption DEF PlanIsConnected, PlansConnect, TypeOK
<1>2. QED
  BY <1>1, TypeCorrect, PTL

\* No topic is twice among the ancestors of another: the lineage ends.
LEMMA AncestorsOnce ==
  ASSUME NEW s, IsSnapshot(s), NEW t \in Topics(s),
         NEW a \in Depths(s, t), NEW b \in Depths(s, t), a[1] = b[1]
  PROVE  a = b
<1> DEFINE up == Lineage(s, t)
           p == ParentTopic(s, t)
<1>1. PICK K \in Nat : up[K] = Nothing
  <2>1. CASE p = Nothing
    <3>1. up[0 + 1] = Nothing
      BY <2>1, LineageFromNext
    <3> QED BY <3>1
  <2>2. CASE p # Nothing
    <3>1. Cardinality(Topics(s)) \in Nat
      BY TopicsAreMany
    <3>2. Lineage(s, p)[Cardinality(Topics(s))] = Nothing
      BY <2>2, ParentIsTopic, LineageEnds
    <3>3. up[Cardinality(Topics(s)) + 1] = Nothing
      BY <2>2, <3>1, <3>2, LineageFromNext
    <3> QED BY <3>1, <3>3
  <2> QED BY <2>1, <2>2
<1>2. \A n \in Nat : up[n + 1] = Over(s, up[n])
  BY LineageSteps
<1>3. IsDetermined(up)
  BY <1>2 DEF IsDetermined
<1>4. PICK n \in Nat : a = <<up[n], n>> /\ up[n] # Nothing
  BY DEF Depths
<1>5. PICK m \in Nat : b = <<up[m], m>> /\ up[m] # Nothing
  BY DEF Depths
<1> HIDE DEF up
<1>6. ASSUME NEW i \in Nat, up[i] = Nothing
      PROVE  \A x \in Nat : up[i + x] = Nothing
  <2> DEFINE Gone == {x \in Nat : up[i + x] = Nothing}
  <2>1. 0 \in Gone
    BY <1>6
  <2>2. ASSUME NEW x \in Nat, x \in Gone PROVE x + 1 \in Gone
    <3>1. up[(i + x) + 1] = Nothing
      BY <1>2, <2>2 DEF Over
    <3> QED BY <3>1
  <2> HIDE DEF Gone
  <2>3. \A x \in Nat : x \in Gone
    BY <2>1, <2>2, NatSetInduction
  <2> QED BY <2>3 DEF Gone
<1>7. ASSUME NEW i \in Nat, NEW j \in Nat, i < j, up[i] = up[j], up[j] # Nothing
      PROVE  FALSE
  <2>1. Returns(up, i, j)
    BY <1>3, <1>7 DEF Returns
  <2>2. GoesRound(up, i, j)
    BY <2>1, Loop
  <2>3. PICK x \in i..(j - 1) : up[i + K] = up[x]
    BY <2>2 DEF GoesRound
  <2>4. up[i + K] = Nothing
    <3>1. K + i = i + K
      OBVIOUS
    <3> QED BY <1>1, <1>6, <3>1
  <2>5. PICK y \in Nat : x \in Nat /\ x + y = j
    <3>1. x \in Nat /\ j - x \in Nat /\ x + (j - x) = j
      BY <1>7
    <3> QED BY <3>1
  <2>6. up[x + y] = Nothing
    BY <1>6, <2>3, <2>4, <2>5
  <2> QED BY <1>7, <2>5, <2>6
<1>8. up[n] = up[m]
  BY <1>4, <1>5
<1>9. n = m
  <2>1. n < m \/ m < n \/ n = m
    OBVIOUS
  <2> QED BY <1>4, <1>5, <1>7, <1>8, <2>1
<1> QED BY <1>4, <1>5, <1>9

\* Entries of one kind with one name are one.
NamedOnce(E) == \A e, f \in E : e.name = f.name => e = f

LEMMA KindsAreNamedOnce ==
  ASSUME NEW s, IsSnapshot(s)
  PROVE  /\ NamedOnce(CategoryTopicEntries(s)) /\ NamedOnce(ThreadEntries(s))
         /\ NamedOnce(CategoryEntries(s)) /\ NamedOnce(StarterEntries(s))
         /\ NamedOnce(CommentEntries(s)) /\ NamedOnce(ClosureEntries(s))
         /\ NamedOnce(RoleMemberEntries(s)) /\ NamedOnce(StateEntries(s))
<1>1. NamedOnce(CategoryTopicEntries(s))
  BY DEF NamedOnce, CategoryTopicEntries, Entry
<1>2. NamedOnce(ThreadEntries(s))
  BY DEF NamedOnce, ThreadEntries, Entry
<1>3. NamedOnce(CategoryEntries(s))
  BY DEF NamedOnce, CategoryEntries, Entry
<1>4. NamedOnce(StarterEntries(s))
  BY DEF NamedOnce, StarterEntries, Entry
<1>5. NamedOnce(CommentEntries(s))
  BY DEF NamedOnce, CommentEntries, Entry
<1>6. NamedOnce(ClosureEntries(s))
  <2> SUFFICES ASSUME NEW e \in ClosureEntries(s), NEW f \in ClosureEntries(s),
                      e.name = f.name
               PROVE  e = f
    BY DEF NamedOnce
  <2> DEFINE Pairs == UNION {{<<t, a>> : a \in Depths(s, t)} : t \in Topics(s)}
             Closure(p) ==
               Entry("TopicClosure", "closure", <<p[1], p[2][1]>>, <<p[2][1], p[1]>>,
                     [ancestor |-> p[2][1], descendant |-> p[1], depth |-> p[2][2]])
  <2>1. PICK p \in Pairs : e = Closure(p)
    BY DEF ClosureEntries
  <2>2. PICK q \in Pairs : f = Closure(q)
    BY DEF ClosureEntries
  <2>3. p[1] \in Topics(s) /\ p[2] \in Depths(s, p[1])
    OBVIOUS
  <2>4. q[1] \in Topics(s) /\ q[2] \in Depths(s, q[1])
    OBVIOUS
  <2>5. /\ e.name[2][1] = p[1] /\ e.name[2][2] = p[2][1]
        /\ f.name[2][1] = q[1] /\ f.name[2][2] = q[2][1]
    BY <2>1, <2>2 DEF Entry
  <2>6. p[1] = q[1] /\ p[2][1] = q[2][1]
    BY <2>5
  <2>7. p[2] = q[2]
    BY <2>3, <2>4, <2>6, AncestorsOnce
  <2> QED BY <2>1, <2>2, <2>6, <2>7
<1>7. NamedOnce(RoleMemberEntries(s))
  <2> SUFFICES ASSUME NEW e \in RoleMemberEntries(s), NEW f \in RoleMemberEntries(s),
                      e.name = f.name
               PROVE  e = f
    BY DEF NamedOnce
  <2> DEFINE Member(m) ==
               Entry("PublicForumRoleMember", "role-member", m,
                     <<<<"vanilla-role", m[1]>>, s.members[m[2]]>>,
                     [role |-> <<"vanilla-role", m[1]>>, member |-> s.members[m[2]]])
  <2>1. PICK m : e = Member(m)
    BY DEF RoleMemberEntries
  <2>2. PICK n : f = Member(n)
    BY DEF RoleMemberEntries
  <2>3. e.name[2] = m /\ f.name[2] = n
    BY <2>1, <2>2 DEF Entry
  <2>4. m = n
    BY <2>3
  <2> QED BY <2>1, <2>2, <2>4
<1>8. NamedOnce(StateEntries(s))
  BY DEF NamedOnce, StateEntries, Entry, States, IsSnapshot
<1> QED BY <1>1, <1>2, <1>3, <1>4, <1>5, <1>6, <1>7, <1>8

LEMMA NameTables ==
  ASSUME NEW s
  PROVE  /\ \A e \in CategoryTopicEntries(s) : e.name[1] = "category-topic"
         /\ \A e \in ThreadEntries(s) : e.name[1] = "discussion"
         /\ \A e \in CategoryEntries(s) : e.name[1] = "category"
         /\ \A e \in StarterEntries(s) : e.name[1] = "starter"
         /\ \A e \in CommentEntries(s) : e.name[1] = "comment"
         /\ \A e \in ClosureEntries(s) : e.name[1] = "closure"
         /\ \A e \in RoleMemberEntries(s) : e.name[1] = "role-member"
         /\ \A e \in StateEntries(s) : e.name[1] \in {"watch", "read"}
<1>1. \A e \in CategoryTopicEntries(s) : e.name[1] = "category-topic"
  BY EntryTables
<1>2. \A e \in ThreadEntries(s) : e.name[1] = "discussion"
  BY EntryTables
<1>3. \A e \in CategoryEntries(s) : e.name[1] = "category"
  BY EntryTables
<1>4. \A e \in StarterEntries(s) : e.name[1] = "starter"
  BY EntryTables
<1>5. \A e \in CommentEntries(s) : e.name[1] = "comment"
  BY EntryTables
<1>6. \A e \in ClosureEntries(s) : e.name[1] = "closure"
  BY ClosureTables
<1>7. \A e \in RoleMemberEntries(s) : e.name[1] = "role-member"
  BY EntryTables
<1>8. \A e \in StateEntries(s) : e.name[1] \in {"watch", "read"}
  BY EntryTables
<1> QED BY <1>1, <1>2, <1>3, <1>4, <1>5, <1>6, <1>7, <1>8

\* A plan holds one entry for a Vanilla row of a kind: what PublicImport assumes
\* of plans holds of those that planPublicImport makes.
THEOREM PlansNameRowsOnce == \A s \in Snapshots : NamedOnce(RowsOf(s))
<1> SUFFICES ASSUME NEW s \in Snapshots,
                    NEW e \in RowsOf(s), NEW f \in RowsOf(s), e.name = f.name
             PROVE  e = f
  BY DEF NamedOnce
<1>1. IsSnapshot(s)
  BY SnapshotsAssumption
<1>2. CASE e \in CategoryTopicEntries(s)
  <2>1. f \in CategoryTopicEntries(s)
    BY <1>2, NameTables DEF RowsOf
  <2> QED BY <1>1, <1>2, <2>1, KindsAreNamedOnce DEF NamedOnce
<1>3. CASE e \in ThreadEntries(s)
  <2>1. f \in ThreadEntries(s)
    BY <1>3, NameTables DEF RowsOf
  <2> QED BY <1>1, <1>3, <2>1, KindsAreNamedOnce DEF NamedOnce
<1>4. CASE e \in CategoryEntries(s)
  <2>1. f \in CategoryEntries(s)
    BY <1>4, NameTables DEF RowsOf
  <2> QED BY <1>1, <1>4, <2>1, KindsAreNamedOnce DEF NamedOnce
<1>5. CASE e \in StarterEntries(s)
  <2>1. f \in StarterEntries(s)
    BY <1>5, NameTables DEF RowsOf
  <2> QED BY <1>1, <1>5, <2>1, KindsAreNamedOnce DEF NamedOnce
<1>6. CASE e \in CommentEntries(s)
  <2>1. f \in CommentEntries(s)
    BY <1>6, NameTables DEF RowsOf
  <2> QED BY <1>1, <1>6, <2>1, KindsAreNamedOnce DEF NamedOnce
<1>7. CASE e \in ClosureEntries(s)
  <2>1. f \in ClosureEntries(s)
    BY <1>7, NameTables DEF RowsOf
  <2> QED BY <1>1, <1>7, <2>1, KindsAreNamedOnce DEF NamedOnce
<1>8. CASE e \in RoleMemberEntries(s)
  <2>1. f \in RoleMemberEntries(s)
    BY <1>8, NameTables DEF RowsOf
  <2> QED BY <1>1, <1>8, <2>1, KindsAreNamedOnce DEF NamedOnce
<1>9. CASE e \in StateEntries(s)
  <2>1. f \in StateEntries(s)
    BY <1>9, NameTables DEF RowsOf
  <2> QED BY <1>1, <1>9, <2>1, KindsAreNamedOnce DEF NamedOnce
<1> QED BY <1>2, <1>3, <1>4, <1>5, <1>6, <1>7, <1>8, <1>9 DEF RowsOf

=============================================================================
