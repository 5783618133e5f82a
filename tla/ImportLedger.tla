----------------------------- MODULE ImportLedger -----------------------------
(***************************************************************************)
(* What the public import promises about the tables it shares with users:  *)
(* it only ever adds rows, all of an import or none, each with a record of *)
(* where it came from, and never touches a row that is already there.      *)
(* Users add, change and remove rows; records are never changed.           *)
(***************************************************************************)
VARIABLES target,   \* the rows, by table and key
          ledger    \* the provenance records: the row each was created with

Init == DOMAIN ledger = {}

\* The rows of an import are new, and so are their records.
Import ==
    /\ DOMAIN target \subseteq DOMAIN target'
    /\ \A k \in DOMAIN target : target'[k] = target[k]
    /\ DOMAIN ledger \subseteq DOMAIN ledger'
    /\ \A e \in DOMAIN ledger : ledger'[e] = ledger[e]
    /\ DOMAIN target' \ DOMAIN target =
          {ledger'[e].key : e \in DOMAIN ledger' \ DOMAIN ledger}
    /\ \A e \in DOMAIN ledger' \ DOMAIN ledger :
          target'[ledger'[e].key] = ledger'[e].stored

\* A user adds, changes or removes one row.
UserWrites(k) ==
    /\ DOMAIN target \ {k} = DOMAIN target' \ {k}
    /\ \A j \in DOMAIN target \ {k} : target'[j] = target[j]
    /\ UNCHANGED ledger

Next == Import \/ \E k \in DOMAIN target \cup DOMAIN target' : UserWrites(k)

Spec == Init /\ [][Next]_<<target, ledger>>

=============================================================================
