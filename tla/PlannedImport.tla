---------------------------- MODULE PlannedImport ----------------------------
(***************************************************************************)
(* Runs of the public import on the plans that planPublicImport makes: the  *)
(* states of Vanilla of PublicImport are snapshots of PublicPlan.           *)
(***************************************************************************)
EXTENDS PublicImport, PublicPlan

CONSTANT VanillaAt(_)   \* the snapshot a state of Vanilla is

ASSUME VanillaAssumption ==
    \A i \in Sources :
        /\ VanillaAt(i) \in Snapshots
        /\ Throws(i) <=> IsRejected(VanillaAt(i))
        /\ Throws(i) \/ Plan(i) = RowsOf(VanillaAt(i))

-----------------------------------------------------------------------------

\* Whatever the tree of categories, the categories planned are exactly those
\* outside the challenge and group subtrees (publicCategories walks up from each
\* one and stops early).
PlanKeepsOut == PlansKeepOut /\ IsKeptOut(VanillaAt(source))

\* Whatever the trees of categories and replies, posts, topics and closure rows
\* of a plan fit together (planPublicImport checks them one comment at a time).
PlanIsConnected == PlansConnect /\ IsWhole(VanillaAt(source))

=============================================================================
