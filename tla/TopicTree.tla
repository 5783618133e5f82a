----------------------------- MODULE TopicTree -----------------------------
(***************************************************************************)
(* The Topic and TopicClosure tables and the commands that write them:     *)
(* createTopic, updateTopic, softDeleteTopic, lockTopic and unlockTopic.   *)
(*                                                                         *)
(* A command is a sequence of database calls with an await between any     *)
(* two.  A request record holds what the command has read so far, and one  *)
(* action is one such step:                                                *)
(*                                                                         *)
(*   LoadTopic        findUnique of the target row                         *)
(*   Decide           the closure read of its ancestors, then the policy   *)
(*                    and the lock decision on both                        *)
(*   CheckDescendants updateTopic only: the descendants' roles             *)
(*   EnsureActive     the first reads of the transaction                   *)
(*   Commit...        its writes                                           *)
(*                                                                         *)
(* Transactions are READ COMMITTED: each statement sees what is committed  *)
(* when it starts, and no row that was only read is locked.  The two       *)
(* statements of ensureActiveTopic are one step: deletions are permanent,  *)
(* so an outcome of the pair is an outcome of both at the first.           *)
(*                                                                         *)
(* Titles, the announcement flag, timestamps and audit columns are left    *)
(* out: nothing else depends on them.  Bans are module ActiveBans.  Facts  *)
(* and memberships, which live in other databases, are constants.          *)
(***************************************************************************)
EXTENDS ForumsPolicy, Naturals

CONSTANTS Topics,          \* topic ids
          Roles,           \* normalized role names
          Challenges,      \* challenge ids
          Actors,          \* callers and readers
          Requests,        \* requests in flight at once
          Commands,        \* the commands issued: an instance's bound
          Principal,       \* the principal record of an actor
          Facts,           \* [actor, challenge] -> what the lookups return
          Category,        \* imported category topic -> its access rules
          CategoryParent   \* imported category topic -> its parent or None

RuleEntry == Roles \cup {"$public", "$authenticated"}

PrincipalRecord == [id: Actors \cup {None}, machine: BOOLEAN, admin: BOOLEAN,
                    roles: SUBSET Roles, forumRoles: SUBSET Roles]

FactRecord == [configured: BOOLEAN, exists: BOOLEAN, copilot: BOOLEAN,
               member: BOOLEAN, resource: BOOLEAN,
               fullRead: BOOLEAN, fullWrite: BOOLEAN]

RuleRecord == [read: SUBSET RuleEntry, create: SUBSET RuleEntry,
               reply: SUBSET RuleEntry, discussions: BOOLEAN]

ASSUME AbsentAssumption ==
  /\ None \notin Topics \cup Roles \cup Challenges \cup Actors
  /\ Omitted \notin Topics \cup Roles \cup Challenges \cup {None}

ASSUME PrincipalAssumption ==
  /\ Principal \in [Actors -> PrincipalRecord]
  /\ Facts \in [Actors \X (Challenges \cup {None}) -> FactRecord]

\* Categories come from the import, in containers at most one level deep:
\* the bound of this model on the depth of the imported category tree.
ASSUME CategoryAssumption ==
  /\ DOMAIN Category \subseteq Topics
  /\ Category \in [DOMAIN Category -> RuleRecord]
  /\ CategoryParent \in [DOMAIN Category -> DOMAIN Category \cup {None}]
  /\ \A c \in DOMAIN Category :
       CategoryParent[c] # None => CategoryParent[CategoryParent[c]] = None

VARIABLES topic,     \* the Topic table: a function on the ids that exist
          closure,   \* the TopicClosure table: <<ancestor, descendant, depth>>
          request    \* request -> what it does and has read

vars == <<topic, closure, request>>

Row == [parent: Topics \cup {None}, challenge: Challenges \cup {None},
        role: Roles \cup {None}, author: Actors \cup {None},
        locked: BOOLEAN, deleted: BOOLEAN]

Operations == {"createChild", "update", "softDelete", "lock", "unlock"}

ASSUME CommandAssumption == Commands \subseteq Operations

\* A request: its program counter, what it was asked to do, and the lock flag
\* of the target row it loaded.
Request == [pc: {"loaded", "decided", "checked", "active"},
            op: Operations, actor: Actors, target: Topics,
            challenge: Challenges \cup {None, Omitted},
            role: Roles \cup {None, Omitted},
            locked: BOOLEAN]

Idle == [pc |-> "idle"]

TypeOK ==
  /\ \E S \in SUBSET Topics : topic \in [S -> Row]
  /\ closure \subseteq Topics \X Topics \X Nat
  /\ request \in [Requests -> Request \cup {Idle}]

-----------------------------------------------------------------------------
(* What a context load computes from the two tables                        *)

Existing == DOMAIN topic

RowsOf(t) == {row \in closure : row[2] = t}

Chain(t) == {row[1] : row \in RowsOf(t)}

Ancestors(t) == Chain(t) \ {t}

\* The closest of a set of closure rows: queries order them by depth.
Closest(rows) ==
  CHOOSE row \in rows : \A other \in rows : row[3] <= other[3]

\* The nearest value a chain carries, from the ancestors in `among`
Nearest(t, among, value) ==
  LET carriers == {row \in RowsOf(t) : row[1] \in among
                                        /\ value[row[1]] # None}
  IN IF carriers = {} THEN None ELSE value[Closest(carriers)[1]]

ChallengeOf == [t \in Existing |-> topic[t].challenge]
RoleOf == [t \in Existing |-> topic[t].role]

EffectiveChallenge(t) == Nearest(t, Chain(t), ChallengeOf)
EffectiveRole(t) == Nearest(t, Chain(t), RoleOf)
AncestorRole(t) == Nearest(t, Ancestors(t), RoleOf)

\* More than one distinct non-null value on the chain
Conflicting(t, value) ==
  \E a, b \in Chain(t) : /\ value[a] # None /\ value[b] # None
                         /\ value[a] # value[b]

\* Mutant of HasRestrictionConflict: two roles on a chain go unnoticed.
HasChallengeConflict(t) == Conflicting(t, ChallengeOf)

HasRestrictionConflict(t) ==
  Conflicting(t, ChallengeOf) \/ Conflicting(t, RoleOf)

Restrictions(t) == [challenge |-> EffectiveChallenge(t),
                    role |-> EffectiveRole(t),
                    conflict |-> HasRestrictionConflict(t)]

Unconflicted(challenge, role) ==
  [challenge |-> challenge, role |-> role, conflict |-> FALSE]

HasDeletedAncestor(t) == \E a \in Ancestors(t) : topic[a].deleted

Active(t) == ~topic[t].deleted /\ ~HasDeletedAncestor(t)

IsCategory(t) == t \in DOMAIN Category

Acl(t) ==
  LET rows == {row \in RowsOf(t) : IsCategory(row[1])}
  IN IF rows = {} THEN NoAcl
     ELSE [chain |-> {Category[row[1]] : row \in rows},
           nearest |-> Category[Closest(rows)[1]],
           self |-> IsCategory(t)]

FactsOf(a, t) == Facts[a, EffectiveChallenge(t)]

IsTopicAuthor(a, t) ==
  Principal[a].id # None /\ topic[t].author = Principal[a].id

-----------------------------------------------------------------------------
(* The decisions of a command on the loaded target                         *)

\* The target's availability as the context has it: its own row was not
\* deleted at the first read, its ancestors are looked at in the second.
Available(q) == ~HasDeletedAncestor(q.target)

Moderator(p) == p.machine \/ p.admin

\* Mutant of LockAllows: the author of a topic passes its lock.
LockAllowsAuthor(q) ==
  ~q.locked \/ topic[q.target].author = Principal[q.actor].id

LockAllows(q) ==
  CanMutateLocked(Principal[q.actor], q.locked, EffectiveChallenge(q.target),
                  FactsOf(q.actor, q.target))

CreateChildAllowed(q) ==
  LET p == Principal[q.actor]
      t == q.target
      r == Unconflicted(Inherited(EffectiveChallenge(t), q.challenge),
                        Inherited(EffectiveRole(t), q.role))
  IN /\ MayInherit(EffectiveChallenge(t), q.challenge)
     /\ MayInherit(EffectiveRole(t), q.role)
     /\ CanCreateChildTopic(p, Available(q), Acl(t), Restrictions(t),
                            FactsOf(q.actor, t), r,
                            Facts[q.actor, r.challenge])
     /\ LockAllows(q)

UpdateAllowed(q) ==
  LET p == Principal[q.actor]
      t == q.target
  IN /\ CanUpdateTopic(p, Available(q), Acl(t), Restrictions(t),
                       FactsOf(q.actor, t), IsTopicAuthor(q.actor, t))
     /\ LockAllows(q)
     /\ q.role # Omitted =>
          /\ MayUpdateRole(AncestorRole(t), EffectiveRole(t), q.role)
          /\ Sees(p, Unconflicted(EffectiveChallenge(t), q.role),
                  FactsOf(q.actor, t))

SoftDeleteAllowed(q) ==
  LET t == q.target
  IN /\ CanDeleteTopic(Principal[q.actor], Available(q), Acl(t),
                       Restrictions(t), FactsOf(q.actor, t))
     /\ LockAllows(q)

\* Locking is idempotent: a topic already in the asked state is returned.
SetLockNeeded(q) == Available(q) /\ q.locked = (q.op = "unlock")

Allowed(q) ==
  CASE q.op = "createChild" -> CreateChildAllowed(q)
    [] q.op = "update"      -> UpdateAllowed(q)
    [] q.op = "softDelete"  -> SoftDeleteAllowed(q)
    [] OTHER                -> SetLockNeeded(q)

-----------------------------------------------------------------------------
(* Table writes                                                            *)

Author(p) == IF p.machine THEN None ELSE p.id

NewRow(parent, challenge, role, author) ==
  [parent |-> parent, challenge |-> challenge, role |-> role,
   author |-> author, locked |-> FALSE, deleted |-> FALSE]

InsertTopic(t, row) ==
  topic' = [x \in Existing \cup {t} |-> IF x = t THEN row ELSE topic[x]]

\* Mutant of CreateClosureRows: the parent's own ancestors are forgotten.
CreateParentRow(t, parent) ==
  closure' = closure \cup {<<t, t, 0>>} \cup
             (IF parent = None THEN {} ELSE {<<parent, t, 1>>})

\* createClosureRows: the parent's rows one level deeper, and the self row
CreateClosureRows(t, parent) ==
  closure' = closure \cup {<<t, t, 0>>}
                     \cup {<<row[1], t, row[3] + 1>> : row \in RowsOf(parent)}

-----------------------------------------------------------------------------
(* Actions                                                                 *)

ImportedRow(c) == NewRow(CategoryParent[c], None, None, None)

Init ==
  /\ topic = [c \in DOMAIN Category |-> ImportedRow(c)]
  /\ closure = {<<c, c, 0>> : c \in DOMAIN Category}
               \cup {<<CategoryParent[c], c, 1>> :
                       c \in {d \in DOMAIN Category : CategoryParent[d] # None}}
  /\ request = [r \in Requests |-> Idle]

\* createTopic without a parent reads neither table before its transaction.
CreateRoot(a, t, challenge, role) ==
  LET p == Principal[a]
      r == Unconflicted(challenge, role)
  IN /\ t \notin Existing
     /\ CanCreateTopLevelTopic(p, r, Facts[a, challenge])
     /\ InsertTopic(t, NewRow(None, challenge, role, Author(p)))
     /\ CreateClosureRows(t, None)
     /\ UNCHANGED request

\* A command on a topic; commands need a principal.  A target that is missing
\* or deleted answers 404 and changes nothing, whatever the second read finds.
\* An explicit null challenge differs from an omitted one only under a
\* challenge topic, which refuses every child.
LoadTopic(r, op, a, t, challenge, role) ==
  /\ request[r] = Idle
  /\ Authenticated(Principal[a])
  /\ op \in {"lock", "unlock"} => Moderator(Principal[a])
  /\ op # "createChild" => challenge = Omitted
  /\ op \notin {"createChild", "update"} => role = Omitted
  /\ IF t \in Existing /\ ~topic[t].deleted
     THEN request' = [request EXCEPT ![r] =
            [pc |-> "loaded", op |-> op, actor |-> a, target |-> t,
             challenge |-> challenge, role |-> role,
             locked |-> topic[t].locked]]
     ELSE UNCHANGED request
  /\ UNCHANGED <<topic, closure>>

\* The request after the policy: createTopic carries the restrictions it
\* will store, and no command looks at the loaded row again.
Decided(q) ==
  LET creating == q.op = "createChild"
  IN [q EXCEPT !.pc = "decided", !.locked = FALSE,
               !.challenge = IF creating
                 THEN Inherited(EffectiveChallenge(q.target), @) ELSE @,
               !.role = IF creating
                 THEN Inherited(EffectiveRole(q.target), @) ELSE @]

Decide(r) ==
  LET q == request[r]
  IN /\ q.pc = "loaded"
     /\ request' = [request EXCEPT ![r] = IF Allowed(q) THEN Decided(q)
                                                        ELSE Idle]
     /\ UNCHANGED <<topic, closure>>

\* Mutant of ConflictingDescendant: only direct children are looked at.
ConflictingChild(t, role) ==
  \E row \in closure : /\ row[1] = t /\ row[3] = 1
                       /\ ~topic[row[2]].deleted
                       /\ topic[row[2]].role \notin {None, role}

\* ensureNoConflictingDescendantRole, outside the transaction
ConflictingDescendant(t, role) ==
  \E row \in closure : /\ row[1] = t /\ row[2] # t
                       /\ ~topic[row[2]].deleted
                       /\ topic[row[2]].role \notin {None, role}

CheckDescendants(r) ==
  LET q == request[r]
  IN /\ q.pc = "decided" /\ q.op = "update" /\ q.role # Omitted
     /\ request' = [request EXCEPT ![r] =
          IF q.role # None /\ ConflictingDescendant(q.target, q.role)
          THEN Idle ELSE [q EXCEPT !.pc = "checked"]]
     /\ UNCHANGED <<topic, closure>>

\* Mutant of EnsureActive: the ancestors are not looked at again.
EnsureNotDeleted(r) ==
  LET q == request[r]
  IN /\ \/ q.pc = "decided" /\ q.op \in {"createChild", "softDelete"}
        \/ q.pc = "decided" /\ q.op = "update" /\ q.role = Omitted
        \/ q.pc = "checked"
     /\ request' = [request EXCEPT ![r] =
          IF ~topic[q.target].deleted THEN [q EXCEPT !.pc = "active"]
                                      ELSE Idle]
     /\ UNCHANGED <<topic, closure>>

\* ensureActiveTopic and its siblings, first in the transaction
EnsureActive(r) ==
  LET q == request[r]
  IN /\ \/ q.pc = "decided" /\ q.op \in {"createChild", "softDelete"}
        \/ q.pc = "decided" /\ q.op = "update" /\ q.role = Omitted
        \/ q.pc = "checked"
     /\ request' = [request EXCEPT ![r] =
          IF Active(q.target) THEN [q EXCEPT !.pc = "active"] ELSE Idle]
     /\ UNCHANGED <<topic, closure>>

Finish(r) == request' = [request EXCEPT ![r] = Idle]

\* An exception, a lost connection or a crash ends the request; an open
\* transaction rolls back, so nothing it did is seen.
Fail(r) ==
  /\ request[r] # Idle
  /\ Finish(r)
  /\ UNCHANGED <<topic, closure>>

CommitCreateChild(r, t) ==
  LET q == request[r]
  IN /\ q.pc = "active" /\ q.op = "createChild"
     /\ t \notin Existing
     /\ InsertTopic(t, NewRow(q.target, q.challenge, q.role,
                              Author(Principal[q.actor])))
     /\ CreateClosureRows(t, q.target)
     /\ Finish(r)

CommitUpdate(r) ==
  LET q == request[r]
  IN /\ q.pc = "active" /\ q.op = "update"
     /\ topic' = [topic EXCEPT ![q.target].role =
                    IF q.role = Omitted THEN @ ELSE q.role]
     /\ Finish(r)
     /\ UNCHANGED closure

CommitSoftDelete(r) ==
  LET q == request[r]
  IN /\ q.pc = "active" /\ q.op = "softDelete"
     /\ topic' = [topic EXCEPT ![q.target].deleted = TRUE]
     /\ Finish(r)
     /\ UNCHANGED closure

\* A plain update by id: no transaction, and nothing is checked again.
SetLock(r) ==
  LET q == request[r]
  IN /\ q.pc = "decided" /\ q.op \in {"lock", "unlock"}
     /\ topic' = [topic EXCEPT ![q.target].locked = (q.op = "lock")]
     /\ Finish(r)
     /\ UNCHANGED closure

Next ==
  \/ \E a \in Actors, t \in Topics, challenge \in Challenges \cup {None},
       role \in Roles \cup {None} : CreateRoot(a, t, challenge, role)
  \/ \E r \in Requests, op \in Commands, a \in Actors, t \in Topics,
       challenge \in Challenges \cup {Omitted},
       role \in Roles \cup {None, Omitted} :
       LoadTopic(r, op, a, t, challenge, role)
  \/ \E r \in Requests : Decide(r)
  \/ \E r \in Requests : CheckDescendants(r)
  \/ \E r \in Requests : EnsureActive(r)
  \/ \E r \in Requests, t \in Topics : CommitCreateChild(r, t)
  \/ \E r \in Requests : CommitUpdate(r)
  \/ \E r \in Requests : CommitSoftDelete(r)
  \/ \E r \in Requests : SetLock(r)
  \/ \E r \in Requests : Fail(r)

Spec == Init /\ [][Next]_vars

-----------------------------------------------------------------------------
(* Properties                                                              *)

\* What a read of topic t decides for reader a, on the tables as they are.
Views(a, t) == CanView(Principal[a], Active(t), Acl(t), Restrictions(t),
                       FactsOf(a, t))

\* The closure table is exactly the reflexive transitive closure of the parent
\* column, with path lengths: the rows of a root are its self row, the rows of
\* a child are its self row and its parent's rows one level deeper.  Every
\* hiding, inheritance and lock decision reads this table, none the parents.
ClosureExact ==
  /\ \A row \in closure : row[1] \in Existing /\ row[2] \in Existing
  /\ \A t \in Existing :
       IF topic[t].parent = None THEN RowsOf(t) = {<<t, t, 0>>}
       ELSE /\ topic[t].parent \in Existing
            /\ RowsOf(t) = {<<t, t, 0>>} \cup
                 {<<row[1], t, row[3] + 1>> : row \in RowsOf(topic[t].parent)}

\* Nobody sees a topic below one they cannot see: not after a deletion, not
\* through a permissive category, and not when concurrent role writes leave two
\* different roles on one chain (the conflict flag closes such a chain).
VisibilityMonotone ==
  \A a \in Actors, t \in Existing :
    topic[t].parent # None /\ Views(a, t) => Views(a, topic[t].parent)

\* A challenge topic is a root without children: the create policy refuses
\* every child whose inherited or requested challenge is not null.
ChallengeTopicsStandAlone ==
  \A t \in Existing :
    topic[t].parent # None => /\ topic[t].challenge = None
                              /\ topic[topic[t].parent].challenge = None

\* Below the imported categories the tree is one level deep: threads receive no
\* child threads, and containers that only group categories receive none.
ThreadsAreLeaves ==
  \A t \in Existing : LET parent == topic[t].parent IN
    parent # None /\ ~IsCategory(t) /\ Managed(Acl(parent)) =>
      IsCategory(parent) /\ Category[parent].discussions

\* A transaction never gets past its own check on a hidden target, however
\* long ago the policy decided: no write starts in a deleted subtree.
NoWriterEntersHiddenTree ==
  [][\A r \in Requests :
       request[r].pc # "active" /\ request'[r].pc = "active" =>
         Active(request'[r].target)]_vars

\* A locked topic takes no child topic, update or deletion, except from an
\* administrator or a human copilot of its challenge.
LockedRejectsMutation ==
  [][\A r \in Requests :
       \/ \E t \in Topics : CommitCreateChild(r, t)
       \/ CommitUpdate(r)
       \/ CommitSoftDelete(r)
       =>
         LET q == request[r] IN
         CanMutateLocked(Principal[q.actor], topic[q.target].locked,
                         EffectiveChallenge(q.target),
                         FactsOf(q.actor, q.target))]_vars

\* A role restriction is never cleared nor replaced once a topic carries it.
RolesOnlyTighten ==
  [][\A t \in Existing :
       topic[t].role # None => topic'[t].role = topic[t].role]_vars

\* No active topic carries a role different from one it inherits.
NoRoleConflict ==
  \A t \in Existing : Active(t) => ~Conflicting(t, RoleOf)
=============================================================================
