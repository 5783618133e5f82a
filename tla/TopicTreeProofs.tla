-------------------------- MODULE TopicTreeProofs --------------------------
(***************************************************************************)
(* Proofs about TopicTree, for any number of topics, roles, challenges,    *)
(* actors and requests in flight.                                          *)
(*                                                                         *)
(* The inductive invariant IInv says that the tables have their types,     *)
(* that the closure table is exact, and what a request has established by  *)
(* the time it reaches a step.  Visibility follows from IInv alone: it is  *)
(* a statement about one state, and the lemmas about Chain and Nearest     *)
(* carry it.                                                               *)
(***************************************************************************)
EXTENDS TopicTree, WellFoundedInduction, TLAPS

-----------------------------------------------------------------------------
(* The nearest value of a chain                                            *)

LEMMA NatMinimum ==
  ASSUME NEW T, T \subseteq Nat, T # {}
  PROVE  \E m \in T : \A n \in T : m <= n
<1> DEFINE R == OpToRel(<, Nat)
<1>1. IsWellFoundedOn(R, Nat)
  BY NatLessThanWellFounded
<1>2. \A m, n \in Nat : n < m => <<n, m>> \in R
  BY DEF OpToRel
<1> HIDE DEF R
<1>3. PICK m \in T : \A n \in T : ~(<<n, m>> \in R)
  BY <1>1, WFMin
<1>4. \A n \in T : m <= n
  <2> TAKE n \in T
  <2>1. n \in Nat /\ m \in Nat
    OBVIOUS
  <2>2. ~(n < m)
    BY <1>2, <1>3
  <2>3. QED BY <2>1, <2>2
<1>5. QED BY <1>4

\* A set of closure rows has a closest row.
LEMMA ClosestIsThere ==
  ASSUME NEW rows, rows # {},
         \A row \in rows : row[3] \in Nat
  PROVE  Closest(rows) \in rows
<1> DEFINE depths == {row[3] : row \in rows}
<1>1. PICK m \in depths : \A n \in depths : m <= n
  BY NatMinimum
<1>2. PICK row \in rows : row[3] = m
  OBVIOUS
<1>3. \A other \in rows : row[3] <= other[3]
  BY <1>1, <1>2
<1>4. QED BY <1>3 DEF Closest

\* The value a chain carries is that of one of its topics, and absent only if
\* no topic of the chain has one.
LEMMA NearestIsCarried ==
  ASSUME closure \subseteq Topics \X Topics \X Nat,
         NEW t, NEW among, NEW value
  PROVE  \/ /\ Nearest(t, among, value) = None
            /\ \A a \in Chain(t) \cap among : value[a] = None
         \/ \E a \in Chain(t) \cap among :
              value[a] # None /\ Nearest(t, among, value) = value[a]
<1> DEFINE carriers == {row \in RowsOf(t) : row[1] \in among
                                            /\ value[row[1]] # None}
<1>1. CASE carriers = {}
  BY <1>1 DEF Nearest, Chain
<1>2. CASE carriers # {}
  <2>1. \A row \in carriers : row[3] \in Nat
    BY DEF RowsOf
  <2> HIDE DEF carriers
  <2>2. Closest(carriers) \in carriers
    BY <1>2, <2>1, ClosestIsThere
  <2>3. Nearest(t, among, value) = value[Closest(carriers)[1]]
    BY <1>2 DEF Nearest, carriers
  <2>4. QED BY <2>2, <2>3 DEF carriers, Chain
<1>3. QED BY <1>1, <1>2

-----------------------------------------------------------------------------
(* The closure table and visibility                                        *)

\* A child's chain contains its parent's chain, and every topic its own.
LEMMA ChainOfChild ==
  ASSUME ClosureExact, NEW t \in Existing
  PROVE  /\ t \in Chain(t)
         /\ Chain(t) \subseteq Existing
         /\ topic[t].parent # None => /\ topic[t].parent \in Existing
                                      /\ Chain(topic[t].parent) \subseteq Chain(t)
                                      /\ topic[t].parent \in Chain(t)
<1>1. <<t, t, 0>> \in RowsOf(t)
  BY DEF ClosureExact
<1>2. t \in Chain(t)
  <2>1. <<t, t, 0>>[1] = t
    OBVIOUS
  <2>2. QED BY <1>1, <2>1 DEF Chain
<1>3. Chain(t) \subseteq Existing
  BY DEF ClosureExact, Chain, RowsOf
<1>4. ASSUME topic[t].parent # None
      PROVE  /\ topic[t].parent \in Existing
             /\ Chain(topic[t].parent) \subseteq Chain(t)
             /\ topic[t].parent \in Chain(topic[t].parent)
  <2> DEFINE p == topic[t].parent
  <2>1. p \in Existing
    BY <1>4 DEF ClosureExact
  <2>2. \A row \in RowsOf(p) : <<row[1], t, row[3] + 1>> \in RowsOf(t)
    BY <1>4 DEF ClosureExact
  <2>3. ASSUME NEW a \in Chain(p)
        PROVE  a \in Chain(t)
    <3>1. PICK row \in RowsOf(p) : a = row[1]
      BY <2>3 DEF Chain
    <3>2. <<row[1], t, row[3] + 1>> \in RowsOf(t)
      BY <2>2, <3>1
    <3>3. <<row[1], t, row[3] + 1>>[1] = a
      BY <3>1
    <3>4. QED BY <3>2, <3>3 DEF Chain
  <2>4. <<p, p, 0>> \in RowsOf(p)
    BY <2>1 DEF ClosureExact
  <2>5. <<p, p, 0>>[1] = p
    OBVIOUS
  <2>6. p \in Chain(p)
    BY <2>4, <2>5 DEF Chain
  <2>7. QED BY <2>1, <2>3, <2>6
<1>5. QED BY <1>2, <1>3, <1>4

\* On a chain without conflict the nearest value of a part of the chain is
\* absent or the value of the whole chain.
LEMMA NearestOfSubchain ==
  ASSUME closure \subseteq Topics \X Topics \X Nat,
         NEW t, NEW p, NEW value,
         Chain(p) \subseteq Chain(t), ~Conflicting(t, value)
  PROVE  Nearest(p, Chain(p), value) \in {None, Nearest(t, Chain(t), value)}
<1>1. \/ Nearest(p, Chain(p), value) = None
      \/ \E a \in Chain(p) : /\ value[a] # None
                             /\ Nearest(p, Chain(p), value) = value[a]
  BY NearestIsCarried
<1>2. \/ \A b \in Chain(t) : value[b] = None
      \/ \E b \in Chain(t) : /\ value[b] # None
                             /\ Nearest(t, Chain(t), value) = value[b]
  BY NearestIsCarried
<1>3. QED BY <1>1, <1>2 DEF Conflicting

\* What a reader sees of a child they see of its parent.
LEMMA ExactClosureHides ==
  ASSUME closure \subseteq Topics \X Topics \X Nat, ClosureExact
  PROVE  VisibilityMonotone
<1> SUFFICES ASSUME NEW a \in Actors, NEW t \in Existing,
                    topic[t].parent # None, Views(a, t)
             PROVE  Views(a, topic[t].parent)
  BY DEF VisibilityMonotone
<1> DEFINE p == topic[t].parent
<1>1. /\ p \in Existing /\ Chain(p) \subseteq Chain(t) /\ p \in Chain(t)
      /\ t \in Chain(t)
  BY ChainOfChild
<1> HIDE DEF p
<1>2. Active(p)
  <2>1. \A x \in Chain(t) : ~topic[x].deleted
    BY DEF Views, CanView, Active, HasDeletedAncestor, Ancestors
  <2>2. QED BY <1>1, <2>1 DEF Active, HasDeletedAncestor, Ancestors
<1>3. AclView(Principal[a], Acl(p))
  <2>1. \A c \in Chain(t) : IsCategory(c) =>
          Matches(Principal[a], Category[c].read)
    <3> SUFFICES ASSUME NEW c \in Chain(t), IsCategory(c)
                 PROVE  Matches(Principal[a], Category[c].read)
      OBVIOUS
    <3>1. PICK row \in RowsOf(t) : row[1] = c
      BY DEF Chain
    <3>2. Category[c] \in Acl(t).chain
      BY <3>1 DEF Acl
    <3>3. QED BY <3>2 DEF Views, CanView, AclView
  <2>2. ASSUME NEW rule \in Acl(p).chain
        PROVE  Matches(Principal[a], rule.read)
    <3>1. PICK row \in RowsOf(p) : IsCategory(row[1]) /\ rule = Category[row[1]]
      BY <2>2 DEF Acl, NoAcl
    <3>2. row[1] \in Chain(t)
      BY <1>1, <3>1 DEF Chain
    <3>3. QED BY <2>1, <3>1, <3>2
  <2>3. QED BY <2>2 DEF AclView
<1>4. Sees(Principal[a], Restrictions(p), FactsOf(a, p))
  <2>1. Sees(Principal[a], Restrictions(t), FactsOf(a, t))
    BY DEF Views, CanView
  <2>2. ASSUME Nearest(t, Chain(t), RoleOf) = None
        PROVE  Nearest(p, Chain(p), RoleOf) = None
    BY <1>1, <2>2, NearestIsCarried
  <2>3. ASSUME Nearest(t, Chain(t), ChallengeOf) = None
        PROVE  Nearest(p, Chain(p), ChallengeOf) = None
    BY <1>1, <2>3, NearestIsCarried
  <2>4. ASSUME ~HasRestrictionConflict(t)
        PROVE  /\ ~HasRestrictionConflict(p)
               /\ EffectiveRole(p) \in {None, EffectiveRole(t)}
               /\ EffectiveChallenge(p) \in {None, EffectiveChallenge(t)}
    <3>1. ~Conflicting(t, RoleOf) /\ ~Conflicting(t, ChallengeOf)
      BY <2>4 DEF HasRestrictionConflict
    <3>2. ~HasRestrictionConflict(p)
      BY <1>1, <3>1 DEF HasRestrictionConflict, Conflicting
    <3>3. EffectiveRole(p) \in {None, EffectiveRole(t)}
      BY <1>1, <3>1, NearestOfSubchain DEF EffectiveRole
    <3>4. EffectiveChallenge(p) \in {None, EffectiveChallenge(t)}
      BY <1>1, <3>1, NearestOfSubchain DEF EffectiveChallenge
    <3>5. QED BY <3>2, <3>3, <3>4
  <2>5. Authenticated(Principal[a])
          \/ (EffectiveChallenge(p) = None /\ EffectiveRole(p) = None)
    BY <2>1, <2>2, <2>3 DEF Sees, Restrictions, EffectiveRole,
                            EffectiveChallenge
  <2>6. ASSUME ~Bypasses(Principal[a])
        PROVE  /\ ~HasRestrictionConflict(p)
               /\ SatisfiesRole(Principal[a], EffectiveRole(p))
               /\ EffectiveChallenge(p) # None => ChallengeAdmits(FactsOf(a, p))
    <3>1. /\ ~HasRestrictionConflict(t)
          /\ SatisfiesRole(Principal[a], EffectiveRole(t))
          /\ EffectiveChallenge(t) # None => ChallengeAdmits(FactsOf(a, t))
      BY <2>1, <2>6 DEF Sees, Restrictions
    <3>2. QED BY <2>4, <3>1 DEF SatisfiesRole, FactsOf
  <2>7. QED BY <2>5, <2>6 DEF Sees, Restrictions
<1>5. QED BY <1>2, <1>3, <1>4 DEF Views, CanView, p

-----------------------------------------------------------------------------
(* The inductive invariant                                                 *)

\* What a request knows: its target exists (rows are never removed), and once
\* the policy has accepted a child, the child carries no challenge, a role of
\* its own or none, and its target is not a challenge topic.
Knows(q) ==
  q # Idle =>
    /\ q.target \in Existing
    /\ q.op = "createChild" /\ q.pc # "loaded" =>
         /\ q.challenge = None
         /\ q.role \in Roles \cup {None}
         /\ topic[q.target].challenge = None

RequestInv == \A r \in Requests : Knows(request[r])

IInv == TypeOK /\ ClosureExact /\ ChallengeTopicsStandAlone /\ RequestInv

\* TypeOK without its quantifier over the set of existing ids.
LEMMA TypeOKEquiv ==
  TypeOK <=> /\ Existing \subseteq Topics
             /\ topic \in [Existing -> Row]
             /\ closure \subseteq Topics \X Topics \X Nat
             /\ request \in [Requests -> Request \cup {Idle}]
BY DEF TypeOK, Existing

\* The values a context load returns are values of the columns.
LEMMA EffectiveType ==
  ASSUME TypeOK, ClosureExact, NEW t \in Existing
  PROVE  /\ EffectiveRole(t) \in Roles \cup {None}
         /\ EffectiveChallenge(t) \in Challenges \cup {None}
         /\ EffectiveChallenge(t) = None => topic[t].challenge = None
<1>1. /\ topic \in [Existing -> Row]
      /\ closure \subseteq Topics \X Topics \X Nat
  BY TypeOKEquiv
<1>2. t \in Chain(t) /\ Chain(t) \subseteq Existing
  BY ChainOfChild
<1>3. \/ /\ EffectiveRole(t) = None
         /\ \A a \in Chain(t) \cap Chain(t) : RoleOf[a] = None
      \/ \E a \in Chain(t) \cap Chain(t) :
           RoleOf[a] # None /\ EffectiveRole(t) = RoleOf[a]
  BY <1>1, NearestIsCarried DEF EffectiveRole
<1>4. \/ /\ EffectiveChallenge(t) = None
         /\ \A a \in Chain(t) \cap Chain(t) : ChallengeOf[a] = None
      \/ \E a \in Chain(t) \cap Chain(t) :
           ChallengeOf[a] # None /\ EffectiveChallenge(t) = ChallengeOf[a]
  BY <1>1, NearestIsCarried DEF EffectiveChallenge
<1>5. \A a \in Existing : /\ RoleOf[a] \in Roles \cup {None}
                          /\ ChallengeOf[a] \in Challenges \cup {None}
                          /\ ChallengeOf[a] = topic[a].challenge
  BY <1>1 DEF RoleOf, ChallengeOf, Row
<1>6. QED BY <1>2, <1>3, <1>4, <1>5

LEMMA InitIInv == Init => IInv
<1> SUFFICES ASSUME Init
             PROVE  IInv
  OBVIOUS
<1> USE AbsentAssumption, CategoryAssumption DEF Init
<1>1. Existing = DOMAIN Category
  BY DEF Existing
<1>2. \A c \in DOMAIN Category :
        topic[c] = [parent |-> CategoryParent[c], challenge |-> None,
                    role |-> None, author |-> None, locked |-> FALSE,
                    deleted |-> FALSE]
  BY DEF ImportedRow, NewRow
<1>3. topic \in [Existing -> Row]
  BY <1>1 DEF ImportedRow, NewRow, Row
<1>4. closure \subseteq Topics \X Topics \X Nat
  OBVIOUS
<1>5. request \in [Requests -> Request \cup {Idle}]
  OBVIOUS
<1>6. TypeOK
  BY <1>1, <1>3, <1>4, <1>5, TypeOKEquiv
<1>7. ClosureExact
  <2>1. \A row \in closure : row[1] \in Existing /\ row[2] \in Existing
    BY <1>1
  <2>2. ASSUME NEW c \in Existing, CategoryParent[c] = None
        PROVE  RowsOf(c) = {<<c, c, 0>>}
    BY <1>1, <2>2 DEF RowsOf
  <2>3. ASSUME NEW c \in Existing, CategoryParent[c] # None
        PROVE  RowsOf(c) = {<<c, c, 0>>, <<CategoryParent[c], c, 1>>}
    BY <1>1, <2>3 DEF RowsOf
  <2>4. ASSUME NEW c \in Existing, topic[c].parent # None
        PROVE  /\ topic[c].parent \in Existing
               /\ RowsOf(c) = {<<c, c, 0>>} \cup
                    {<<row[1], c, row[3] + 1>> :
                       row \in RowsOf(topic[c].parent)}
    <3> DEFINE p == CategoryParent[c]
    <3>1. topic[c].parent = p /\ p # None /\ p \in Existing
      BY <1>1, <1>2, <2>4
    <3>2. CategoryParent[p] = None
      BY <1>1, <3>1
    <3>3. RowsOf(p) = {<<p, p, 0>>}
      BY <2>2, <3>1, <3>2
    <3>4. {<<row[1], c, row[3] + 1>> : row \in RowsOf(p)} = {<<p, c, 1>>}
      BY <3>3
    <3>5. RowsOf(c) = {<<c, c, 0>>, <<p, c, 1>>}
      BY <2>3, <3>1
    <3>6. QED BY <3>1, <3>4, <3>5
  <2>5. \A c \in Existing : topic[c].parent = CategoryParent[c]
    BY <1>1, <1>2
  <2>6. QED BY <2>1, <2>2, <2>4, <2>5 DEF ClosureExact
<1>8. ChallengeTopicsStandAlone
  <2>1. \A c \in Existing : /\ topic[c].challenge = None
                            /\ topic[c].parent \in Existing \cup {None}
    BY <1>1, <1>2
  <2>2. QED BY <2>1 DEF ChallengeTopicsStandAlone
<1>9. RequestInv
  BY DEF RequestInv, Knows
<1>10. QED BY <1>6, <1>7, <1>8, <1>9 DEF IInv

\* A row that keeps the parent and challenge columns, with the closure table
\* unchanged, keeps what IInv says of the tables.
LEMMA UpdateKeepsTables ==
  ASSUME IInv, NEW t \in Existing, NEW row \in Row,
         row.parent = topic[t].parent, row.challenge = topic[t].challenge,
         topic' = [topic EXCEPT ![t] = row], UNCHANGED closure
  PROVE  /\ Existing' = Existing /\ topic' \in [Existing -> Row]
         /\ ClosureExact' /\ ChallengeTopicsStandAlone'
         /\ \A x \in Existing : topic'[x].challenge = topic[x].challenge
<1>1. topic \in [Existing -> Row]
  BY TypeOKEquiv DEF IInv
<1>2. Existing' = Existing /\ topic' \in [Existing -> Row]
  BY <1>1 DEF Existing
<1>3. \A x \in Existing : /\ topic'[x].parent = topic[x].parent
                          /\ topic'[x].challenge = topic[x].challenge
  BY <1>1
<1>4. \A x : RowsOf(x)' = RowsOf(x)
  BY DEF RowsOf
<1>5. ClosureExact'
  BY <1>2, <1>3, <1>4 DEF IInv, ClosureExact
<1>6. ChallengeTopicsStandAlone'
  <2>1. \A x \in Existing : topic[x].parent # None => topic[x].parent \in Existing
    BY DEF IInv, ClosureExact
  <2>2. QED BY <1>2, <1>3, <2>1 DEF IInv, ChallengeTopicsStandAlone
<1>7. QED BY <1>2, <1>3, <1>5, <1>6

\* A new row, at the root or under an existing topic without a challenge, with
\* the closure rows createTopic writes.
LEMMA InsertKeepsTables ==
  ASSUME IInv, NEW t \in Topics \ Existing, NEW row \in Row,
         \/ row.parent = None
         \/ /\ row.parent \in Existing
            /\ row.challenge = None /\ topic[row.parent].challenge = None,
         InsertTopic(t, row), CreateClosureRows(t, row.parent)
  PROVE  /\ Existing' = Existing \cup {t}
         /\ Existing' \subseteq Topics
         /\ topic' \in [Existing' -> Row]
         /\ closure' \subseteq Topics \X Topics \X Nat
         /\ ClosureExact' /\ ChallengeTopicsStandAlone'
         /\ \A x \in Existing : topic'[x] = topic[x]
<1> DEFINE p == row.parent
<1>1. /\ Existing \subseteq Topics /\ topic \in [Existing -> Row]
      /\ closure \subseteq Topics \X Topics \X Nat
  BY TypeOKEquiv DEF IInv
<1>2. /\ Existing' = Existing \cup {t}
      /\ topic' \in [Existing' -> Row]
      /\ topic'[t] = row
      /\ \A x \in Existing : topic'[x] = topic[x]
  BY <1>1 DEF InsertTopic, Existing
<1>3. \A x \in closure : x[1] \in Existing /\ x[2] \in Existing
  BY DEF IInv, ClosureExact
<1>4. closure' = closure \cup {<<t, t, 0>>}
                         \cup {<<x[1], t, x[3] + 1>> : x \in RowsOf(p)}
  BY DEF CreateClosureRows
<1>5. \A x \in RowsOf(p) : /\ x \in closure
                           /\ x[1] \in Existing /\ x[3] \in Nat
  BY <1>1, <1>3 DEF RowsOf
<1>6. closure' \subseteq Topics \X Topics \X Nat
  BY <1>1, <1>4, <1>5
<1>7. ASSUME NEW u \in Existing
      PROVE  RowsOf(u)' = RowsOf(u)
  <2>1. u # t
    OBVIOUS
  <2>2. QED BY <1>4, <2>1 DEF RowsOf
<1>8. RowsOf(t) = {}
  BY <1>3 DEF RowsOf
<1>9. RowsOf(t)' = {<<t, t, 0>>} \cup {<<x[1], t, x[3] + 1>> : x \in RowsOf(p)}
  BY <1>4, <1>8 DEF RowsOf
<1>10. p = None => RowsOf(p) = {}
  BY <1>1, <1>3, AbsentAssumption DEF RowsOf
<1>11. ClosureExact'
  <2>1. \A x \in closure' : x[1] \in Existing' /\ x[2] \in Existing'
    BY <1>2, <1>3, <1>4, <1>5
  <2> DEFINE Exact(u) ==
        IF topic[u].parent = None THEN RowsOf(u) = {<<u, u, 0>>}
        ELSE /\ topic[u].parent \in Existing
             /\ RowsOf(u) = {<<u, u, 0>>} \cup
                  {<<x[1], u, x[3] + 1>> : x \in RowsOf(topic[u].parent)}
  <2>2. ASSUME NEW u \in Existing
        PROVE  Exact(u)'
    <3> DEFINE pu == topic[u].parent
    <3>1. Exact(u)
      BY DEF IInv, ClosureExact
    <3>2. pu' = pu /\ RowsOf(u)' = RowsOf(u)
      BY <1>2, <1>7
    <3>3. CASE pu = None
      BY <3>1, <3>2, <3>3
    <3>4. CASE pu # None
      <4>1. pu \in Existing /\ pu \in Existing'
        BY <1>2, <3>1, <3>4
      <4>2. {x \in closure' : x[2] = pu} = RowsOf(pu)
        BY <1>7, <4>1 DEF RowsOf
      <4>3. RowsOf(pu)' = RowsOf(pu)
        BY <3>2, <4>2 DEF RowsOf
      <4>4. QED BY <3>1, <3>2, <3>4, <4>1, <4>3
    <3>5. QED BY <3>3, <3>4
  <2>3. Exact(t)'
    <3>1. (topic[t].parent)' = p
      BY <1>2
    <3>2. CASE p = None
      BY <1>9, <1>10, <3>1, <3>2
    <3>3. CASE p # None
      <4>1. p \in Existing /\ p \in Existing'
        BY <1>2, <3>3
      <4>2. {x \in closure' : x[2] = p} = RowsOf(p)
        BY <1>7, <4>1 DEF RowsOf
      <4>3. RowsOf(topic[t].parent)' = RowsOf(p)
        BY <3>1, <4>2 DEF RowsOf
      <4>4. QED BY <1>9, <3>1, <3>3, <4>1, <4>3
    <3>4. QED BY <3>2, <3>3
  <2>4. \A u \in Existing' : Exact(u)'
    BY <1>2, <2>2, <2>3
  <2>5. QED BY <2>1, <2>4 DEF ClosureExact
<1>12. ChallengeTopicsStandAlone'
  <2>1. \A u \in Existing :
          /\ topic[u].parent # None => topic[u].parent \in Existing
          /\ topic[u].parent # None =>
               /\ topic[u].challenge = None
               /\ topic[topic[u].parent].challenge = None
    BY DEF IInv, ClosureExact, ChallengeTopicsStandAlone
  <2>2. QED BY <1>2, <2>1 DEF ChallengeTopicsStandAlone
<1>13. QED BY <1>1, <1>2, <1>6, <1>11, <1>12

\* A step that grows or updates the tables and gives request r its new record.
LEMMA StepKeepsRequests ==
  ASSUME IInv, NEW r \in Requests, NEW q \in Request \cup {Idle},
         request' = [request EXCEPT ![r] = q],
         Existing \subseteq Existing',
         \A x \in Existing : topic'[x].challenge = topic[x].challenge,
         Knows(q)
  PROVE  /\ request' \in [Requests -> Request \cup {Idle}]
         /\ RequestInv'
<1>1. request \in [Requests -> Request \cup {Idle}]
  BY TypeOKEquiv DEF IInv
<1>2. request' \in [Requests -> Request \cup {Idle}]
  BY <1>1
<1>3. \A s \in Requests : request'[s] = IF s = r THEN q ELSE request[s]
  BY <1>1
<1>4. ASSUME NEW s \in Requests
      PROVE  Knows(request[s])'
  <2>1. Knows(request[s])
    BY DEF IInv, RequestInv
  <2>2. CASE s = r
    BY <1>3, <2>2 DEF Knows
  <2>3. CASE s # r
    BY <1>3, <2>1, <2>3 DEF Knows
  <2>4. QED BY <2>2, <2>3
<1>5. QED BY <1>2, <1>4 DEF RequestInv

\* A step of one request that leaves the tables alone
LEMMA ReadKeepsIInv ==
  ASSUME IInv, NEW r \in Requests, NEW q \in Request \cup {Idle},
         request' = [request EXCEPT ![r] = q], Knows(q),
         UNCHANGED <<topic, closure>>
  PROVE  IInv'
<1>1. /\ Existing \subseteq Topics /\ topic \in [Existing -> Row]
      /\ closure \subseteq Topics \X Topics \X Nat
  BY TypeOKEquiv DEF IInv
<1>2. Existing' = Existing
  BY DEF Existing
<1>3. request' \in [Requests -> Request \cup {Idle}] /\ RequestInv'
  BY <1>2, StepKeepsRequests
<1>4. TypeOK'
  <2>1. topic' \in [Existing' -> Row]
    BY <1>1, <1>2
  <2>2. Existing' \subseteq Topics /\ closure' \subseteq Topics \X Topics \X Nat
    BY <1>1, <1>2
  <2>3. \E S \in SUBSET Topics : topic' \in [S -> Row]
    BY <2>1, <2>2
  <2>4. QED BY <1>3, <2>2, <2>3 DEF TypeOK
<1>5. \A x : RowsOf(x)' = RowsOf(x)
  BY DEF RowsOf
<1>6. ClosureExact'
  BY <1>2, <1>5 DEF IInv, ClosureExact
<1>7. ChallengeTopicsStandAlone'
  BY <1>2 DEF IInv, ChallengeTopicsStandAlone
<1>8. QED BY <1>3, <1>4, <1>6, <1>7 DEF IInv

\* Once the policy accepted it, a request is well typed and knows its part.
LEMMA DecidedKnows ==
  ASSUME IInv, NEW r \in Requests, request[r].pc = "loaded",
         Allowed(request[r])
  PROVE  Decided(request[r]) \in Request /\ Knows(Decided(request[r]))
<1> DEFINE q == request[r]
           t == q.target
<1>1. q \in Request
  BY TypeOKEquiv DEF IInv, Idle
<1>2. t \in Existing
  BY DEF IInv, RequestInv, Knows, Idle
<1>3. /\ EffectiveRole(t) \in Roles \cup {None}
      /\ EffectiveChallenge(t) \in Challenges \cup {None}
      /\ EffectiveChallenge(t) = None => topic[t].challenge = None
  BY <1>2, EffectiveType DEF IInv
<1>4. /\ Inherited(EffectiveChallenge(t), q.challenge)
           \in Challenges \cup {None, Omitted}
      /\ Inherited(EffectiveRole(t), q.role) \in Roles \cup {None}
  BY <1>1, <1>3 DEF Request, Inherited
<1> HIDE DEF t
<1>5. CASE q.op = "createChild"
  <2>1. Inherited(EffectiveChallenge(t), q.challenge) = None
    BY <1>5 DEF Allowed, CreateChildAllowed, CanCreateChildTopic,
                Unconflicted, t
  <2>2. EffectiveChallenge(t) = None
    BY <2>1 DEF Inherited
  <2>3. Decided(q) =
          [q EXCEPT !.pc = "decided", !.locked = FALSE, !.challenge = None,
                    !.role = Inherited(EffectiveRole(t), q.role)]
    BY <1>1, <1>5, <2>1 DEF Decided, Request, t
  <2> DEFINE d == [q EXCEPT !.pc = "decided", !.locked = FALSE,
                            !.challenge = None,
                            !.role = Inherited(EffectiveRole(t), q.role)]
  <2>4. d \in Request
    BY <1>1, <1>4 DEF Request
  <2>5. /\ d.target = t /\ d.challenge = None
        /\ d.role = Inherited(EffectiveRole(t), q.role)
    BY <1>1 DEF Request, t
  <2>6. Knows(d)
    BY <1>2, <1>3, <1>4, <2>2, <2>5 DEF Knows, t
  <2>7. QED BY <2>3, <2>4, <2>6
<1>6. CASE q.op # "createChild"
  <2>1. Decided(q) = [q EXCEPT !.pc = "decided", !.locked = FALSE]
    BY <1>1, <1>6 DEF Decided, Request
  <2>2. Decided(q) \in Request
    BY <1>1, <2>1 DEF Request
  <2>3. Decided(q).op = q.op /\ Decided(q).target = q.target
    BY <1>1, <2>1 DEF Request
  <2>4. QED BY <1>2, <1>6, <2>2, <2>3 DEF Knows, t
<1>7. QED BY <1>5, <1>6

LEMMA NextIInv == IInv /\ [Next]_vars => IInv'
<1> SUFFICES ASSUME IInv, [Next]_vars
             PROVE  IInv'
  OBVIOUS
<1> USE DEF Idle
<1>1. /\ Existing \subseteq Topics
      /\ topic \in [Existing -> Row]
      /\ closure \subseteq Topics \X Topics \X Nat
      /\ request \in [Requests -> Request \cup {Idle}]
  BY TypeOKEquiv DEF IInv
<1>2. \A r \in Requests : request[r].pc # "idle" => request[r] \in Request
  BY <1>1
<1>3. \A r \in Requests : Knows(request[r])
  BY DEF IInv, RequestInv
<1>4. Knows(Idle)
  BY DEF Knows
<1>5. ASSUME NEW a \in Actors, NEW t \in Topics,
             NEW challenge \in Challenges \cup {None},
             NEW role \in Roles \cup {None},
             CreateRoot(a, t, challenge, role)
      PROVE  IInv'
  <2> DEFINE row == NewRow(None, challenge, role, Author(Principal[a]))
  <2>1. Principal[a] \in PrincipalRecord
    BY PrincipalAssumption
  <2>2. Author(Principal[a]) \in Actors \cup {None}
    BY <2>1 DEF Author, PrincipalRecord
  <2>3. row \in Row /\ row.parent = None
    BY <2>2 DEF NewRow, Row
  <2>4. /\ t \in Topics \ Existing
        /\ InsertTopic(t, row) /\ CreateClosureRows(t, row.parent)
        /\ UNCHANGED request
    BY <1>5, <2>3 DEF CreateRoot
  <2> HIDE DEF row
  <2>5. /\ Existing' = Existing \cup {t}
        /\ Existing' \subseteq Topics
        /\ topic' \in [Existing' -> Row]
        /\ closure' \subseteq Topics \X Topics \X Nat
        /\ ClosureExact' /\ ChallengeTopicsStandAlone'
        /\ \A x \in Existing : topic'[x] = topic[x]
    BY <2>3, <2>4, InsertKeepsTables
  <2>6. RequestInv'
    BY <1>3, <2>4, <2>5 DEF RequestInv, Knows
  <2>7. TypeOK'
    BY <1>1, <2>4, <2>5 DEF TypeOK
  <2>8. QED BY <2>5, <2>6, <2>7 DEF IInv
<1>6. ASSUME NEW r \in Requests, NEW op \in Commands, NEW a \in Actors,
             NEW t \in Topics, NEW challenge \in Challenges \cup {Omitted},
             NEW role \in Roles \cup {None, Omitted},
             LoadTopic(r, op, a, t, challenge, role)
      PROVE  IInv'
  <2>1. CASE t \in Existing /\ ~topic[t].deleted
    <3> DEFINE q == [pc |-> "loaded", op |-> op, actor |-> a, target |-> t,
                     challenge |-> challenge, role |-> role,
                     locked |-> topic[t].locked]
    <3>1. topic[t].locked \in BOOLEAN
      BY <1>1, <2>1 DEF Row
    <3>2. q \in Request
      BY <3>1, CommandAssumption DEF Request
    <3>3. Knows(q)
      BY <2>1 DEF Knows
    <3>4. /\ request' = [request EXCEPT ![r] = q]
          /\ UNCHANGED <<topic, closure>>
      BY <1>6, <2>1 DEF LoadTopic
    <3>5. QED BY <3>2, <3>3, <3>4, ReadKeepsIInv
  <2>2. CASE ~(t \in Existing /\ ~topic[t].deleted)
    <3>1. UNCHANGED <<topic, closure, request>>
      BY <1>6, <2>2 DEF LoadTopic
    <3>2. request' = [request EXCEPT ![r] = request[r]]
      BY <1>1, <3>1
    <3>3. QED BY <1>1, <1>3, <3>1, <3>2, ReadKeepsIInv
  <2>3. QED BY <2>1, <2>2
<1>7. ASSUME NEW r \in Requests, Decide(r)
      PROVE  IInv'
  <2>1. CASE Allowed(request[r])
    <3>1. Decided(request[r]) \in Request /\ Knows(Decided(request[r]))
      BY <1>7, <2>1, DecidedKnows DEF Decide
    <3>2. /\ request' = [request EXCEPT ![r] = Decided(request[r])]
          /\ UNCHANGED <<topic, closure>>
      BY <1>7, <2>1 DEF Decide
    <3>3. QED BY <3>1, <3>2, ReadKeepsIInv
  <2>2. CASE ~Allowed(request[r])
    <3>1. request' = [request EXCEPT ![r] = Idle] /\ UNCHANGED <<topic, closure>>
      BY <1>7, <2>2 DEF Decide
    <3>2. QED BY <1>4, <3>1, ReadKeepsIInv
  <2>3. QED BY <2>1, <2>2
<1>8. ASSUME NEW r \in Requests, NEW pc \in {"checked", "active"},
             request[r].pc # "idle", request[r].pc # "loaded",
             \/ request' = [request EXCEPT ![r] = Idle]
             \/ request' = [request EXCEPT ![r] = [request[r] EXCEPT !.pc = pc]],
             UNCHANGED <<topic, closure>>
      PROVE  IInv'
  <2> DEFINE q == [request[r] EXCEPT !.pc = pc]
  <2>1. q \in Request
    BY <1>2, <1>8 DEF Request
  <2>2. Knows(q)
    BY <1>2, <1>3, <1>8 DEF Knows, Request
  <2> HIDE DEF q
  <2>3. CASE request' = [request EXCEPT ![r] = q]
    BY <1>8, <2>1, <2>2, <2>3, ReadKeepsIInv
  <2>4. CASE request' = [request EXCEPT ![r] = Idle]
    BY <1>4, <1>8, <2>4, ReadKeepsIInv
  <2>5. QED BY <1>8, <2>3, <2>4 DEF q
<1>9. ASSUME NEW r \in Requests, CheckDescendants(r)
      PROVE  IInv'
  BY <1>8, <1>9 DEF CheckDescendants
<1>10. ASSUME NEW r \in Requests, EnsureActive(r)
       PROVE  IInv'
  BY <1>8, <1>10 DEF EnsureActive
<1>11. ASSUME NEW r \in Requests, NEW t \in Topics, CommitCreateChild(r, t)
       PROVE  IInv'
  <2> DEFINE q == request[r]
             row == NewRow(q.target, q.challenge, q.role,
                           Author(Principal[q.actor]))
  <2>1. /\ q \in Request /\ q.pc = "active" /\ q.op = "createChild"
        /\ t \in Topics \ Existing
        /\ InsertTopic(t, row) /\ CreateClosureRows(t, q.target)
        /\ request' = [request EXCEPT ![r] = Idle]
    BY <1>2, <1>11 DEF CommitCreateChild, Finish
  <2>2. /\ q.target \in Existing /\ q.challenge = None
        /\ q.role \in Roles \cup {None} /\ topic[q.target].challenge = None
    BY <1>3, <2>1 DEF Knows
  <2>3. Author(Principal[q.actor]) \in Actors \cup {None}
    BY <2>1, PrincipalAssumption DEF Author, PrincipalRecord, Request
  <2>4. row \in Row /\ row.parent = q.target /\ row.challenge = None
    BY <1>1, <2>2, <2>3 DEF NewRow, Row
  <2> HIDE DEF row
  <2>5. /\ Existing' = Existing \cup {t}
        /\ Existing' \subseteq Topics
        /\ topic' \in [Existing' -> Row]
        /\ closure' \subseteq Topics \X Topics \X Nat
        /\ ClosureExact' /\ ChallengeTopicsStandAlone'
        /\ \A x \in Existing : topic'[x] = topic[x]
    BY <2>1, <2>2, <2>4, InsertKeepsTables
  <2>6. request' \in [Requests -> Request \cup {Idle}] /\ RequestInv'
    BY <1>4, <2>1, <2>5, StepKeepsRequests
  <2>7. TypeOK'
    BY <2>5, <2>6 DEF TypeOK
  <2>8. QED BY <2>5, <2>6, <2>7 DEF IInv
<1>12. ASSUME NEW r \in Requests, NEW row \in Row, request[r] \in Request,
              row.parent = topic[request[r].target].parent,
              row.challenge = topic[request[r].target].challenge,
              topic' = [topic EXCEPT ![request[r].target] = row],
              UNCHANGED closure, Finish(r)
       PROVE  IInv'
  <2>1. request[r].target \in Existing
    BY <1>3, <1>12 DEF Knows, Request
  <2>2. /\ Existing' = Existing /\ topic' \in [Existing -> Row]
        /\ ClosureExact' /\ ChallengeTopicsStandAlone'
        /\ \A x \in Existing : topic'[x].challenge = topic[x].challenge
    BY <1>12, <2>1, UpdateKeepsTables
  <2>3. request' \in [Requests -> Request \cup {Idle}] /\ RequestInv'
    BY <1>4, <1>12, <2>2, StepKeepsRequests DEF Finish
  <2>4. TypeOK'
    BY <1>1, <1>12, <2>2, <2>3 DEF TypeOK
  <2>5. QED BY <2>2, <2>3, <2>4 DEF IInv
<1>13. ASSUME NEW r \in Requests, request[r].pc # "idle"
       PROVE  /\ request[r] \in Request
              /\ topic[request[r].target] \in Row
  BY <1>1, <1>2, <1>3, <1>13 DEF Knows
<1>14. ASSUME NEW r \in Requests, CommitUpdate(r)
       PROVE  IInv'
  <2> DEFINE q == request[r]
             row == [topic[q.target] EXCEPT
                       !.role = IF q.role = Omitted THEN @ ELSE q.role]
  <2>1. q \in Request /\ topic[q.target] \in Row
    BY <1>13, <1>14 DEF CommitUpdate
  <2>2. row \in Row /\ row.parent = topic[q.target].parent
        /\ row.challenge = topic[q.target].challenge
    BY <2>1 DEF Row, Request
  <2>3. topic' = [topic EXCEPT ![q.target] = row]
    BY <1>14 DEF CommitUpdate
  <2> HIDE DEF row
  <2>4. QED BY <1>12, <1>14, <2>1, <2>2, <2>3 DEF CommitUpdate
<1>15. ASSUME NEW r \in Requests, CommitSoftDelete(r)
       PROVE  IInv'
  <2> DEFINE q == request[r]
             row == [topic[q.target] EXCEPT !.deleted = TRUE]
  <2>1. q \in Request /\ topic[q.target] \in Row
    BY <1>13, <1>15 DEF CommitSoftDelete
  <2>2. row \in Row /\ row.parent = topic[q.target].parent
        /\ row.challenge = topic[q.target].challenge
    BY <2>1 DEF Row
  <2>3. topic' = [topic EXCEPT ![q.target] = row]
    BY <1>15 DEF CommitSoftDelete
  <2> HIDE DEF row
  <2>4. QED BY <1>12, <1>15, <2>1, <2>2, <2>3 DEF CommitSoftDelete
<1>16. ASSUME NEW r \in Requests, SetLock(r)
       PROVE  IInv'
  <2> DEFINE q == request[r]
             row == [topic[q.target] EXCEPT !.locked = (q.op = "lock")]
  <2>1. q \in Request /\ topic[q.target] \in Row
    BY <1>13, <1>16 DEF SetLock
  <2>2. row \in Row /\ row.parent = topic[q.target].parent
        /\ row.challenge = topic[q.target].challenge
    BY <2>1 DEF Row
  <2>3. topic' = [topic EXCEPT ![q.target] = row]
    BY <1>16 DEF SetLock
  <2> HIDE DEF row
  <2>4. QED BY <1>12, <1>16, <2>1, <2>2, <2>3 DEF SetLock
<1>17. ASSUME NEW r \in Requests, Fail(r)
       PROVE  IInv'
  BY <1>4, <1>17, ReadKeepsIInv DEF Fail, Finish
<1>18. ASSUME UNCHANGED vars
       PROVE  IInv'
  <2>1. Existing' = Existing /\ \A x : RowsOf(x)' = RowsOf(x)
    BY <1>18 DEF vars, Existing, RowsOf
  <2>2. TypeOK'
    BY <1>18 DEF IInv, TypeOK, vars
  <2>3. ClosureExact'
    BY <1>18, <2>1 DEF IInv, ClosureExact, vars
  <2>4. ChallengeTopicsStandAlone' /\ RequestInv'
    BY <1>18, <2>1 DEF IInv, ChallengeTopicsStandAlone, RequestInv, Knows, vars
  <2>5. QED BY <2>2, <2>3, <2>4 DEF IInv
<1>19. QED
  BY <1>5, <1>6, <1>7, <1>9, <1>10, <1>11, <1>14, <1>15, <1>16, <1>17, <1>18
  DEF Next

-----------------------------------------------------------------------------
(* Theorems                                                                *)

LEMMA InductiveInvariant == Spec => []IInv
<1>1. QED BY InitIInv, NextIInv, PTL DEF Spec

\* The tables and requests keep their types, whatever requests race.
THEOREM TypeCorrect == Spec => []TypeOK
<1>1. IInv => TypeOK
  BY DEF IInv
<1>2. QED BY <1>1, InductiveInvariant, PTL

\* createClosureRows inside the creating transaction keeps the closure table
\* the exact closure of the parent column.
THEOREM ClosureIsExact == Spec => []ClosureExact
<1>1. IInv => ClosureExact
  BY DEF IInv
<1>2. QED BY <1>1, InductiveInvariant, PTL

\* Challenge topics are roots without children, although the parent's challenge
\* is read long before the child is written.
THEOREM ChallengeTopicsAreAlone == Spec => []ChallengeTopicsStandAlone
<1>1. IInv => ChallengeTopicsStandAlone
  BY DEF IInv
<1>2. QED BY <1>1, InductiveInvariant, PTL

\* No reader sees a topic below one hidden from them, for any mix of deletions,
\* category rules, roles and racing role updates.
THEOREM VisibilityIsMonotone == Spec => []VisibilityMonotone
<1>1. IInv => VisibilityMonotone
  BY TypeOKEquiv, ExactClosureHides DEF IInv
<1>2. QED BY <1>1, InductiveInvariant, PTL

\* A transaction passes its own check only on a visible tree.
THEOREM WritersStayOutOfHiddenTrees == Spec => NoWriterEntersHiddenTree
<1> DEFINE Enters(r) == request[r].pc # "active" /\ request'[r].pc = "active"
<1>1. ASSUME IInv, [Next]_vars, NEW r \in Requests, Enters(r)
      PROVE  Active(request'[r].target)
  <2>1. request \in [Requests -> Request \cup {Idle}]
    BY <1>1, TypeOKEquiv DEF IInv
  <2>2. ASSUME NEW s \in Requests, request'[s].pc # "active",
               \A x \in Requests \ {s} : request'[x] = request[x]
        PROVE  FALSE
    BY <1>1, <2>2
  <2>3. ASSUME NEW s \in Requests, EnsureActive(s)
        PROVE  Active(request'[r].target)
    <3>1. s = r /\ Active(request[s].target)
      BY <1>1, <2>1, <2>3 DEF EnsureActive, Idle
    <3>2. request[s] \in Request
      BY <2>1, <2>3 DEF EnsureActive, Idle
    <3>3. request'[r].target = request[r].target
      BY <2>1, <2>3, <3>1, <3>2 DEF EnsureActive, Request
    <3>4. QED BY <3>1, <3>3
  <2>4. ASSUME NEW s \in Requests, Decide(s)
        PROVE  FALSE
    <3>1. request[s] \in Request
      BY <2>1, <2>4 DEF Decide, Idle
    <3>2. Decided(request[s]).pc = "decided"
      BY <3>1 DEF Decided, Request
    <3>3. QED BY <2>1, <2>2, <2>4, <3>2 DEF Decide, Idle
  <2>5. ASSUME NEW s \in Requests, CheckDescendants(s)
        PROVE  FALSE
    <3>1. request[s] \in Request
      BY <2>1, <2>5 DEF CheckDescendants, Idle
    <3>2. [request[s] EXCEPT !.pc = "checked"].pc = "checked"
      BY <3>1 DEF Request
    <3>3. QED BY <2>1, <2>2, <2>5, <3>2 DEF CheckDescendants, Idle
  <2>6. ASSUME NEW s \in Requests, Finish(s)
        PROVE  FALSE
    BY <2>1, <2>2, <2>6 DEF Finish, Idle
  <2>7. ASSUME UNCHANGED request
        PROVE  FALSE
    BY <1>1, <2>7
  <2>8. ASSUME NEW s \in Requests, NEW op, NEW a, NEW t, NEW c, NEW role,
               LoadTopic(s, op, a, t, c, role)
        PROVE  FALSE
    BY <2>1, <2>2, <2>7, <2>8 DEF LoadTopic
  <2>9. QED
    BY <1>1, <2>3, <2>4, <2>5, <2>6, <2>7, <2>8
    DEF Next, vars, CreateRoot, CommitCreateChild, CommitUpdate,
        CommitSoftDelete, SetLock, Fail
<1>2. IInv /\ [Next]_vars =>
        [\A r \in Requests : Enters(r) => Active(request'[r].target)]_vars
  BY <1>1
<1>3. QED BY <1>2, InductiveInvariant, PTL DEF Spec, NoWriterEntersHiddenTree

-----------------------------------------------------------------------------
(* Threads under categories                                                *)

\* What the policy found before a child was accepted: a managed target is a
\* category that takes discussions.  Closure rows of a topic never change, so
\* it stays true until the child is written.
TakesThreads(t) ==
  Managed(Acl(t)) => IsCategory(t) /\ Category[t].discussions

AcceptsThread(q) ==
  q # Idle /\ q.op = "createChild" /\ q.pc # "loaded" => TakesThreads(q.target)

LeavesInv ==
  IInv /\ ThreadsAreLeaves /\ \A r \in Requests : AcceptsThread(request[r])

\* The rules nearest to a category are its own.
LEMMA NearestOfCategory ==
  ASSUME TypeOK, ClosureExact, NEW t \in Existing, IsCategory(t)
  PROVE  Acl(t).nearest = Category[t]
<1> DEFINE rows == {row \in RowsOf(t) : IsCategory(row[1])}
<1>1. closure \subseteq Topics \X Topics \X Nat
  BY TypeOKEquiv
<1>2. \A row \in rows : row[3] \in Nat
  BY <1>1 DEF RowsOf
<1>3. <<t, t, 0>> \in RowsOf(t)
  BY DEF ClosureExact
<1>4. <<t, t, 0>> \in rows /\ <<t, t, 0>>[3] = 0
  BY <1>3
<1>5. ASSUME NEW row \in rows, row[3] = 0
      PROVE  row[1] = t
  <2>1. row \in RowsOf(t)
    OBVIOUS
  <2>2. row = <<t, t, 0>> \/ \E up \in RowsOf(topic[t].parent) :
                               row = <<up[1], t, up[3] + 1>>
    BY <2>1 DEF ClosureExact
  <2>3. \A up \in RowsOf(topic[t].parent) : up[3] \in Nat
    BY <1>1 DEF RowsOf
  <2> QED
    BY <1>5, <2>2, <2>3
<1> HIDE DEF rows
<1>6. Closest(rows) \in rows
  BY <1>2, <1>4, ClosestIsThere
<1>7. \A row \in rows : Closest(rows)[3] <= row[3]
  <2>1. \E row \in rows : \A other \in rows : row[3] <= other[3]
    <3> DEFINE depths == {row[3] : row \in rows}
    <3>1. depths \subseteq Nat /\ depths # {}
      BY <1>2, <1>4
    <3>2. PICK m \in depths : \A n \in depths : m <= n
      BY <3>1, NatMinimum
    <3> QED
      BY <3>2
  <2> QED
    BY <2>1 DEF Closest
<1>8. Closest(rows)[3] = 0
  BY <1>2, <1>4, <1>6, <1>7
<1>9. Closest(rows)[1] = t
  BY <1>5, <1>6, <1>8
<1> QED
  BY <1>4, <1>9 DEF Acl, rows

\* Nothing takes a topic out of the tree or moves it.
LEMMA TablesOnlyGrow ==
  ASSUME IInv, [Next]_vars, NEW u \in Existing
  PROVE  /\ u \in Existing' /\ topic'[u].parent = topic[u].parent
         /\ RowsOf(u)' = RowsOf(u)
<1>1. topic \in [Existing -> Row]
  BY TypeOKEquiv DEF IInv
<1>2. ASSUME NEW t, t \notin Existing, NEW row, InsertTopic(t, row),
             NEW parent, CreateClosureRows(t, parent)
      PROVE  /\ u \in Existing' /\ topic'[u].parent = topic[u].parent
             /\ RowsOf(u)' = RowsOf(u)
  <2>1. u # t
    BY <1>2
  <2>2. u \in Existing' /\ topic'[u] = topic[u]
    BY <1>2, <2>1 DEF InsertTopic, Existing
  <2>3. RowsOf(u)' = RowsOf(u)
    BY <1>2, <2>1 DEF CreateClosureRows, RowsOf
  <2> QED
    BY <2>2, <2>3
<1>3. ASSUME UNCHANGED closure, DOMAIN topic' = DOMAIN topic,
             topic'[u].parent = topic[u].parent
      PROVE  /\ u \in Existing' /\ topic'[u].parent = topic[u].parent
             /\ RowsOf(u)' = RowsOf(u)
  BY <1>3 DEF Existing, RowsOf
<1>4. UNCHANGED <<topic, closure>> =>
        DOMAIN topic' = DOMAIN topic /\ topic'[u].parent = topic[u].parent
  OBVIOUS
<1>5. ASSUME NEW t, NEW row, row.parent = topic[t].parent,
             topic' = [topic EXCEPT ![t] = row]
      PROVE  DOMAIN topic' = DOMAIN topic /\ topic'[u].parent = topic[u].parent
  BY <1>1, <1>5 DEF Existing
<1>6. \A r \in Requests : request[r].pc # "idle" => topic[request[r].target] \in Row
  BY <1>1, TypeOKEquiv DEF IInv, RequestInv, Knows, Idle
<1>7. ASSUME NEW r \in Requests,
             CommitUpdate(r) \/ CommitSoftDelete(r) \/ SetLock(r)
      PROVE  /\ UNCHANGED closure /\ DOMAIN topic' = DOMAIN topic
             /\ topic'[u].parent = topic[u].parent
  <2> DEFINE q == request[r]
             old == topic[q.target]
  <2>1. q.pc # "idle"
    BY <1>7 DEF CommitUpdate, CommitSoftDelete, SetLock
  <2>2. old \in Row
    BY <1>6, <2>1
  <2>3. \E row : row.parent = old.parent /\ topic' = [topic EXCEPT ![q.target] = row]
    <3>1. CASE CommitUpdate(r)
      <4> DEFINE row == [old EXCEPT !.role = IF q.role = Omitted THEN @ ELSE q.role]
      <4>1. row.parent = old.parent
        BY <2>2 DEF Row
      <4> QED
        BY <3>1, <4>1 DEF CommitUpdate
    <3>2. CASE CommitSoftDelete(r)
      <4> DEFINE row == [old EXCEPT !.deleted = TRUE]
      <4>1. row.parent = old.parent
        BY <2>2 DEF Row
      <4> QED
        BY <3>2, <4>1 DEF CommitSoftDelete
    <3>3. CASE SetLock(r)
      <4> DEFINE row == [old EXCEPT !.locked = (q.op = "lock")]
      <4>1. row.parent = old.parent
        BY <2>2 DEF Row
      <4> QED
        BY <3>3, <4>1 DEF SetLock
    <3> QED
      BY <1>7, <3>1, <3>2, <3>3
  <2> QED
    BY <1>5, <1>7, <2>3 DEF CommitUpdate, CommitSoftDelete, SetLock
<1> QED
  BY <1>2, <1>3, <1>4, <1>7
     DEF Next, vars, CreateRoot, LoadTopic, Decide, CheckDescendants,
         EnsureActive, CommitCreateChild, Fail

\* The policy accepts a child thread only where threads belong.
LEMMA AllowedTakesThreads ==
  ASSUME IInv, NEW r \in Requests, request[r].pc = "loaded",
         request[r].op = "createChild", Allowed(request[r])
  PROVE  TakesThreads(request[r].target)
<1> DEFINE t == request[r].target
<1>1. t \in Existing
  BY DEF IInv, RequestInv, Knows, Idle
<1>2. AclCreate(Principal[request[r].actor], Acl(t))
  BY DEF Allowed, CreateChildAllowed, CanCreateChildTopic
<1> HIDE DEF t
<1>3. ASSUME Managed(Acl(t)) PROVE IsCategory(t) /\ Category[t].discussions
  <2>1. Acl(t).self /\ Acl(t).nearest.discussions
    BY <1>2, <1>3 DEF AclCreate
  <2>2. IsCategory(t)
    BY <2>1 DEF Acl, NoAcl
  <2>3. Acl(t).nearest = Category[t]
    BY <1>1, <2>2, NearestOfCategory DEF IInv
  <2> QED
    BY <2>1, <2>2, <2>3
<1> QED
  BY <1>3 DEF TakesThreads, t

\* A request keeps what it found, and a decided one has just found it.
LEMMA RequestsAcceptThreads ==
  ASSUME LeavesInv, [Next]_vars, NEW s \in Requests
  PROVE  AcceptsThread(request[s])'
<1>1. /\ request \in [Requests -> Request \cup {Idle}]
      /\ \A r \in Requests : request[r].pc # "idle" => request[r] \in Request
  BY TypeOKEquiv DEF LeavesInv, IInv, Idle
<1>2. \A u \in Existing : TakesThreads(u) => TakesThreads(u)'
  BY TablesOnlyGrow DEF LeavesInv, TakesThreads, Acl
<1>3. \A r \in Requests : request[r] # Idle => request[r].target \in Existing
  BY DEF LeavesInv, IInv, RequestInv, Knows
<1>4. ASSUME request'[s] = request[s] PROVE AcceptsThread(request[s])'
  BY <1>2, <1>3, <1>4 DEF LeavesInv, AcceptsThread
<1>5. ASSUME request'[s] = Idle PROVE AcceptsThread(request[s])'
  BY <1>5 DEF AcceptsThread, Idle
<1>6. ASSUME request'[s].pc = "loaded" PROVE AcceptsThread(request[s])'
  BY <1>6 DEF AcceptsThread
<1>7. ASSUME NEW q, request' = [request EXCEPT ![s] = q], request[s] # Idle,
             q.op = request[s].op, q.target = request[s].target,
             q.op = "createChild" => TakesThreads(q.target)
      PROVE  AcceptsThread(request[s])'
  <2>1. request'[s] = q
    BY <1>1, <1>7
  <2>2. q.op = "createChild" => TakesThreads(q.target)'
    BY <1>2, <1>3, <1>7
  <2> QED
    BY <2>1, <2>2 DEF AcceptsThread
<1>8. ASSUME NEW r \in Requests, Finish(r) PROVE AcceptsThread(request[s])'
  <2>1. request'[s] = Idle \/ request'[s] = request[s]
    BY <1>1, <1>8 DEF Finish
  <2> QED
    BY <1>4, <1>5, <2>1
<1>9. ASSUME NEW r \in Requests, request[r].pc \notin {"idle", "loaded"},
             NEW pc, \/ request' = [request EXCEPT ![r] = Idle]
                     \/ request' = [request EXCEPT ![r] =
                                      [request[r] EXCEPT !.pc = pc]]
      PROVE  AcceptsThread(request[s])'
  <2> DEFINE q == [request[r] EXCEPT !.pc = pc]
  <2>1. q.op = request[r].op /\ q.target = request[r].target
    BY <1>1, <1>9 DEF Request
  <2>2. request[r] # Idle
    BY <1>9 DEF Idle
  <2>3. q.op = "createChild" => TakesThreads(q.target)
    BY <1>9, <2>1, <2>2 DEF LeavesInv, AcceptsThread
  <2> HIDE DEF q
  <2>4. CASE r # s
    BY <1>1, <1>4, <1>9, <2>4
  <2>5. CASE r = s /\ request' = [request EXCEPT ![r] = Idle]
    BY <1>1, <1>5, <2>5
  <2>6. CASE r = s /\ request' = [request EXCEPT ![r] = q]
    BY <1>7, <2>1, <2>2, <2>3, <2>6
  <2> QED
    BY <1>9, <2>4, <2>5, <2>6 DEF q
<1>10. ASSUME NEW r \in Requests, Decide(r) PROVE AcceptsThread(request[s])'
  <2>1. request[r] \in Request /\ request[r].pc = "loaded" /\ request[r] # Idle
    BY <1>1, <1>10 DEF Decide, Idle
  <2>2. /\ Decided(request[r]).op = request[r].op
        /\ Decided(request[r]).target = request[r].target
    BY <2>1 DEF Decided, Request
  <2>3. CASE r # s
    BY <1>1, <1>4, <1>10, <2>3 DEF Decide
  <2>4. CASE r = s /\ ~Allowed(request[r])
    BY <1>1, <1>5, <1>10, <2>4 DEF Decide
  <2>5. CASE r = s /\ Allowed(request[r])
    <3>1. request' = [request EXCEPT ![s] = Decided(request[s])]
      BY <1>10, <2>5 DEF Decide
    <3>2. request[s].op = "createChild" => TakesThreads(request[s].target)
      BY <2>1, <2>5, AllowedTakesThreads DEF LeavesInv
    <3> QED
      BY <1>7, <2>1, <2>2, <2>5, <3>1, <3>2
  <2> QED
    BY <2>3, <2>4, <2>5
<1>11. ASSUME NEW r \in Requests, NEW op, NEW a, NEW t, NEW challenge, NEW role,
              LoadTopic(r, op, a, t, challenge, role)
       PROVE  AcceptsThread(request[s])'
  BY <1>1, <1>4, <1>6, <1>11 DEF LoadTopic
<1>12. ASSUME UNCHANGED request PROVE AcceptsThread(request[s])'
  BY <1>4, <1>12
<1>13. ASSUME NEW r \in Requests, CheckDescendants(r)
       PROVE  AcceptsThread(request[s])'
  BY <1>9, <1>13 DEF CheckDescendants
<1>14. ASSUME NEW r \in Requests, EnsureActive(r)
       PROVE  AcceptsThread(request[s])'
  BY <1>9, <1>14 DEF EnsureActive
<1> QED
  BY <1>8, <1>10, <1>11, <1>12, <1>13, <1>14
     DEF Next, vars, CreateRoot, CommitCreateChild, CommitUpdate,
         CommitSoftDelete, SetLock, Fail

LEMMA NextThreadsAreLeaves == LeavesInv /\ [Next]_vars => ThreadsAreLeaves'
<1> SUFFICES ASSUME LeavesInv, [Next]_vars PROVE ThreadsAreLeaves'
  OBVIOUS
<1> DEFINE Fits(t) ==
      topic[t].parent # None /\ ~IsCategory(t)
        /\ Managed(Acl(topic[t].parent))
      => IsCategory(topic[t].parent) /\ Category[topic[t].parent].discussions
<1>1. \A u \in Existing : Acl(u)' = Acl(u) /\ topic'[u].parent = topic[u].parent
  BY TablesOnlyGrow DEF LeavesInv, Acl
<1>2. ASSUME NEW t \in Existing PROVE Fits(t)'
  <2>1. Fits(t) /\ (topic[t].parent # None => topic[t].parent \in Existing)
    BY DEF LeavesInv, ThreadsAreLeaves, IInv, ClosureExact
  <2>2. topic'[t].parent = topic[t].parent
    BY <1>1
  <2>3. topic[t].parent # None => Acl(topic[t].parent)' = Acl(topic[t].parent)
    BY <1>1, <2>1
  <2> QED
    BY <2>1, <2>2, <2>3
<1>3. ASSUME NEW t \in Existing' \ Existing PROVE Fits(t)'
  <2>1. ASSUME NEW x, NEW parent, NEW challenge, NEW role, NEW author,
               InsertTopic(x, NewRow(parent, challenge, role, author))
        PROVE  x = t /\ topic'[t].parent = parent
    BY <1>3, <2>1 DEF InsertTopic, NewRow, Existing
  <2>2. ASSUME DOMAIN topic' = DOMAIN topic PROVE FALSE
    BY <1>3, <2>2 DEF Existing
  <2>3. topic \in [Existing -> Row]
    BY TypeOKEquiv DEF LeavesInv, IInv
  <2>4. ASSUME NEW x, NEW row, topic' = [topic EXCEPT ![x] = row] PROVE FALSE
    BY <2>2, <2>3, <2>4
  <2>5. CASE topic'[t].parent = None
    BY <2>5
  <2>6. ASSUME NEW r \in Requests, NEW x, CommitCreateChild(r, x)
        PROVE  Fits(t)'
    <3>1. request[r] # Idle /\ request[r].op = "createChild"
          /\ request[r].pc # "loaded"
      BY <2>6 DEF CommitCreateChild, Idle
    <3>2. PICK p \in Existing : p = request[r].target
      BY <3>1 DEF LeavesInv, IInv, RequestInv, Knows
    <3>3. TakesThreads(p)
      BY <3>1, <3>2 DEF LeavesInv, AcceptsThread
    <3>4. topic'[t].parent = p
      BY <2>1, <2>6, <3>2 DEF CommitCreateChild
    <3>5. Acl(p)' = Acl(p)
      BY <1>1
    <3>6. RowsOf(topic[t].parent)' = RowsOf(p)'
      BY <3>4 DEF RowsOf
    <3>7. Acl(topic[t].parent)' = Acl(p)'
      BY <3>4, <3>6 DEF Acl
    <3> QED
      BY <3>3, <3>4, <3>5, <3>7 DEF TakesThreads
  <2>7. ASSUME NEW a, NEW x, NEW challenge, NEW role,
               CreateRoot(a, x, challenge, role)
        PROVE  Fits(t)'
    BY <2>1, <2>5, <2>7 DEF CreateRoot
  <2>8. ASSUME NEW r \in Requests,
               CommitUpdate(r) \/ CommitSoftDelete(r) \/ SetLock(r)
        PROVE  FALSE
    BY <2>2, <2>3, <2>8 DEF CommitUpdate, CommitSoftDelete, SetLock
  <2>9. ASSUME UNCHANGED topic PROVE FALSE
    BY <2>2, <2>9
  <2> QED
    BY <2>6, <2>7, <2>8, <2>9
       DEF Next, vars, LoadTopic, Decide, CheckDescendants, EnsureActive, Fail
<1> QED
  BY <1>2, <1>3 DEF ThreadsAreLeaves

LEMMA LeavesInvariant == Spec => []LeavesInv
<1>1. Init => LeavesInv
  <2> SUFFICES ASSUME Init PROVE LeavesInv
    OBVIOUS
  <2>1. ThreadsAreLeaves
    BY DEF Init, ThreadsAreLeaves, Existing, IsCategory
  <2>2. \A r \in Requests : AcceptsThread(request[r])
    BY DEF Init, AcceptsThread
  <2> QED
    BY <2>1, <2>2, InitIInv DEF LeavesInv
<1>2. LeavesInv /\ [Next]_vars => LeavesInv'
  BY NextIInv, NextThreadsAreLeaves, RequestsAcceptThreads DEF LeavesInv
<1> QED
  BY <1>1, <1>2, PTL DEF Spec

\* Threads stay leaves and containers stay empty of threads, although the rules
\* of the target are read long before the thread is written.
THEOREM ThreadsStayLeaves == Spec => []ThreadsAreLeaves
<1>1. LeavesInv => ThreadsAreLeaves
  BY DEF LeavesInv
<1> QED
  BY <1>1, LeavesInvariant, PTL

-----------------------------------------------------------------------------
(* One command at a time                                                   *)

\* What two racing role updates break holds where commands do not overlap: a
\* request's reads are still true when it writes.
OneAtATime == \A r, s \in Requests : r = s

\* Of two topics on one chain, one is above the other.
ChainsArePaths ==
  \A x \in Existing : \A a, b \in Chain(x) : a \in Chain(b) \/ b \in Chain(a)

RolesFit(t, role) == \A a \in Chain(t) : topic[a].role \in {None, role}

MayMutate(q) ==
  CanMutateLocked(Principal[q.actor], topic[q.target].locked,
                  EffectiveChallenge(q.target), FactsOf(q.actor, q.target))

KnowsAlone(q) ==
  q # Idle =>
    /\ ~topic[q.target].deleted
    /\ q.pc = "loaded" => q.locked = topic[q.target].locked
    /\ q.pc # "loaded" =>
         /\ q.op \in {"createChild", "update"} /\ q.role # Omitted =>
              RolesFit(q.target, q.role)
         /\ q.op \in {"createChild", "update", "softDelete"} => MayMutate(q)
    /\ q.pc \in {"checked", "active"} /\ q.op = "update"
         /\ q.role \notin {None, Omitted} =>
           ~ConflictingDescendant(q.target, q.role)
    /\ q.pc = "active" => Active(q.target)

AloneInv ==
  /\ IInv /\ ChainsArePaths /\ NoRoleConflict
  /\ \A r \in Requests : KnowsAlone(request[r])

\* A chain without conflict agrees with the value the policy computed from it.
LEMMA EffectiveFits ==
  ASSUME IInv, NEW t \in Existing, ~Conflicting(t, RoleOf)
  PROVE  /\ RolesFit(t, EffectiveRole(t))
         /\ AncestorRole(t) # None => AncestorRole(t) = EffectiveRole(t)
<1>1. /\ closure \subseteq Topics \X Topics \X Nat
      /\ t \in Chain(t) /\ Chain(t) \subseteq Existing
  BY TypeOKEquiv, ChainOfChild DEF IInv
<1>2. \A a \in Existing : RoleOf[a] = topic[a].role
  BY DEF RoleOf
<1>3. \/ EffectiveRole(t) = None /\ \A a \in Chain(t) : RoleOf[a] = None
      \/ \E a \in Chain(t) : RoleOf[a] # None /\ EffectiveRole(t) = RoleOf[a]
  BY <1>1, NearestIsCarried DEF EffectiveRole
<1>4. \/ AncestorRole(t) = None
      \/ \E a \in Chain(t) : RoleOf[a] # None /\ AncestorRole(t) = RoleOf[a]
  BY <1>1, NearestIsCarried DEF AncestorRole
<1>5. RolesFit(t, EffectiveRole(t))
  BY <1>1, <1>2, <1>3 DEF Conflicting, RolesFit
<1> QED
  BY <1>1, <1>2, <1>3, <1>4, <1>5 DEF Conflicting

\* Rows that are new or gone elsewhere do not change what a topic's chain says.
LEMMA Undisturbed ==
  ASSUME IInv, NEW u \in Existing, RowsOf(u)' = RowsOf(u),
         \A a \in Existing : a \in Existing' /\ topic'[a] = topic[a]
  PROVE  /\ Chain(u)' = Chain(u)
         /\ Active(u)' <=> Active(u)
         /\ EffectiveChallenge(u)' = EffectiveChallenge(u)
         /\ Conflicting(u, RoleOf)' <=> Conflicting(u, RoleOf)
<1>1. Chain(u) \subseteq Existing /\ Chain(u)' = Chain(u)
  BY ChainOfChild DEF IInv, Chain
<1>2. \A a \in Existing : /\ RoleOf'[a] = RoleOf[a]
                          /\ ChallengeOf'[a] = ChallengeOf[a]
  BY DEF RoleOf, ChallengeOf
<1>3. Active(u)' <=> Active(u)
  BY <1>1 DEF Active, HasDeletedAncestor, Ancestors
<1>4. Conflicting(u, RoleOf)' <=> Conflicting(u, RoleOf)
  BY <1>1, <1>2 DEF Conflicting
<1>5. EffectiveChallenge(u)' = EffectiveChallenge(u)
  <2>1. \A row \in RowsOf(u) : row[1] \in Existing
    BY <1>1 DEF Chain
  <2> DEFINE carriers == {row \in RowsOf(u) : row[1] \in Chain(u)
                                               /\ ChallengeOf[row[1]] # None}
  <2>2. carriers' = carriers
    BY <1>1, <1>2, <2>1
  <2>3. carriers # {} => Closest(carriers)[1] \in Existing
    <3>1. \A row \in carriers : row[3] \in Nat /\ row[1] \in Existing
      BY <2>1, TypeOKEquiv DEF IInv, RowsOf
    <3> HIDE DEF carriers
    <3> QED
      BY <3>1, ClosestIsThere
  <2> HIDE DEF carriers
  <2>4. Closest(carriers)' = Closest(carriers)
    BY <2>2 DEF Closest
  <2> QED
    BY <1>2, <2>2, <2>3, <2>4 DEF EffectiveChallenge, Nearest, carriers
<1> QED
  BY <1>1, <1>3, <1>4, <1>5

\* A step that leaves the rows of existing topics alone leaves true what a
\* request knows of them.
LEMMA AloneStep ==
  ASSUME IInv, NEW r \in Requests, NEW q, request'[r] = q, KnowsAlone(q),
         q # Idle => q.target \in Existing,
         \A a \in Existing : /\ a \in Existing' /\ topic'[a] = topic[a]
                             /\ RowsOf(a)' = RowsOf(a),
         \A row \in closure' : row[1] \in Existing => row \in closure
  PROVE  KnowsAlone(request[r])'
<1>1. CASE q = Idle
  BY <1>1 DEF KnowsAlone, Idle
<1>2. CASE q # Idle
  <2>1. PICK t \in Existing : t = q.target
    BY <1>2
  <2>2. (request[r].target)' = t /\ topic'[t] = topic[t] /\ RowsOf(t)' = RowsOf(t)
    BY <2>1
  <2>3. /\ Chain(t)' = Chain(t) /\ (Active(t)' <=> Active(t))
        /\ EffectiveChallenge(t)' = EffectiveChallenge(t)
    BY <2>2, Undisturbed
  <2>4. RowsOf(request[r].target)' = RowsOf(t)'
    BY <2>2 DEF RowsOf
  <2>5. Chain(request[r].target)' = Chain(t)'
    BY <2>4 DEF Chain
  <2>6. EffectiveChallenge(request[r].target)' = EffectiveChallenge(t)'
    BY <2>4, <2>5 DEF EffectiveChallenge, Nearest
  <2>7. Active(request[r].target)' <=> Active(t)'
    BY <2>2, <2>5 DEF Active, HasDeletedAncestor, Ancestors
  <2>8. MayMutate(q) => MayMutate(request[r])'
    BY <2>1, <2>2, <2>3, <2>6 DEF MayMutate, FactsOf
  <2>9. Chain(t) \subseteq Existing
    BY ChainOfChild DEF IInv
  <2>10. RolesFit(q.target, q.role) => RolesFit(request[r].target, request[r].role)'
    BY <2>1, <2>2, <2>3, <2>5, <2>9 DEF RolesFit
  <2>11. ConflictingDescendant(request[r].target, request[r].role)' =>
           ConflictingDescendant(q.target, q.role)
    <3>1. \A row \in closure : row[2] \in Existing
      BY DEF IInv, ClosureExact
    <3> QED
      BY <2>1, <2>2, <3>1 DEF ConflictingDescendant
  <2> QED
    BY <1>2, <2>1, <2>2, <2>3, <2>7, <2>8, <2>10, <2>11 DEF KnowsAlone
<1> QED
  BY <1>1, <1>2

\* Nor does it disturb the tables' part of AloneInv, but for the new topic.
LEMMA AloneTables ==
  ASSUME IInv, ChainsArePaths, NoRoleConflict,
         \A a \in Existing : /\ a \in Existing' /\ topic'[a] = topic[a]
                             /\ RowsOf(a)' = RowsOf(a)
  PROVE  \A x \in Existing :
           /\ Active(x)' => ~Conflicting(x, RoleOf)'
           /\ \A a, b \in Chain(x)' : a \in Chain(b)' \/ b \in Chain(a)'
<1> TAKE x \in Existing
<1>1. \A a \in Existing : /\ Chain(a)' = Chain(a)
                          /\ Active(a)' <=> Active(a)
                          /\ Conflicting(a, RoleOf)' <=> Conflicting(a, RoleOf)
  BY Undisturbed
<1>2. Chain(x) \subseteq Existing
  BY ChainOfChild DEF IInv
<1> QED
  BY <1>1, <1>2 DEF ChainsArePaths, NoRoleConflict

\* A new topic whose role fits its parent's chain conflicts with nothing.
LEMMA AloneInsert ==
  ASSUME IInv, ChainsArePaths, NoRoleConflict,
         NEW t, t \notin Existing, NEW row, InsertTopic(t, row),
         CreateClosureRows(t, row.parent), ClosureExact',
         \/ row.parent = None
         \/ /\ row.parent \in Existing /\ Active(row.parent)
            /\ RolesFit(row.parent, row.role)
  PROVE  ChainsArePaths' /\ NoRoleConflict'
<1>1. /\ Existing' = Existing \cup {t} /\ topic'[t] = row
      /\ \A a \in Existing : topic'[a] = topic[a]
  BY DEF InsertTopic, Existing
<1>2. \A a \in Existing : RowsOf(a)' = RowsOf(a)
  BY DEF CreateClosureRows, RowsOf
<1>3. \A x \in Existing :
        /\ Active(x)' => ~Conflicting(x, RoleOf)'
        /\ \A a, b \in Chain(x)' : a \in Chain(b)' \/ b \in Chain(a)'
  BY <1>1, <1>2, AloneTables
<1>4. Chain(t)' = {t} \cup IF row.parent = None THEN {} ELSE Chain(row.parent)
  <2> DEFINE up == {<<x[1], t, x[3] + 1>> : x \in RowsOf(row.parent)}
  <2>1. closure' = closure \cup {<<t, t, 0>>} \cup up
    BY DEF CreateClosureRows
  <2>2. \A x \in closure : x[1] \in Existing /\ x[2] \in Existing
    BY DEF IInv, ClosureExact
  <2>3. \A x \in up : x[2] = t
    OBVIOUS
  <2>4. RowsOf(t)' = {<<t, t, 0>>} \cup up
    BY <2>1, <2>2, <2>3 DEF RowsOf
  <2>5. row.parent = None => RowsOf(row.parent) = {}
    BY <2>2, TypeOKEquiv, AbsentAssumption DEF IInv, RowsOf
  <2>6. \A x \in up : \E y \in RowsOf(row.parent) : x[1] = y[1]
    OBVIOUS
  <2>7. \A y \in RowsOf(row.parent) : \E x \in up : x[1] = y[1]
    <3> TAKE y \in RowsOf(row.parent)
    <3>1. <<y[1], t, y[3] + 1>> \in up /\ <<y[1], t, y[3] + 1>>[1] = y[1]
      OBVIOUS
    <3> QED
      BY <3>1
  <2> HIDE DEF up
  <2>8. ASSUME NEW a PROVE a \in Chain(t)' <=> a = t \/ \E x \in up : a = x[1]
    <3>1. a \in Chain(t)' <=> \E x \in RowsOf(t)' : a = x[1]
      BY DEF Chain
    <3>2. <<t, t, 0>>[1] = t
      OBVIOUS
    <3> QED
      BY <2>4, <3>1, <3>2
  <2>9. ASSUME NEW a PROVE (\E x \in up : a = x[1]) <=> a \in Chain(row.parent)
    BY <2>6, <2>7 DEF Chain
  <2>10. row.parent = None => Chain(row.parent) = {}
    BY <2>5 DEF Chain
  <2> QED
    BY <2>8, <2>9, <2>10
<1>5. \A a \in Existing : Chain(a)' = Chain(a) /\ Chain(a) \subseteq Existing
  BY <1>2, ChainOfChild DEF IInv, Chain
<1>6. \A a, b \in Chain(t)' : a \in Chain(b)' \/ b \in Chain(a)'
  BY <1>4, <1>5 DEF ChainsArePaths
<1>7. ~Conflicting(t, RoleOf)'
  <2>1. \A a \in Existing' : RoleOf'[a] = topic'[a].role
    BY DEF RoleOf
  <2>2. CASE row.parent = None
    BY <1>4, <2>2 DEF Conflicting
  <2>3. CASE row.parent # None
    <3>1. \A a \in Chain(row.parent) :
            a \in Existing /\ topic[a].role \in {None, row.role}
      BY <1>5, <2>3 DEF RolesFit
    <3>2. \A a \in Chain(t)' : RoleOf'[a] \in {None, row.role}
      BY <1>1, <1>4, <2>1, <2>3, <3>1
    <3> QED
      BY <3>2 DEF Conflicting
  <2> QED
    BY <2>2, <2>3
<1> QED
  BY <1>1, <1>3, <1>6, <1>7 DEF ChainsArePaths, NoRoleConflict

\* A role that fits a topic's chain and the active topics below it conflicts
\* with nothing.
LEMMA AloneUpdate ==
  ASSUME IInv, ChainsArePaths, NoRoleConflict, NEW t \in Existing, NEW role,
         RolesFit(t, role),
         role # None => ~ConflictingDescendant(t, role),
         topic' = [topic EXCEPT ![t].role = role], UNCHANGED closure
  PROVE  ChainsArePaths' /\ NoRoleConflict'
<1>1. topic \in [Existing -> Row]
  BY TypeOKEquiv DEF IInv
<1>2. /\ Existing' = Existing
      /\ \A a \in Existing : topic'[a].deleted = topic[a].deleted
      /\ \A a \in Existing : topic'[a].role = IF a = t THEN role ELSE topic[a].role
  BY <1>1 DEF Existing, Row
<1>3. \A a : RowsOf(a)' = RowsOf(a) /\ Chain(a)' = Chain(a)
  BY DEF RowsOf, Chain
<1>4. ChainsArePaths'
  BY <1>2, <1>3 DEF ChainsArePaths
<1>5. ASSUME NEW x \in Existing, Active(x)'
      PROVE  ~Conflicting(x, RoleOf)'
  <2>1. x \in Chain(x) /\ Chain(x) \subseteq Existing
    BY ChainOfChild DEF IInv
  <2>2. Active(x) /\ \A a \in Chain(x) : ~topic[a].deleted
    BY <1>2, <1>3, <1>5, <2>1 DEF Active, HasDeletedAncestor, Ancestors
  <2>3. ~Conflicting(x, RoleOf)
    BY <2>2 DEF NoRoleConflict
  <2>4. \A a \in Existing : RoleOf'[a] = topic'[a].role /\ RoleOf[a] = topic[a].role
    BY <1>2 DEF RoleOf
  <2>5. CASE t \notin Chain(x)
    BY <1>2, <1>3, <2>1, <2>3, <2>4, <2>5 DEF Conflicting
  <2>6. CASE t \in Chain(x) /\ role = None
    <3>1. topic[t].role = None
      BY <2>6, ChainOfChild DEF RolesFit, IInv
    <3> QED
      BY <1>2, <1>3, <2>1, <2>3, <2>4, <2>6, <3>1 DEF Conflicting
  <2>7. CASE t \in Chain(x) /\ role # None
    <3>1. ASSUME NEW a \in Chain(x), a # t
          PROVE  topic[a].role \in {None, role}
      <4>1. a \in Chain(t) \/ t \in Chain(a)
        BY <2>7, <3>1 DEF ChainsArePaths
      <4>2. CASE a \in Chain(t)
        BY <4>2 DEF RolesFit
      <4>3. CASE t \in Chain(a)
        <5>1. PICK row \in RowsOf(a) : row[1] = t
          BY <4>3 DEF Chain
        <5>2. row \in closure /\ row[2] = a /\ ~topic[a].deleted
          BY <2>2, <5>1 DEF RowsOf
        <5> QED
          BY <2>7, <3>1, <5>1, <5>2 DEF ConflictingDescendant
      <4> QED
        BY <4>1, <4>2, <4>3
    <3>2. \A a \in Chain(x) : RoleOf'[a] \in {None, role}
      BY <1>2, <2>1, <2>4, <3>1
    <3> QED
      BY <1>3, <3>2 DEF Conflicting
  <2> QED
    BY <2>5, <2>6, <2>7
<1> QED
  BY <1>2, <1>4, <1>5 DEF NoRoleConflict

\* A write of another column, if any, only hides topics.
LEMMA AloneHide ==
  ASSUME IInv, ChainsArePaths, NoRoleConflict,
         Existing' = Existing, UNCHANGED closure,
         \A a \in Existing : /\ topic'[a].role = topic[a].role
                             /\ topic[a].deleted => topic'[a].deleted
  PROVE  ChainsArePaths' /\ NoRoleConflict'
<1>1. \A a : RowsOf(a)' = RowsOf(a) /\ Chain(a)' = Chain(a)
  BY DEF RowsOf, Chain
<1>2. \A a \in Existing : RoleOf'[a] = RoleOf[a]
  BY DEF RoleOf
<1>3. ASSUME NEW x \in Existing, Active(x)' PROVE ~Conflicting(x, RoleOf)'
  <2>1. Chain(x) \subseteq Existing
    BY ChainOfChild DEF IInv
  <2>2. Active(x)
    BY <1>1, <1>3, <2>1 DEF Active, HasDeletedAncestor, Ancestors
  <2> QED
    BY <1>1, <1>2, <2>1, <2>2 DEF NoRoleConflict, Conflicting
<1> QED
  BY <1>1, <1>3 DEF ChainsArePaths, NoRoleConflict

\* What the policy accepts is true of the tables it was decided on.
LEMMA DecidedKnowsAlone ==
  ASSUME AloneInv, NEW r \in Requests, request[r].pc = "loaded",
         Allowed(request[r])
  PROVE  KnowsAlone(Decided(request[r]))
<1> DEFINE q == request[r]
           t == q.target
           d == Decided(q)
<1> SUFFICES KnowsAlone(d)
  OBVIOUS
<1>1. IInv /\ q \in Request /\ t \in Existing
  BY TypeOKEquiv DEF AloneInv, IInv, RequestInv, Knows, Idle
<1>2. ~topic[t].deleted /\ q.locked = topic[t].locked
  BY DEF AloneInv, KnowsAlone, Idle
<1>3. /\ d.pc = "decided" /\ d.op = q.op /\ d.actor = q.actor /\ d.target = t
      /\ d.role = IF q.op = "createChild" THEN Inherited(EffectiveRole(t), q.role)
                                          ELSE q.role
  BY <1>1 DEF Decided, Request
<1> HIDE DEF d, t
<1>4. ASSUME Available(q) PROVE ~Conflicting(t, RoleOf)
  BY <1>1, <1>2, <1>4 DEF Available, Active, AloneInv, NoRoleConflict, t
<1>5. ASSUME LockAllows(q) PROVE MayMutate(d)
  BY <1>2, <1>3, <1>5 DEF LockAllows, MayMutate, t
<1>6. CASE q.op = "createChild"
  <2>1. Available(q) /\ LockAllows(q)
    BY <1>6 DEF Allowed, CreateChildAllowed, CanCreateChildTopic
  <2>2. RolesFit(t, EffectiveRole(t))
    BY <1>1, <1>4, <2>1, EffectiveFits
  <2>3. RolesFit(t, d.role)
    BY <1>3, <1>6, <2>2 DEF RolesFit, Inherited
  <2> QED
    BY <1>2, <1>3, <1>5, <2>1, <2>3 DEF KnowsAlone
<1>7. CASE q.op = "update"
  <2>1. Available(q) /\ LockAllows(q)
    BY <1>7 DEF Allowed, UpdateAllowed, CanUpdateTopic, CanView
  <2>2. q.role # Omitted => MayUpdateRole(AncestorRole(t), EffectiveRole(t), q.role)
    BY <1>7 DEF Allowed, UpdateAllowed, t
  <2>3. /\ RolesFit(t, EffectiveRole(t))
        /\ AncestorRole(t) # None => AncestorRole(t) = EffectiveRole(t)
    BY <1>1, <1>4, <2>1, EffectiveFits
  <2>4. q.role # Omitted => RolesFit(t, q.role)
    BY <2>2, <2>3 DEF MayUpdateRole, RolesFit
  <2> QED
    BY <1>2, <1>3, <1>5, <1>7, <2>1, <2>4 DEF KnowsAlone
<1>8. CASE q.op = "softDelete"
  <2>1. LockAllows(q)
    BY <1>8 DEF Allowed, SoftDeleteAllowed
  <2> QED
    BY <1>2, <1>3, <1>5, <1>8, <2>1 DEF KnowsAlone
<1>9. CASE q.op \notin {"createChild", "update", "softDelete"}
  BY <1>2, <1>3, <1>9 DEF KnowsAlone
<1> QED
  BY <1>1, <1>6, <1>7, <1>8, <1>9

\* A step that only reads, and leaves a request that knows its part
LEMMA AloneReads ==
  ASSUME OneAtATime, AloneInv, IInv', NEW r \in Requests, NEW q,
         request' = [request EXCEPT ![r] = q], KnowsAlone(q),
         q # Idle => q.target \in Existing,
         UNCHANGED <<topic, closure>>
  PROVE  AloneInv'
<1>1. IInv /\ request \in [Requests -> Request \cup {Idle}]
  BY TypeOKEquiv DEF AloneInv, IInv
<1>2. request'[r] = q
  BY <1>1
<1>3. Existing' = Existing /\ \A a \in Existing :
        /\ a \in Existing' /\ topic'[a] = topic[a] /\ RowsOf(a)' = RowsOf(a)
  BY DEF Existing, RowsOf
<1>4. KnowsAlone(request[r])'
  BY <1>1, <1>2, <1>3, AloneStep
<1>5. \A s \in Requests : s = r
  BY DEF OneAtATime
<1>6. ChainsArePaths' /\ NoRoleConflict'
  BY <1>1, <1>3, AloneTables DEF AloneInv, ChainsArePaths, NoRoleConflict
<1> QED
  BY <1>4, <1>5, <1>6 DEF AloneInv

\* A step that writes what the request knows and ends it
LEMMA AloneWrites ==
  ASSUME OneAtATime, AloneInv, IInv', NEW r \in Requests, Finish(r),
         ChainsArePaths', NoRoleConflict'
  PROVE  AloneInv'
<1>1. request \in [Requests -> Request \cup {Idle}]
  BY TypeOKEquiv DEF AloneInv, IInv
<1>2. \A s \in Requests : request'[s] = Idle
  BY <1>1 DEF Finish, OneAtATime
<1>3. \A s \in Requests : KnowsAlone(request[s])'
  BY <1>2 DEF KnowsAlone, Idle
<1> QED
  BY <1>3 DEF AloneInv

\* Creating a root beside the command disturbs nothing it knows.
LEMMA AloneRoot ==
  ASSUME AloneInv, IInv', [Next]_vars, NEW a \in Actors, NEW t \in Topics,
         NEW challenge, NEW role, CreateRoot(a, t, challenge, role)
  PROVE  AloneInv'
<1> DEFINE row == NewRow(None, challenge, role, Author(Principal[a]))
<1>1. row.parent = None
  BY DEF NewRow
<1> HIDE DEF row
<1>2. /\ t \notin Existing /\ InsertTopic(t, row) /\ CreateClosureRows(t, None)
      /\ UNCHANGED request
  BY DEF CreateRoot, row
<1>3. IInv /\ ClosureExact' /\ ClosureExact
  BY DEF AloneInv, IInv
<1>4. ChainsArePaths' /\ NoRoleConflict'
  BY <1>1, <1>2, <1>3, AloneInsert DEF AloneInv
<1>5. \A u \in Existing : /\ u \in Existing' /\ topic'[u] = topic[u]
                          /\ RowsOf(u)' = RowsOf(u)
  BY <1>2, <1>3, TablesOnlyGrow DEF InsertTopic, Existing
<1>6. \A x \in closure' : x[1] \in Existing => x \in closure
  <2>1. RowsOf(None) = {}
    BY <1>3, AbsentAssumption, TypeOKEquiv DEF IInv, RowsOf
  <2> QED
    BY <1>2, <2>1 DEF CreateClosureRows
<1>7. ASSUME NEW s \in Requests PROVE KnowsAlone(request[s])'
  <2>1. KnowsAlone(request[s]) /\ request'[s] = request[s]
    BY <1>2 DEF AloneInv
  <2>2. request[s] # Idle => request[s].target \in Existing
    BY <1>3 DEF IInv, RequestInv, Knows
  <2> QED
    BY <1>3, <1>5, <1>6, <2>1, <2>2, AloneStep
<1> QED
  BY <1>4, <1>7 DEF AloneInv

LEMMA NextAlone == OneAtATime /\ AloneInv /\ [Next]_vars => AloneInv'
<1> SUFFICES ASSUME OneAtATime, AloneInv, [Next]_vars PROVE AloneInv'
  OBVIOUS
<1>1. IInv /\ IInv' /\ ClosureExact'
  BY NextIInv DEF AloneInv, IInv
<1>2. /\ request \in [Requests -> Request \cup {Idle}]
      /\ topic \in [Existing -> Row]
      /\ \A r \in Requests : request[r].pc # "idle" =>
           /\ request[r] \in Request /\ request[r] # Idle
           /\ request[r].target \in Existing
           /\ topic[request[r].target] \in Row
  BY <1>1, TypeOKEquiv DEF IInv, RequestInv, Knows, Idle
<1>3. \A r \in Requests : KnowsAlone(request[r])
  BY DEF AloneInv
<1>4. KnowsAlone(Idle)
  BY DEF KnowsAlone
<1>5. ASSUME NEW r \in Requests, request' = [request EXCEPT ![r] = Idle],
             UNCHANGED <<topic, closure>>
      PROVE  AloneInv'
  BY <1>1, <1>4, <1>5, AloneReads
<1>6. ASSUME NEW r \in Requests, NEW op \in Commands, NEW a, NEW t, NEW challenge,
             NEW role, LoadTopic(r, op, a, t, challenge, role)
      PROVE  AloneInv'
  <2>1. CASE t \in Existing /\ ~topic[t].deleted
    <3> DEFINE q == [pc |-> "loaded", op |-> op, actor |-> a, target |-> t,
                     challenge |-> challenge, role |-> role,
                     locked |-> topic[t].locked]
    <3>1. q.target \in Existing /\ KnowsAlone(q)
      BY <2>1 DEF KnowsAlone
    <3>2. request' = [request EXCEPT ![r] = q] /\ UNCHANGED <<topic, closure>>
      BY <1>6, <2>1 DEF LoadTopic
    <3> QED
      BY <1>1, <3>1, <3>2, AloneReads
  <2>2. CASE ~(t \in Existing /\ ~topic[t].deleted)
    <3>1. UNCHANGED <<topic, closure, request>>
      BY <1>6, <2>2 DEF LoadTopic
    <3>2. request' = [request EXCEPT ![r] = request[r]]
      BY <1>2, <3>1
    <3>3. request[r] # Idle => request[r].target \in Existing
      BY <1>1 DEF IInv, RequestInv, Knows
    <3> QED
      BY <1>1, <1>3, <3>1, <3>2, <3>3, AloneReads
  <2> QED
    BY <2>1, <2>2
<1>7. ASSUME NEW r \in Requests, Decide(r) PROVE AloneInv'
  <2>1. request[r].pc = "loaded" /\ UNCHANGED <<topic, closure>>
    BY <1>7 DEF Decide
  <2>2. CASE Allowed(request[r])
    <3>1. Decided(request[r]).target = request[r].target
      BY <1>2, <2>1 DEF Decided, Request
    <3>2. KnowsAlone(Decided(request[r]))
      BY <2>1, <2>2, DecidedKnowsAlone
    <3>3. request' = [request EXCEPT ![r] = Decided(request[r])]
      BY <1>7, <2>2 DEF Decide
    <3> QED
      BY <1>1, <1>2, <2>1, <3>1, <3>2, <3>3, AloneReads
  <2>3. CASE ~Allowed(request[r])
    BY <1>5, <1>7, <2>3 DEF Decide
  <2> QED
    BY <2>2, <2>3
<1>8. ASSUME NEW r \in Requests, CheckDescendants(r) PROVE AloneInv'
  <2> DEFINE q == request[r]
             checked == [q EXCEPT !.pc = "checked"]
  <2>1. /\ q.pc = "decided" /\ q.op = "update" /\ q.role # Omitted
        /\ UNCHANGED <<topic, closure>>
    BY <1>8 DEF CheckDescendants
  <2>2. /\ checked.pc = "checked" /\ checked.op = q.op /\ checked.role = q.role
        /\ checked.actor = q.actor /\ checked.target = q.target
    BY <1>2, <2>1 DEF Request
  <2>3. CASE q.role # None /\ ConflictingDescendant(q.target, q.role)
    BY <1>5, <1>8, <2>3 DEF CheckDescendants
  <2>4. CASE ~(q.role # None /\ ConflictingDescendant(q.target, q.role))
    <3>1. request' = [request EXCEPT ![r] = checked]
      BY <1>8, <2>4 DEF CheckDescendants
    <3>2. RolesFit(q.target, q.role) /\ MayMutate(q) /\ ~topic[q.target].deleted
      BY <1>2, <1>3, <2>1 DEF KnowsAlone
    <3> HIDE DEF checked
    <3>3. KnowsAlone(checked)
      BY <2>1, <2>2, <2>4, <3>2 DEF KnowsAlone, MayMutate
    <3> QED
      BY <1>1, <1>2, <2>1, <2>2, <3>1, <3>3, AloneReads
  <2> QED
    BY <2>3, <2>4
<1>9. ASSUME NEW r \in Requests, EnsureActive(r) PROVE AloneInv'
  <2> DEFINE q == request[r]
             active == [q EXCEPT !.pc = "active"]
  <2>1. /\ \/ q.pc = "decided" /\ (q.op = "update" => q.role = Omitted)
           \/ q.pc = "checked"
        /\ UNCHANGED <<topic, closure>>
    BY <1>9 DEF EnsureActive
  <2>2. /\ active.pc = "active" /\ active.op = q.op /\ active.role = q.role
        /\ active.actor = q.actor /\ active.target = q.target
    BY <1>2, <2>1 DEF Request
  <2>3. CASE ~Active(q.target)
    BY <1>5, <1>9, <2>3 DEF EnsureActive
  <2>4. CASE Active(q.target)
    <3>1. request' = [request EXCEPT ![r] = active]
      BY <1>9, <2>4 DEF EnsureActive
    <3>2. KnowsAlone(q) /\ q # Idle
      BY <1>2, <1>3, <2>1
    <3> HIDE DEF active, q
    <3>3. KnowsAlone(active)
      BY <2>1, <2>2, <2>4, <3>2 DEF KnowsAlone, MayMutate, Idle
    <3> QED
      BY <1>1, <1>2, <2>1, <2>2, <3>1, <3>3, AloneReads DEF q
  <2> QED
    BY <2>3, <2>4
<1>10. ASSUME NEW r \in Requests, NEW t \in Topics, CommitCreateChild(r, t)
       PROVE  AloneInv'
  <2> DEFINE q == request[r]
             row == NewRow(q.target, q.challenge, q.role,
                           Author(Principal[q.actor]))
  <2>1. /\ q.pc = "active" /\ q.op = "createChild" /\ t \notin Existing
        /\ InsertTopic(t, row) /\ CreateClosureRows(t, q.target) /\ Finish(r)
    BY <1>10 DEF CommitCreateChild
  <2>2. row.parent = q.target /\ row.role = q.role
    BY DEF NewRow
  <2>3. Active(q.target) /\ q.target \in Existing /\ RolesFit(q.target, q.role)
    <3>1. q.role # Omitted
      BY <1>1, <1>2, <2>1, AbsentAssumption DEF IInv, RequestInv, Knows
    <3> QED
      BY <1>2, <1>3, <2>1, <3>1 DEF KnowsAlone
  <2> HIDE DEF row
  <2>4. ChainsArePaths' /\ NoRoleConflict'
    BY <1>1, <2>1, <2>2, <2>3, AloneInsert DEF AloneInv
  <2> QED
    BY <1>1, <2>1, <2>4, AloneWrites
<1>11. ASSUME NEW r \in Requests, CommitUpdate(r) PROVE AloneInv'
  <2> DEFINE q == request[r]
             t == q.target
  <2>1. /\ q.pc = "active" /\ q.op = "update" /\ Finish(r) /\ UNCHANGED closure
        /\ topic' = [topic EXCEPT ![t].role =
                       IF q.role = Omitted THEN @ ELSE q.role]
    BY <1>11 DEF CommitUpdate
  <2>2. CASE q.role = Omitted
    <3>1. topic' = topic
      BY <1>2, <2>1, <2>2 DEF Row
    <3>2. ChainsArePaths' /\ NoRoleConflict'
      BY <1>1, <2>1, <3>1, AloneHide DEF AloneInv, Existing
    <3> QED
      BY <1>1, <2>1, <3>2, AloneWrites
  <2>3. CASE q.role # Omitted
    <3>1. t \in Existing /\ topic' = [topic EXCEPT ![t].role = q.role]
      BY <1>2, <2>1, <2>3
    <3>2. /\ RolesFit(t, q.role)
          /\ q.role # None => ~ConflictingDescendant(t, q.role)
      BY <1>2, <1>3, <2>1, <2>3 DEF KnowsAlone
    <3>3. ChainsArePaths' /\ NoRoleConflict'
      BY <1>1, <2>1, <3>1, <3>2, AloneUpdate DEF AloneInv
    <3> QED
      BY <1>1, <2>1, <3>3, AloneWrites
  <2> QED
    BY <2>2, <2>3
<1>12. ASSUME NEW r \in Requests, CommitSoftDelete(r) \/ SetLock(r)
       PROVE  AloneInv'
  <2>1. Finish(r) /\ UNCHANGED closure /\ request[r].pc # "idle"
    BY <1>12 DEF CommitSoftDelete, SetLock
  <2>2. /\ Existing' = Existing
        /\ \A a \in Existing : /\ topic'[a].role = topic[a].role
                               /\ topic[a].deleted => topic'[a].deleted
    <3>1. CASE CommitSoftDelete(r)
      BY <1>2, <3>1 DEF CommitSoftDelete, Existing, Row
    <3>2. CASE SetLock(r)
      BY <1>2, <3>2 DEF SetLock, Existing, Row
    <3> QED
      BY <1>12, <3>1, <3>2
  <2>3. ChainsArePaths' /\ NoRoleConflict'
    BY <1>1, <2>1, <2>2, AloneHide DEF AloneInv
  <2> QED
    BY <1>1, <2>1, <2>3, AloneWrites
<1>13. ASSUME NEW r \in Requests, Fail(r) PROVE AloneInv'
  BY <1>5, <1>13 DEF Fail, Finish
<1>14. ASSUME UNCHANGED vars PROVE AloneInv'
  <2>1. UNCHANGED <<topic, closure, request>>
    BY <1>14 DEF vars
  <2>2. CASE Requests = {}
    <3>1. \A u \in Existing : /\ u \in Existing' /\ topic'[u] = topic[u]
                              /\ RowsOf(u)' = RowsOf(u)
      BY <2>1 DEF Existing, RowsOf
    <3>2. ChainsArePaths' /\ NoRoleConflict'
      BY <1>1, <2>1, <3>1, AloneTables
         DEF AloneInv, ChainsArePaths, NoRoleConflict, Existing
    <3> QED
      BY <1>1, <2>2, <3>2 DEF AloneInv
  <2>3. ASSUME NEW r \in Requests PROVE AloneInv'
    <3>1. request' = [request EXCEPT ![r] = request[r]]
      BY <1>2, <2>1
    <3>2. request[r] # Idle => request[r].target \in Existing
      BY <1>1 DEF IInv, RequestInv, Knows
    <3> QED
      BY <1>1, <1>3, <2>1, <3>1, <3>2, AloneReads
  <2> QED
    BY <2>2, <2>3
<1> QED
  BY <1>1, <1>6, <1>7, <1>8, <1>9, <1>10, <1>11, <1>12, <1>13, <1>14, AloneRoot
     DEF Next

LEMMA AloneInvariant ==
  ASSUME OneAtATime
  PROVE  Spec => []AloneInv
<1>1. ASSUME Init PROVE AloneInv
  <2>1. IInv
    BY <1>1, InitIInv
  <2>2. /\ Existing = DOMAIN Category
        /\ \A c \in Existing : topic[c].role = None
    BY <1>1 DEF Init, Existing, ImportedRow, NewRow
  <2>3. NoRoleConflict
    <3>1. \A t \in Existing : Chain(t) \subseteq Existing
      BY <2>1, TypeOKEquiv, ChainOfChild DEF IInv
    <3> QED
      BY <2>2, <3>1 DEF NoRoleConflict, Conflicting, RoleOf
  <2>4. ChainsArePaths
    <3>1. \A x \in Existing :
            Chain(x) = IF CategoryParent[x] = None THEN {x}
                                                   ELSE {x, CategoryParent[x]}
      <4> SUFFICES ASSUME NEW x \in Existing
                   PROVE  Chain(x) = IF CategoryParent[x] = None
                                     THEN {x} ELSE {x, CategoryParent[x]}
        OBVIOUS
      <4>1. x \in DOMAIN Category
        BY <2>2
      <4>2. /\ \A row \in closure : row[2] = x =>
                  row[1] = x \/ (/\ CategoryParent[x] # None
                                /\ row[1] = CategoryParent[x])
            /\ <<x, x, 0>> \in closure
            /\ CategoryParent[x] # None => <<CategoryParent[x], x, 1>> \in closure
        BY <1>1, <4>1 DEF Init
      <4>3. Chain(x) = {row[1] : row \in {d \in closure : d[2] = x}}
        BY DEF Chain, RowsOf
      <4>4. x \in Chain(x)
            /\ (CategoryParent[x] # None => CategoryParent[x] \in Chain(x))
        BY <4>2, <4>3
      <4>5. \A y \in Chain(x) : y = x \/ (/\ CategoryParent[x] # None
                                          /\ y = CategoryParent[x])
        BY <4>2, <4>3
      <4> QED
        BY <4>4, <4>5
    <3> QED
      BY <2>2, <3>1, CategoryAssumption DEF ChainsArePaths
  <2>5. \A r \in Requests : KnowsAlone(request[r])
    BY <1>1 DEF Init, KnowsAlone
  <2> QED
    BY <2>1, <2>3, <2>4, <2>5 DEF AloneInv
<1>2. AloneInv /\ [Next]_vars => AloneInv'
  BY NextAlone
<1> QED
  BY <1>1, <1>2, PTL DEF Spec

\* Where commands do not overlap, no active topic carries two roles: what
\* RoleRace shows two updates do, one at a time cannot, on trees of any depth.
THEOREM SerialRolesAgree ==
  ASSUME OneAtATime
  PROVE  Spec => []NoRoleConflict
<1>1. AloneInv => NoRoleConflict
  BY DEF AloneInv
<1> QED
  BY <1>1, AloneInvariant, PTL

\* Where commands do not overlap, a role is never cleared nor replaced.
THEOREM SerialRolesTighten ==
  ASSUME OneAtATime
  PROVE  Spec => RolesOnlyTighten
<1>1. ASSUME AloneInv, [Next]_vars, NEW t \in Existing, topic[t].role # None
      PROVE  topic'[t].role = topic[t].role
  <2>1. topic \in [Existing -> Row] /\ IInv
    BY <1>1, TypeOKEquiv DEF AloneInv, IInv
  <2>2. CASE UNCHANGED topic
    BY <2>2
  <2>3. ASSUME NEW u \in Topics, NEW row, u \notin Existing, InsertTopic(u, row)
        PROVE  topic'[t].role = topic[t].role
    BY <2>3 DEF InsertTopic
  <2>4. ASSUME NEW r \in Requests, CommitUpdate(r)
        PROVE  topic'[t].role = topic[t].role
    <3> DEFINE q == request[r]
    <3>1. /\ q.pc = "active" /\ q.op = "update"
          /\ topic' = [topic EXCEPT ![q.target].role =
                         IF q.role = Omitted THEN @ ELSE q.role]
      BY <2>4 DEF CommitUpdate
    <3>2. q.role # Omitted => RolesFit(q.target, q.role)
      BY <1>1, <3>1 DEF AloneInv, KnowsAlone, Idle
    <3>3. t \in Chain(t)
      BY <2>1, TypeOKEquiv, ChainOfChild DEF IInv
    <3> QED
      BY <1>1, <2>1, <3>1, <3>2, <3>3 DEF RolesFit, Row
  <2>5. ASSUME NEW r \in Requests, CommitSoftDelete(r) \/ SetLock(r)
        PROVE  topic'[t].role = topic[t].role
    BY <2>1, <2>5 DEF CommitSoftDelete, SetLock, Row
  <2> QED
    BY <1>1, <2>2, <2>3, <2>4, <2>5
       DEF Next, vars, CreateRoot, LoadTopic, Decide, CheckDescendants,
           EnsureActive, CommitCreateChild, Fail
<1>2. AloneInv /\ [Next]_vars =>
        \A t \in Existing : topic[t].role # None => topic'[t].role = topic[t].role
  BY <1>1
<1> QED
  BY <1>2, AloneInvariant, PTL DEF Spec, RolesOnlyTighten

\* Where commands do not overlap, a locked topic takes no child topic, update
\* or deletion but from those whom the lock decision lets through.
THEOREM SerialLocksHold ==
  ASSUME OneAtATime
  PROVE  Spec => LockedRejectsMutation
<1>1. ASSUME AloneInv, NEW r \in Requests,
             \/ \E t \in Topics : CommitCreateChild(r, t)
             \/ CommitUpdate(r)
             \/ CommitSoftDelete(r)
      PROVE  LET q == request[r] IN
             CanMutateLocked(Principal[q.actor], topic[q.target].locked,
                             EffectiveChallenge(q.target),
                             FactsOf(q.actor, q.target))
  <2>1. /\ request[r].pc = "active"
        /\ request[r].op \in {"createChild", "update", "softDelete"}
    BY <1>1 DEF CommitCreateChild, CommitUpdate, CommitSoftDelete
  <2>2. request[r] # Idle
    BY <2>1 DEF Idle
  <2> QED
    BY <1>1, <2>1, <2>2 DEF AloneInv, KnowsAlone, MayMutate
<1>2. AloneInv /\ [Next]_vars =>
        \A r \in Requests :
          \/ \E t \in Topics : CommitCreateChild(r, t)
          \/ CommitUpdate(r)
          \/ CommitSoftDelete(r)
          =>
            LET q == request[r] IN
            CanMutateLocked(Principal[q.actor], topic[q.target].locked,
                            EffectiveChallenge(q.target),
                            FactsOf(q.actor, q.target))
  BY <1>1
<1> QED
  BY <1>2, AloneInvariant, PTL DEF Spec, LockedRejectsMutation
=============================================================================
