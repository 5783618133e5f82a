-------------------------- MODULE PostThreadProofs --------------------------
(***************************************************************************)
(* Proofs about PostThread, for any topics, posts, texts, callers, access  *)
(* facts and number of concurrent requests.                                *)
(*                                                                         *)
(* The inductive invariant has three parts: what the table holds (a post   *)
(* lies below a post of its topic, and a visible post has a text), what a  *)
(* request knows by the time it reaches a step (its target exists in its   *)
(* topic, its decision was made for its actor), and that the thread of a   *)
(* topic is complete.  The steps that race over a post leave its topic,    *)
(* author and parent alone, which is why what a request has read of them   *)
(* stays true.                                                             *)
(***************************************************************************)
EXTENDS PostThread, TLAPS

\* The stored posts
TableOK ==
  /\ Existing \subseteq Posts /\ post \in [Existing -> Row]
  /\ \A p \in Existing :
       /\ ~post[p].deleted => post[p].content \in Contents
       /\ post[p].parent # None =>
            /\ post[p].parent \in Existing
            /\ post[post[p].parent].topic = post[p].topic

\* The actor of a request wrote its post.
WroteIn(T, q) ==
  Principal[q.actor].id # None /\ T[q.post].author = Principal[q.actor].id

\* What a request that is not idle knows of the posts T at each of its steps
SoundIn(T, q) ==
  /\ q \in Request
  /\ q.op = "create" => q.wrote \in Contents
  /\ q.op # "create" => q.post \in DOMAIN T /\ T[q.post].topic = q.topic
  /\ q.op = "update" => q.wrote \in Contents
  /\ q.op \in {"react", "unreact"} =>
       q.wrote \in Reactions \cup {None} /\ Principal[q.actor].id \in Members
  /\ q.pc = "found" => q.op # "create"
  /\ q.pc # "loaded" /\ q.op = "update" =>
       \/ WroteIn(T, q)
       \/ Elevated(Principal[q.actor], Restriction[q.topic],
                   Facts[q.actor, q.topic])
  /\ q.pc # "loaded" /\ q.op = "delete" => Bypasses(Principal[q.actor])

RequestsSound == \A r \in Requests : request[r] = Idle \/ SoundIn(post, request[r])

IInv == TypeOK /\ TableOK /\ RequestsSound /\ EveryPostIsReached

LEMMA InitIInv == Init => IInv
<1> SUFFICES ASSUME Init
             PROVE  IInv
  OBVIOUS
<1>1. Existing = {} /\ post \in [Existing -> Row]
  BY DEF Init, Existing
<1>2. TypeOK
  BY <1>1 DEF Init, TypeOK, Existing
<1>3. TableOK
  BY <1>1 DEF TableOK
<1>4. RequestsSound
  BY DEF Init, RequestsSound
<1>5. EveryPostIsReached
  BY <1>1 DEF EveryPostIsReached, PostsOf
<1>6. QED BY <1>2, <1>3, <1>4, <1>5 DEF IInv

-----------------------------------------------------------------------------
(* Steps of the tables                                                     *)

\* No step removes a post or moves it.
Keeps ==
  /\ Existing \subseteq Existing'
  /\ \A p \in Existing : /\ post'[p].topic = post[p].topic
                         /\ post'[p].author = post[p].author
                         /\ post'[p].parent = post[p].parent

\* What a request has read of a post stays true.
LEMMA SoundStays ==
  ASSUME Keeps, NEW q, SoundIn(post, q)
  PROVE  SoundIn(post', q)
BY DEF Keeps, SoundIn, WroteIn, Existing

\* Steps that change texts only leave the threads as they are.
LEMMA ReachedStays ==
  ASSUME Keeps, Existing' = Existing, EveryPostIsReached
  PROVE  EveryPostIsReached'
<1>1. ASSUME NEW t \in Topics
      PROVE  /\ PostsOf(t)' = PostsOf(t)
             /\ Roots(t)' = Roots(t)
             /\ \A p \in PostsOf(t) : Replies(t, p)' = Replies(t, p)
  BY DEF Keeps, PostsOf, Roots, Replies
<1>2. QED BY <1>1 DEF EveryPostIsReached

\* A row that is written by id keeps the table, if it keeps its place.
LEMMA RowWritten ==
  ASSUME TableOK, EveryPostIsReached, NEW p \in Existing, NEW row \in Row,
         row.topic = post[p].topic, row.author = post[p].author,
         row.parent = post[p].parent,
         ~row.deleted => row.content \in Contents,
         post' = [post EXCEPT ![p] = row]
  PROVE  TableOK' /\ EveryPostIsReached' /\ Keeps /\ Existing' = Existing
<1>1. Existing' = Existing /\ post' \in [Existing -> Row]
      /\ \A x \in Existing : post'[x] = IF x = p THEN row ELSE post[x]
  BY DEF TableOK, Existing
<1>2. Keeps
  BY <1>1 DEF Keeps
<1>3. TableOK'
  BY <1>1, <1>2 DEF TableOK, Keeps
<1>4. QED BY <1>1, <1>2, <1>3, ReachedStays

\* A post that is created below the topic or below a post of the topic
LEMMA RowCreated ==
  ASSUME TableOK, EveryPostIsReached,
         NEW p \in Posts, p \notin Existing, NEW row \in Row,
         row.content \in Contents,
         row.parent # None =>
           row.parent \in Existing /\ post[row.parent].topic = row.topic,
         post' = [x \in Existing \cup {p} |->
                    IF x = p THEN row ELSE post[x]],
         None \notin Posts
  PROVE  TableOK' /\ EveryPostIsReached' /\ Keeps /\ Existing' = Existing \cup {p}
<1>1. /\ Existing' = Existing \cup {p}
      /\ post'[p] = row
      /\ \A x \in Existing : post'[x] = post[x]
  BY DEF Existing
<1>2. Keeps
  BY <1>1 DEF Keeps
<1>3. TableOK'
  <2>1. Existing' \subseteq Posts /\ post' \in [Existing' -> Row]
    BY <1>1 DEF TableOK
  <2>2. QED BY <1>1, <2>1 DEF TableOK
<1>4. ASSUME NEW t \in Topics, NEW S \in SUBSET (PostsOf(t)'),
             Roots(t)' \subseteq S,
             \A x \in S : Replies(t, x)' \subseteq S
      PROVE  S = PostsOf(t)'
  <2> DEFINE T == S \ {p}
  <2>1. PostsOf(t) = PostsOf(t)' \ {p} /\ T \subseteq PostsOf(t)
    BY <1>1 DEF PostsOf
  <2>2. Roots(t) \subseteq T
    <3> SUFFICES ASSUME NEW x \in Roots(t)
                 PROVE  x \in T
      OBVIOUS
    <3>1. x \in PostsOf(t) /\ x \in Existing /\ post[x].topic = t
      BY DEF Roots, PostsOf
    <3>2. post[x].parent = None
      BY <3>1 DEF TableOK, Roots, PostsOf
    <3>3. None \notin PostsOf(t)'
      BY <1>3 DEF PostsOf, TableOK
    <3>4. x \in Roots(t)'
      BY <1>1, <2>1, <3>1, <3>2, <3>3 DEF Roots
    <3>5. QED BY <1>4, <2>1, <3>1, <3>4
  <2>3. \A x \in T : Replies(t, x) \subseteq T
    BY <1>1, <2>1, <1>4 DEF Replies, PostsOf
  <2>4. T = PostsOf(t)
    BY <2>1, <2>2, <2>3 DEF EveryPostIsReached
  <2>5. ASSUME p \in PostsOf(t)'
        PROVE  p \in S
    <3>1. row.topic = t
      BY <1>1, <2>5 DEF PostsOf
    <3>2. CASE row.parent = None
      BY <1>1, <1>4, <2>5, <3>2 DEF Roots, PostsOf, TableOK
    <3>3. CASE row.parent # None
      <4>1. row.parent \in S
        BY <2>4, <3>1, <3>3 DEF PostsOf
      <4>2. p \in Replies(t, row.parent)'
        BY <1>1, <2>5 DEF Replies
      <4>3. QED BY <4>1, <4>2, <1>4
    <3>4. QED BY <3>2, <3>3
  <2>6. QED BY <2>1, <2>4, <2>5
<1>5. EveryPostIsReached'
  BY <1>4 DEF EveryPostIsReached
<1>6. QED BY <1>1, <1>2, <1>3, <1>5
-----------------------------------------------------------------------------
(* Steps of one request                                                    *)

LEMMA RequestMoves ==
  ASSUME TypeOK, RequestsSound, Keeps, NEW r \in Requests, NEW q,
         request' = [request EXCEPT ![r] = q],
         q = Idle \/ SoundIn(post', q)
  PROVE  RequestsSound' /\ request' \in [Requests -> Request \cup {Idle}]
<1>1. q \in Request \cup {Idle}
  BY DEF SoundIn
<1>2. ASSUME NEW x \in Requests
      PROVE  request'[x] = Idle \/ SoundIn(post', request'[x])
  <2>1. CASE x = r
    BY <2>1 DEF TypeOK
  <2>2. CASE x # r
    <3>1. request'[x] = request[x]
      BY <2>2 DEF TypeOK
    <3>2. CASE request[x] = Idle
      BY <3>1, <3>2
    <3>3. CASE SoundIn(post, request[x])
      <4>1. SoundIn(post', request[x])
        BY <3>3, SoundStays
      <4>2. QED BY <3>1, <4>1
    <3>4. QED BY <3>2, <3>3 DEF RequestsSound
  <2>3. QED BY <2>1, <2>2
<1>3. RequestsSound'
  BY <1>2 DEF RequestsSound
<1>4. QED BY <1>1, <1>3 DEF TypeOK

\* A step that leaves the posts alone
LEMMA PostsStay ==
  ASSUME TableOK, EveryPostIsReached, UNCHANGED post
  PROVE  TableOK' /\ EveryPostIsReached' /\ Keeps
<1>1. Existing' = Existing
  BY DEF Existing
<1>2. Keeps
  BY <1>1 DEF Keeps
<1>3. TableOK'
  BY <1>1 DEF TableOK
<1>4. QED BY <1>1, <1>2, <1>3, ReachedStays

LEMMA TypeOfPosts ==
  ASSUME Existing \subseteq Posts, post \in [Existing -> Row]
  PROVE  \E S \in SUBSET Posts : post \in [S -> Row]
OBVIOUS

\* A request in flight is sound; there is nothing else it can be.
LEMMA InFlight ==
  ASSUME IInv, NEW r \in Requests, request[r].pc # "idle"
  PROVE  SoundIn(post, request[r]) /\ request[r] \in Request
<1>1. request[r] # Idle
  BY DEF Idle
<1>2. QED BY <1>1 DEF IInv, RequestsSound, SoundIn

\* Whoever may delete without the challenge's elevation bypasses restrictions.
LEMMA DeletersBypass ==
  ASSUME NEW p, NEW r, NEW f, CanDelete(p, r, f)
  PROVE  Bypasses(p)
BY DEF CanDelete, Elevated

LEMMA DecisionIsSound ==
  ASSUME NEW q, SoundIn(post, q), q.pc = "loaded", PolicyAllows(q)
  PROVE  SoundIn(post, [q EXCEPT !.pc = "decided", !.deleted = FALSE])
<1> DEFINE d == [q EXCEPT !.pc = "decided", !.deleted = FALSE]
<1>1. /\ d \in Request /\ d.pc = "decided"
      /\ d.op = q.op /\ d.post = q.post /\ d.topic = q.topic
      /\ d.wrote = q.wrote /\ d.actor = q.actor
  BY DEF SoundIn, Request
<1>2. ASSUME q.op = "update"
      PROVE  \/ WroteIn(post, q)
             \/ Elevated(Principal[q.actor], Restriction[q.topic],
                         Facts[q.actor, q.topic])
  BY <1>2 DEF PolicyAllows, CanUpdatePost, IsPostAuthor, WroteIn
<1>3. ASSUME q.op = "delete"
      PROVE  Bypasses(Principal[q.actor])
  BY <1>3, DeletersBypass DEF PolicyAllows, CanDeletePost
<1> HIDE DEF d
<1>4. SoundIn(post, d)
  BY <1>1, <1>2, <1>3 DEF SoundIn, WroteIn
<1>5. QED BY <1>4 DEF d

\* The parts of the invariant put together
LEMMA Assemble ==
  ASSUME topic' \in [Topics -> [hidden: BOOLEAN, locked: BOOLEAN]],
         reaction' \in [Posts \X Members -> Reactions \cup {None}],
         request' \in [Requests -> Request \cup {Idle}],
         TableOK', EveryPostIsReached', RequestsSound'
  PROVE  IInv'
<1>1. TypeOK'
  BY DEF TypeOK, TableOK
<1>2. QED BY <1>1 DEF IInv

\* A step that changes only what a request knows
LEMMA RequestStep ==
  ASSUME IInv, NEW r \in Requests, NEW q,
         request' = [request EXCEPT ![r] = q],
         q = Idle \/ SoundIn(post, q),
         UNCHANGED <<topic, post, reaction>>
  PROVE  IInv' /\ Keeps
<1>1. TableOK' /\ EveryPostIsReached' /\ Keeps
  BY PostsStay DEF IInv
<1>2. RequestsSound' /\ request' \in [Requests -> Request \cup {Idle}]
  BY <1>1, RequestMoves DEF IInv
<1>3. QED BY <1>1, <1>2, Assemble DEF IInv, TypeOK

\* A step that writes the posts and ends its request
LEMMA PostStep ==
  ASSUME IInv, NEW r \in Requests, Finish(r), UNCHANGED <<topic, reaction>>,
         TableOK', EveryPostIsReached', Keeps
  PROVE  IInv'
<1>1. RequestsSound' /\ request' \in [Requests -> Request \cup {Idle}]
  BY RequestMoves DEF IInv, Finish
<1>2. QED BY <1>1, Assemble DEF IInv, TypeOK

LEMMA TopicSteps ==
  ASSUME IInv, NEW t \in Topics,
         HideTopic(t) \/ \E locked \in BOOLEAN : SetLocked(t, locked)
  PROVE  IInv' /\ Keeps
<1>1. /\ topic' \in [Topics -> [hidden: BOOLEAN, locked: BOOLEAN]]
      /\ UNCHANGED <<post, reaction, request>>
  BY DEF IInv, TypeOK, HideTopic, SetLocked
<1>2. TableOK' /\ EveryPostIsReached' /\ Keeps
  BY <1>1, PostsStay DEF IInv
<1>3. RequestsSound'
  BY <1>1 DEF IInv, RequestsSound
<1>4. QED BY <1>1, <1>2, <1>3, Assemble DEF IInv, TypeOK

LEMMA BeginCreateStep ==
  ASSUME IInv, NEW r \in Requests, NEW a \in Actors, NEW t \in Topics,
         NEW parent \in Posts \cup {None}, NEW content \in Contents,
         BeginCreate(r, a, t, parent, content)
  PROVE  IInv' /\ Keeps
<1> DEFINE q == [pc |-> "loaded", op |-> "create", actor |-> a, topic |-> t,
                 post |-> parent, wrote |-> content, deleted |-> FALSE]
<1>1. SoundIn(post, q)
  BY DEF SoundIn, Request, Operations
<1>2. request' = [request EXCEPT ![r] = q] /\ UNCHANGED <<topic, post, reaction>>
  BY DEF BeginCreate
<1> HIDE DEF q
<1>3. QED BY <1>1, <1>2, RequestStep

LEMMA LoadPostStep ==
  ASSUME IInv, NEW r \in Requests, NEW op \in Commands \ {"create"},
         NEW a \in Actors, NEW p \in Posts,
         NEW wrote \in Contents \cup Reactions \cup {None},
         LoadPost(r, op, a, p, wrote)
  PROVE  IInv' /\ Keeps
<1> DEFINE q == [pc |-> "loaded", op |-> op, actor |-> a,
                 topic |-> post[p].topic, post |-> p, wrote |-> wrote,
                 deleted |-> post[p].deleted]
<1>1. post[p] \in Row /\ p \in Existing /\ op \in Operations
  BY ThreadAssumption DEF IInv, TableOK, LoadPost
<1>2. q \in Request
  BY <1>1 DEF Request, Row
<1>3. op = "update" => wrote \in Contents
  BY DEF LoadPost
<1>4. op \in {"react", "unreact"} =>
        wrote \in Reactions \cup {None} /\ Principal[a].id \in Members
  BY DEF LoadPost, Members
<1>5. SoundIn(post, q)
  BY <1>1, <1>2, <1>3, <1>4 DEF SoundIn, Existing
<1>6. request' = [request EXCEPT ![r] = q] /\ UNCHANGED <<topic, post, reaction>>
  BY DEF LoadPost
<1> HIDE DEF q
<1>7. QED BY <1>5, <1>6, RequestStep

\* The checks of a request: each ends it or takes it a step further.
LEMMA CheckSteps ==
  ASSUME IInv, NEW r \in Requests,
         Decide(r) \/ EnsurePost(r) \/ EnsureTopic(r)
  PROVE  IInv' /\ Keeps
<1> DEFINE q == request[r]
<1>1. SoundIn(post, q) /\ q \in Request
  BY InFlight DEF Decide, EnsurePost, EnsureTopic
<1>2. CASE Decide(r)
  <2> DEFINE d == IF PolicyAllows(q) /\ LockAllows(q)
                  THEN [q EXCEPT !.pc = "decided", !.deleted = FALSE] ELSE Idle
  <2>1. d = Idle \/ SoundIn(post, d)
    BY <1>1, <1>2, DecisionIsSound DEF Decide
  <2>2. request' = [request EXCEPT ![r] = d]
        /\ UNCHANGED <<topic, post, reaction>>
    BY <1>2 DEF Decide
  <2> HIDE DEF d
  <2>3. QED BY <2>1, <2>2, RequestStep
<1>3. ASSUME NEW pc \in {"found", "active"}, q.pc # "loaded",
             pc = "found" => q.op # "create"
      PROVE  SoundIn(post, [q EXCEPT !.pc = pc])
  BY <1>1, <1>3 DEF SoundIn, WroteIn, Request
<1>4. CASE EnsurePost(r)
  <2> DEFINE d == IF post[q.post].deleted THEN Idle
                                          ELSE [q EXCEPT !.pc = "found"]
  <2>1. d = Idle \/ SoundIn(post, d)
    BY <1>3, <1>4 DEF EnsurePost
  <2>2. request' = [request EXCEPT ![r] = d]
        /\ UNCHANGED <<topic, post, reaction>>
    BY <1>4 DEF EnsurePost
  <2> HIDE DEF d
  <2>3. QED BY <2>1, <2>2, RequestStep
<1>5. CASE EnsureTopic(r)
  <2> DEFINE d == IF topic[q.topic].hidden THEN Idle
                                           ELSE [q EXCEPT !.pc = "active"]
  <2>1. d = Idle \/ SoundIn(post, d)
    BY <1>3, <1>5 DEF EnsureTopic
  <2>2. request' = [request EXCEPT ![r] = d]
        /\ UNCHANGED <<topic, post, reaction>>
    BY <1>5 DEF EnsureTopic
  <2> HIDE DEF d
  <2>3. QED BY <2>1, <2>2, RequestStep
<1>6. QED BY <1>2, <1>4, <1>5

-----------------------------------------------------------------------------
(* Steps that write                                                        *)

LEMMA CreateStep ==
  ASSUME IInv, NEW r \in Requests, NEW p \in Posts, CommitCreate(r, p)
  PROVE  /\ IInv' /\ Keeps
         /\ Readers!Next
<1> DEFINE q == request[r]
           row == [topic |-> q.topic, parent |-> q.post,
                   author |-> Author(q.actor), content |-> q.wrote,
                   deleted |-> FALSE]
<1>1. SoundIn(post, q) /\ q \in Request
  BY InFlight DEF CommitCreate
<1>2. Author(q.actor) \in Members \cup {None}
  BY <1>1 DEF Author, Members, Request
<1>3. /\ row \in Row /\ row.content \in Contents
      /\ row.topic = q.topic /\ row.parent = q.post /\ ~row.deleted
      /\ row.content = q.wrote
  BY <1>1, <1>2 DEF Row, Request, SoundIn, CommitCreate
<1>4. /\ p \notin Existing
      /\ row.parent # None =>
           row.parent \in Existing /\ post[row.parent].topic = row.topic
      /\ post' = [x \in Existing \cup {p} |-> IF x = p THEN row ELSE post[x]]
      /\ Finish(r) /\ UNCHANGED <<topic, reaction>>
  BY DEF CommitCreate, ParentExists
<1> HIDE DEF row
<1>5. TableOK' /\ EveryPostIsReached' /\ Keeps /\ Existing' = Existing \cup {p}
  BY <1>3, <1>4, RowCreated, ThreadAssumption DEF IInv
<1>6. IInv'
  BY <1>4, <1>5, PostStep
<1>7. Readers!Add(p, row.topic, row.parent, row.content)
  BY <1>3, <1>4, <1>5 DEF Readers!Add, Shown, ShownPosts
<1>8. Readers!Next
  BY <1>1, <1>3, <1>7 DEF Readers!Next, Request
<1>9. QED BY <1>5, <1>6, <1>8

LEMMA UpdateStep ==
  ASSUME IInv, NEW r \in Requests, CommitUpdate(r)
  PROVE  /\ IInv' /\ Keeps
         /\ Readers!Next \/ UNCHANGED ShownPosts
<1> DEFINE q == request[r]
           row == [post[q.post] EXCEPT !.content = q.wrote]
<1>1. SoundIn(post, q) /\ q \in Request
  BY InFlight DEF CommitUpdate
<1>2. q.post \in Existing /\ q.wrote \in Contents /\ post[q.post] \in Row
  BY <1>1 DEF CommitUpdate, SoundIn, IInv, TableOK, Existing
<1>3. /\ row \in Row /\ row.topic = post[q.post].topic
      /\ row.author = post[q.post].author /\ row.parent = post[q.post].parent
      /\ row.content = q.wrote /\ row.deleted = post[q.post].deleted
  BY <1>2 DEF Row
<1>4. /\ post' = [post EXCEPT ![q.post] = row]
      /\ Finish(r) /\ UNCHANGED <<topic, reaction>>
  BY DEF CommitUpdate
<1> HIDE DEF row
<1>5. TableOK' /\ EveryPostIsReached' /\ Keeps /\ Existing' = Existing
  BY <1>2, <1>3, <1>4, RowWritten DEF IInv
<1>6. IInv'
  BY <1>4, <1>5, PostStep
<1>7. /\ post'[q.post] = row
      /\ \A x \in Existing : x # q.post => post'[x] = post[x]
  BY <1>2, <1>4 DEF Existing
<1>8. CASE post[q.post].deleted
  <2>1. \A x \in Existing :
          /\ post'[x].topic = post[x].topic /\ post'[x].parent = post[x].parent
          /\ Shown(post'[x]) = Shown(post[x])
    BY <1>3, <1>7, <1>8 DEF Shown
  <2>2. UNCHANGED ShownPosts
    BY <1>5, <2>1 DEF ShownPosts
  <2>3. QED BY <1>5, <1>6, <2>2
<1>9. CASE ~post[q.post].deleted
  <2>1. post[q.post].content # None
    BY <1>2, <1>9, ThreadAssumption DEF IInv, TableOK
  <2>2. Readers!Edit(q.post, q.wrote)
    BY <1>2, <1>3, <1>5, <1>7, <1>9, <2>1 DEF Readers!Edit, ShownPosts, Shown
  <2>3. QED BY <1>2, <1>5, <1>6, <2>2 DEF Readers!Next, IInv, TableOK
<1>10. QED BY <1>8, <1>9

LEMMA DeleteStep ==
  ASSUME IInv, NEW r \in Requests, CommitDelete(r)
  PROVE  /\ IInv' /\ Keeps
         /\ Readers!Next \/ UNCHANGED ShownPosts
<1> DEFINE q == request[r]
           row == [post[q.post] EXCEPT !.content = None, !.deleted = TRUE]
<1>1. SoundIn(post, q) /\ q \in Request
  BY InFlight DEF CommitDelete
<1>2. q.post \in Existing /\ post[q.post] \in Row
  BY <1>1 DEF CommitDelete, SoundIn, IInv, TableOK, Existing
<1>3. /\ row \in Row /\ row.topic = post[q.post].topic
      /\ row.author = post[q.post].author /\ row.parent = post[q.post].parent
      /\ row.content = None /\ row.deleted
  BY <1>2 DEF Row
<1>4. /\ post' = [post EXCEPT ![q.post] = row]
      /\ Finish(r) /\ UNCHANGED <<topic, reaction>>
  BY <1>2 DEF CommitDelete, IInv, TableOK
<1> HIDE DEF row
<1>5. TableOK' /\ EveryPostIsReached' /\ Keeps /\ Existing' = Existing
  BY <1>2, <1>3, <1>4, RowWritten DEF IInv
<1>6. IInv'
  BY <1>4, <1>5, PostStep
<1>7. /\ post'[q.post] = row
      /\ \A x \in Existing : x # q.post => post'[x] = post[x]
  BY <1>2, <1>4 DEF Existing
<1>8. CASE post[q.post].deleted
  <2>1. \A x \in Existing :
          /\ post'[x].topic = post[x].topic /\ post'[x].parent = post[x].parent
          /\ Shown(post'[x]) = Shown(post[x])
    BY <1>3, <1>7, <1>8 DEF Shown
  <2>2. UNCHANGED ShownPosts
    BY <1>5, <2>1 DEF ShownPosts
  <2>3. QED BY <1>5, <1>6, <2>2
<1>9. CASE ~post[q.post].deleted
  <2>1. post[q.post].content # None
    BY <1>2, <1>9, ThreadAssumption DEF IInv, TableOK
  <2>2. Readers!Remove(q.post)
    BY <1>2, <1>3, <1>5, <1>7, <1>9, <2>1 DEF Readers!Remove, ShownPosts, Shown
  <2>3. QED BY <1>2, <1>5, <1>6, <2>2 DEF Readers!Next, IInv, TableOK
<1>10. QED BY <1>8, <1>9

LEMMA ReactionStep ==
  ASSUME IInv, NEW r \in Requests, CommitReaction(r)
  PROVE  IInv' /\ Keeps
<1> DEFINE q == request[r]
<1>1. SoundIn(post, q)
  BY InFlight DEF CommitReaction
<1>2. reaction' \in [Posts \X Members -> Reactions \cup {None}]
  BY <1>1 DEF CommitReaction, SoundIn, IInv, TypeOK
<1>3. TableOK' /\ EveryPostIsReached' /\ Keeps
  BY PostsStay DEF CommitReaction, IInv
<1>4. RequestsSound' /\ request' \in [Requests -> Request \cup {Idle}]
  BY <1>3, RequestMoves DEF CommitReaction, Finish, IInv
<1>5. QED BY <1>2, <1>3, <1>4, Assemble DEF CommitReaction, IInv, TypeOK

\* What TableOK and the rest are worth: every step keeps them, and is a step of
\* the thread that readers see or changes nothing of it.
LEMMA NextIInv ==
  ASSUME IInv, [Next]_vars
  PROVE  /\ IInv' /\ Keeps
         /\ [Readers!Next]_ShownPosts
<1>1. ASSUME UNCHANGED post
      PROVE  UNCHANGED ShownPosts
  BY <1>1 DEF ShownPosts, Shown, Existing
<1>2. ASSUME NEW t \in Topics,
             HideTopic(t) \/ \E locked \in BOOLEAN : SetLocked(t, locked)
      PROVE  IInv' /\ Keeps /\ [Readers!Next]_ShownPosts
  BY <1>1, <1>2, TopicSteps DEF HideTopic, SetLocked
<1>3. ASSUME NEW r \in Requests, NEW a \in Actors, NEW t \in Topics,
             NEW parent \in Posts \cup {None}, NEW content \in Contents,
             BeginCreate(r, a, t, parent, content)
      PROVE  IInv' /\ Keeps /\ [Readers!Next]_ShownPosts
  BY <1>1, <1>3, BeginCreateStep DEF BeginCreate
<1>4. ASSUME NEW r \in Requests, NEW op \in Commands \ {"create"},
             NEW a \in Actors, NEW p \in Posts,
             NEW wrote \in Contents \cup Reactions \cup {None},
             LoadPost(r, op, a, p, wrote)
      PROVE  IInv' /\ Keeps /\ [Readers!Next]_ShownPosts
  BY <1>1, <1>4, LoadPostStep DEF LoadPost
<1>5. ASSUME NEW r \in Requests,
             Decide(r) \/ EnsurePost(r) \/ EnsureTopic(r)
      PROVE  IInv' /\ Keeps /\ [Readers!Next]_ShownPosts
  BY <1>1, <1>5, CheckSteps DEF Decide, EnsurePost, EnsureTopic
<1>6. ASSUME NEW r \in Requests, NEW p \in Posts, CommitCreate(r, p)
      PROVE  IInv' /\ Keeps /\ [Readers!Next]_ShownPosts
  BY <1>6, CreateStep
<1>7. ASSUME NEW r \in Requests, CommitUpdate(r) \/ CommitDelete(r)
      PROVE  IInv' /\ Keeps /\ [Readers!Next]_ShownPosts
  BY <1>7, UpdateStep, DeleteStep
<1>8. ASSUME NEW r \in Requests, CommitReaction(r)
      PROVE  IInv' /\ Keeps /\ [Readers!Next]_ShownPosts
  BY <1>1, <1>8, ReactionStep DEF CommitReaction
<1>9. ASSUME NEW r \in Requests, Fail(r)
      PROVE  IInv' /\ Keeps /\ [Readers!Next]_ShownPosts
  BY <1>1, <1>9, RequestStep DEF Fail, Finish
<1>10. CASE UNCHANGED vars
  <2>1. TableOK' /\ EveryPostIsReached' /\ Keeps
    BY <1>10, PostsStay DEF vars, IInv
  <2>2. RequestsSound'
    BY <1>10 DEF vars, IInv, RequestsSound
  <2>3. QED BY <1>1, <1>10, <2>1, <2>2, Assemble DEF vars, IInv, TypeOK
<1>11. QED
  BY <1>2, <1>3, <1>4, <1>5, <1>6, <1>7, <1>8, <1>9, <1>10 DEF Next

THEOREM Invariance == Spec => []IInv
<1>1. IInv /\ [Next]_vars => IInv'
  BY NextIInv
<1>2. QED BY InitIInv, <1>1, PTL DEF Spec

-----------------------------------------------------------------------------
(* The theorems                                                            *)

\* Topics, posts, reactions and requests keep their types.
THEOREM TypeCorrect == Spec => []TypeOK
<1>1. IInv => TypeOK
  BY DEF IInv
<1>2. QED BY Invariance, <1>1, PTL

\* Topic detail never loses a post of its topic, whatever replies, deletions
\* and updates race.
THEOREM ThreadsAreComplete == Spec => []EveryPostIsReached
<1>1. IInv => EveryPostIsReached
  BY DEF IInv
<1>2. QED BY Invariance, <1>1, PTL

\* What readers see of the stored posts is a thread as Thread specifies it.
THEOREM ThreadImplemented == Spec => ImplementsThread
<1>1. Init => Readers!Init
  <2> SUFFICES ASSUME Init
               PROVE  Readers!Init
    OBVIOUS
  <2>1. Existing = {}
    BY DEF Init, Existing
  <2>2. ShownPosts = [p \in {} |-> None]
    BY <2>1 DEF ShownPosts
  <2>3. QED BY <2>2 DEF Readers!Init
<1>2. IInv /\ [Next]_vars => [Readers!Next]_ShownPosts
  BY NextIInv
<1>3. QED BY <1>1, <1>2, Invariance, PTL DEF Spec, ImplementsThread, Readers!Spec

-----------------------------------------------------------------------------
(* Action properties                                                       *)

\* A request does not newly hold what is hidden or deleted.
StaysOut(x) ==
  LET old == request[x]
      new == request'[x]
  IN /\ new.pc = "active" /\ topic[new.topic].hidden => old.pc = "active"
     /\ new.pc \in {"found", "active"} /\ new.op # "create"
        /\ post[new.post].deleted => old.pc \in {"found", "active"}

LEMMA OthersStayOut ==
  ASSUME NEW x, request'[x] = request[x] \/ request'[x] = Idle
  PROVE  StaysOut(x)
BY DEF StaysOut, Idle

LEMMA AllStayOut ==
  ASSUME IInv, [Next]_vars
  PROVE  \A x \in Requests : StaysOut(x)
<1> SUFFICES ASSUME NEW x \in Requests
             PROVE  StaysOut(x)
  OBVIOUS
<1>1. ASSUME NEW r \in Requests, NEW q, request' = [request EXCEPT ![r] = q]
      PROVE  request'[x] = IF x = r THEN q ELSE request[x]
  BY <1>1 DEF IInv, TypeOK
<1>2. ASSUME NEW r \in Requests, Finish(r)
      PROVE  StaysOut(x)
  BY <1>1, <1>2, OthersStayOut DEF Finish
<1>3. ASSUME UNCHANGED request
      PROVE  StaysOut(x)
  BY <1>3, OthersStayOut
<1>4. ASSUME NEW r \in Requests, NEW q, request' = [request EXCEPT ![r] = q],
             q.pc = "loaded"
      PROVE  StaysOut(x)
  BY <1>1, <1>4, OthersStayOut DEF StaysOut
<1>5. ASSUME NEW r \in Requests, Decide(r)
      PROVE  StaysOut(x)
  <2> DEFINE q == request[r]
             d == [q EXCEPT !.pc = "decided", !.deleted = FALSE]
  <2>1. d.pc = "decided"
    BY <1>5, InFlight DEF Decide, Request
  <2>2. request' = [request EXCEPT ![r] = d] \/ Finish(r)
    BY <1>5 DEF Decide, Finish
  <2> HIDE DEF d
  <2>3. QED BY <1>1, <1>2, <2>1, <2>2, OthersStayOut DEF StaysOut
<1>6. ASSUME NEW r \in Requests, EnsurePost(r)
      PROVE  StaysOut(x)
  <2> DEFINE q == request[r]
             d == [q EXCEPT !.pc = "found"]
  <2>1. d.pc = "found" /\ d.post = q.post
    BY <1>6, InFlight DEF EnsurePost, Request
  <2>2. \/ request' = [request EXCEPT ![r] = d] /\ ~post[q.post].deleted
        \/ Finish(r)
    BY <1>6 DEF EnsurePost, Finish
  <2> HIDE DEF d
  <2>3. QED BY <1>1, <1>2, <2>1, <2>2, OthersStayOut DEF StaysOut
<1>7. ASSUME NEW r \in Requests, EnsureTopic(r)
      PROVE  StaysOut(x)
  <2> DEFINE q == request[r]
             d == [q EXCEPT !.pc = "active"]
  <2>1. /\ d.pc = "active" /\ d.topic = q.topic /\ d.op = q.op
        /\ q.op # "create" => q.pc = "found"
    BY <1>7, InFlight DEF EnsureTopic, Request
  <2>2. \/ request' = [request EXCEPT ![r] = d] /\ ~topic[q.topic].hidden
        \/ Finish(r)
    BY <1>7 DEF EnsureTopic, Finish
  <2> HIDE DEF d
  <2>3. QED BY <1>1, <1>2, <2>1, <2>2, OthersStayOut DEF StaysOut
<1>8. ASSUME NEW r \in Requests, NEW a, NEW t, NEW parent, NEW content,
             BeginCreate(r, a, t, parent, content)
      PROVE  StaysOut(x)
  BY <1>4, <1>8 DEF BeginCreate
<1>9. ASSUME NEW r \in Requests, NEW op, NEW a, NEW p, NEW wrote,
             LoadPost(r, op, a, p, wrote)
      PROVE  StaysOut(x)
  BY <1>4, <1>9 DEF LoadPost
<1>10. QED
  BY <1>2, <1>3, <1>5, <1>6, <1>7, <1>8, <1>9
     DEF Next, vars, HideTopic, SetLocked, Fail, CommitCreate, CommitUpdate,
         CommitDelete, CommitReaction

\* After a deletion only the transactions that were past their checks write.
THEOREM WritersStayOutOfDeleted == Spec => NoWriterEntersDeleted
<1>1. IInv /\ [Next]_vars =>
        [\A r \in Requests :
           LET old == request[r]
               new == request'[r]
           IN /\ new.pc = "active" /\ topic[new.topic].hidden =>
                   old.pc = "active"
              /\ new.pc \in {"found", "active"} /\ new.op # "create"
                 /\ post[new.post].deleted => old.pc \in {"found", "active"}]_vars
  BY AllStayOut DEF StaysOut
<1>2. QED BY <1>1, Invariance, PTL DEF Spec, NoWriterEntersDeleted

\* Who changes the text of a visible post
EditedBy(r, p) ==
  LET q == request[r]
      actor == Principal[q.actor]
  IN /\ q.pc = "active" /\ q.post = p /\ q.op # "create"
     /\ IF post'[p].deleted
        THEN Bypasses(actor)
        ELSE \/ IsPostAuthor(q.actor, p)
             \/ Elevated(actor, Restriction[post[p].topic],
                         Facts[q.actor, post[p].topic])

LEMMA EditsAuthorized ==
  ASSUME IInv, [Next]_vars, NEW p \in Existing,
         Shown(post'[p]) # Shown(post[p])
  PROVE  \E r \in Requests : EditedBy(r, p)
<1>1. ~UNCHANGED post
  OBVIOUS
<1>2. ASSUME NEW r \in Requests, NEW x \in Posts, CommitCreate(r, x)
      PROVE  FALSE
  BY <1>2 DEF CommitCreate
<1>3. ASSUME NEW r \in Requests, CommitUpdate(r)
      PROVE  EditedBy(r, p)
  <2>1. SoundIn(post, request[r])
    BY <1>3, InFlight DEF CommitUpdate
  <2>2. /\ request[r].post = p
        /\ post'[p].deleted = post[p].deleted
    BY <1>3, <2>1 DEF CommitUpdate, SoundIn, IInv, TableOK, Row
  <2>3. QED BY <1>3, <2>1, <2>2
            DEF CommitUpdate, EditedBy, SoundIn, WroteIn, IsPostAuthor, Shown
<1>4. ASSUME NEW r \in Requests, CommitDelete(r)
      PROVE  EditedBy(r, p)
  <2>1. SoundIn(post, request[r])
    BY <1>4, InFlight DEF CommitDelete
  <2>2. request[r].post = p /\ post'[p].deleted
    BY <1>4, <2>1 DEF CommitDelete, SoundIn, IInv, TableOK, Row
  <2>3. QED BY <1>4, <2>1, <2>2 DEF CommitDelete, EditedBy, SoundIn
<1>5. QED
  BY <1>1, <1>2, <1>3, <1>4
     DEF Next, vars, HideTopic, SetLocked, BeginCreate, LoadPost, Decide,
         EnsurePost, EnsureTopic, CommitReaction, Fail

\* Texts are replaced by their author or with elevation, and removed only by
\* those who bypass restrictions, although the decision is older than the write.
THEOREM EditsAreAuthorized == Spec => OnlyAuthorizedEdits
<1>1. IInv /\ [Next]_vars =>
        [\A p \in Existing : Shown(post'[p]) # Shown(post[p]) =>
           \E r \in Requests :
             LET q == request[r]
                 actor == Principal[q.actor]
             IN /\ q.pc = "active" /\ q.post = p /\ q.op # "create"
                /\ IF post'[p].deleted
                   THEN Bypasses(actor)
                   ELSE \/ IsPostAuthor(q.actor, p)
                        \/ Elevated(actor, Restriction[post[p].topic],
                                    Facts[q.actor, post[p].topic])]_vars
  BY EditsAuthorized DEF EditedBy
<1>2. QED BY <1>1, Invariance, PTL DEF Spec, OnlyAuthorizedEdits
=============================================================================
