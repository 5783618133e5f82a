----------------------------- MODULE PostThread -----------------------------
(***************************************************************************)
(* The Post and PostReaction tables and the commands that write them:      *)
(* createPost, updatePost, deletePost, setPostReaction and                 *)
(* removePostReaction.  As in TopicTree a request record holds what a      *)
(* command has read, and one action is one step between two awaits:        *)
(*                                                                         *)
(*   LoadPost     findUnique of the post (createPost begins without)       *)
(*   Decide       topic row and ancestors, then policy and lock decision   *)
(*   EnsurePost   the transaction: the row of the post again               *)
(*   EnsureTopic  and then the topic and its ancestors                     *)
(*   Commit...    its writes, by id                                        *)
(*                                                                         *)
(* Of a topic only two things move here: `hidden' (it or an ancestor was   *)
(* soft-deleted, for good) and `locked'; module TopicTree says how.  Its   *)
(* restrictions are constants.  Reads of the same topic and ancestors are  *)
(* one step, because hiding is permanent.                                  *)
(*                                                                         *)
(* Handles, timestamps and the audit columns are left out, and so is the   *)
(* author's TopicReadState row, which no command reads.  Every command     *)
(* begins with the ban check of module ActiveBans.  The counts in the      *)
(* answer of a reaction change nothing and are left out too.               *)
(***************************************************************************)
EXTENDS ForumsPolicy

CONSTANTS Topics,        \* topic ids, all existing
          Posts,         \* post ids the database may hand out
          Contents,      \* texts
          Actors,        \* callers
          Requests,      \* requests in flight at once
          Commands,      \* the commands issued: an instance's bound
          Principal,     \* actor -> its principal
          Restriction,   \* topic -> its effective restrictions
          Acl,           \* topic -> the category rules that govern it
          Facts          \* [actor, topic] -> what the lookups return

Operations == {"create", "update", "delete", "react", "unreact"}

Reactions == {"THUMBS_UP", "THUMBS_DOWN"}

Members == {Principal[a].id : a \in Actors} \ {None}

ASSUME ThreadAssumption ==
  /\ None \notin Topics \cup Posts \cup Contents
  /\ Commands \subseteq Operations
  /\ \A a \in Actors : Principal[a].machine \in BOOLEAN

VARIABLES topic,     \* topic -> [hidden, locked]
          post,      \* the Post table: a function on the ids that exist
          reaction,  \* the PostReaction table: [post, member] -> value or None
          request    \* request -> what it does and has read

vars == <<topic, post, reaction, request>>

Row == [topic: Topics, parent: Posts \cup {None},
        author: Members \cup {None}, content: Contents \cup {None},
        deleted: BOOLEAN]

\* A request: `post` is the target, or the parent a reply names; `wrote` is
\* the text or the reaction it brings; `deleted` is what LoadPost read.
Request == [pc: {"loaded", "decided", "found", "active"}, op: Operations,
            actor: Actors, topic: Topics, post: Posts \cup {None},
            wrote: Contents \cup Reactions \cup {None}, deleted: BOOLEAN]

Idle == [pc |-> "idle"]

Existing == DOMAIN post

TypeOK ==
  /\ topic \in [Topics -> [hidden: BOOLEAN, locked: BOOLEAN]]
  /\ \E S \in SUBSET Posts : post \in [S -> Row]
  /\ reaction \in [Posts \X Members -> Reactions \cup {None}]
  /\ request \in [Requests -> Request \cup {Idle}]

-----------------------------------------------------------------------------
(* Decisions                                                               *)

IsPostAuthor(a, p) ==
  Principal[a].id # None /\ post[p].author = Principal[a].id

\* decideForTopic and decideForPost, for the action a request asks for
PolicyAllows(q) ==
  LET p == Principal[q.actor]
      available == ~topic[q.topic].hidden
      acl == Acl[q.topic]
      r == Restriction[q.topic]
      f == Facts[q.actor, q.topic]
  IN CASE q.op = "create" -> CanCreatePost(p, p, available, acl, r, f)
       [] q.op = "update" -> CanUpdatePost(p, available, acl, r, f,
                                           IsPostAuthor(q.actor, q.post),
                                           q.deleted)
       [] q.op = "delete" -> CanDeletePost(p, available, acl, r, f, q.deleted)
       [] OTHER           -> CanView(p, available, acl, r, f) /\ ~q.deleted

\* Reactions do not change discussion content and pass locks.
LockAllows(q) ==
  \/ q.op \in {"react", "unreact"}
  \/ CanMutateLocked(Principal[q.actor], topic[q.topic].locked,
                     Restriction[q.topic].challenge,
                     Facts[q.actor, q.topic])

\* Machines write as the fixed system author, which is no member.
Author(a) == IF Principal[a].machine THEN None ELSE Principal[a].id

-----------------------------------------------------------------------------
(* Actions                                                                 *)

Init ==
  /\ topic = [t \in Topics |-> [hidden |-> FALSE, locked |-> FALSE]]
  /\ post = [p \in {} |-> None]
  /\ reaction = [x \in Posts \X Members |-> None]
  /\ request = [r \in Requests |-> Idle]

\* The commands of TopicTree, as far as they move a topic here
HideTopic(t) ==
  /\ ~topic[t].hidden
  /\ topic' = [topic EXCEPT ![t].hidden = TRUE]
  /\ UNCHANGED <<post, reaction, request>>

SetLocked(t, locked) ==
  /\ topic[t].locked # locked
  /\ topic' = [topic EXCEPT ![t].locked = locked]
  /\ UNCHANGED <<post, reaction, request>>

BeginCreate(r, a, t, parent, content) ==
  /\ request[r] = Idle
  /\ Authenticated(Principal[a])
  /\ request' = [request EXCEPT ![r] =
       [pc |-> "loaded", op |-> "create", actor |-> a, topic |-> t,
        post |-> parent, wrote |-> content, deleted |-> FALSE]]
  /\ UNCHANGED <<topic, post, reaction>>

\* A post that does not exist answers 404 and changes nothing.
LoadPost(r, op, a, p, wrote) ==
  /\ request[r] = Idle
  /\ Authenticated(Principal[a])
  /\ wrote \in CASE op = "update" -> Contents
                 [] op = "react"  -> Reactions
                 [] OTHER         -> {None}
  /\ op \in {"react", "unreact"} =>
       ~Principal[a].machine /\ Principal[a].id # None
  /\ p \in Existing
  /\ request' = [request EXCEPT ![r] =
       [pc |-> "loaded", op |-> op, actor |-> a, topic |-> post[p].topic,
        post |-> p, wrote |-> wrote, deleted |-> post[p].deleted]]
  /\ UNCHANGED <<topic, post, reaction>>

Decide(r) ==
  LET q == request[r]
  IN /\ q.pc = "loaded"
     /\ request' = [request EXCEPT ![r] =
          IF PolicyAllows(q) /\ LockAllows(q)
          THEN [q EXCEPT !.pc = "decided", !.deleted = FALSE] ELSE Idle]
     /\ UNCHANGED <<topic, post, reaction>>

\* Mutant of EnsurePost: the row has to exist only.
EnsurePostExists(r) ==
  LET q == request[r]
  IN /\ q.pc = "decided" /\ q.op # "create"
     /\ request' = [request EXCEPT ![r] =
          IF q.post \in Existing THEN [q EXCEPT !.pc = "found"] ELSE Idle]
     /\ UNCHANGED <<topic, post, reaction>>

\* ensureMutablePost; deletePost, too, goes no further with a deleted post,
\* and answers with its row.
EnsurePost(r) ==
  LET q == request[r]
  IN /\ q.pc = "decided" /\ q.op # "create"
     /\ request' = [request EXCEPT ![r] =
          IF post[q.post].deleted THEN Idle ELSE [q EXCEPT !.pc = "found"]]
     /\ UNCHANGED <<topic, post, reaction>>

\* ensureActiveTopic
EnsureTopic(r) ==
  LET q == request[r]
  IN /\ \/ q.pc = "decided" /\ q.op = "create"
        \/ q.pc = "found"
     /\ request' = [request EXCEPT ![r] =
          IF topic[q.topic].hidden THEN Idle ELSE [q EXCEPT !.pc = "active"]]
     /\ UNCHANGED <<topic, post, reaction>>

Finish(r) == request' = [request EXCEPT ![r] = Idle]

\* An exception, a lost connection or a crash: nothing was written.
Fail(r) ==
  /\ request[r] # Idle
  /\ Finish(r)
  /\ UNCHANGED <<topic, post, reaction>>

\* Mutant of ParentExists: any post id is accepted.
ParentNamed(q) == q.post \in Posts \cup {None}

\* resolvePostParent finds the parent in the topic, deleted or not; without
\* one the request fails.
ParentExists(q) ==
  q.post # None => q.post \in Existing /\ post[q.post].topic = q.topic

CommitCreate(r, p) ==
  LET q == request[r]
  IN /\ q.pc = "active" /\ q.op = "create"
     /\ ParentExists(q)
     /\ p \notin Existing
     /\ post' = [x \in Existing \cup {p} |->
          IF x = p THEN [topic |-> q.topic, parent |-> q.post,
                         author |-> Author(q.actor), content |-> q.wrote,
                         deleted |-> FALSE]
                   ELSE post[x]]
     /\ Finish(r)
     /\ UNCHANGED <<topic, reaction>>

CommitUpdate(r) ==
  LET q == request[r]
  IN /\ q.pc = "active" /\ q.op = "update"
     /\ post' = [post EXCEPT ![q.post].content = q.wrote]
     /\ Finish(r)
     /\ UNCHANGED <<topic, reaction>>

CommitDelete(r) ==
  LET q == request[r]
  IN /\ q.pc = "active" /\ q.op = "delete"
     /\ post' = [post EXCEPT ![q.post].content = None,
                             ![q.post].deleted = TRUE]
     /\ Finish(r)
     /\ UNCHANGED <<topic, reaction>>

\* The upsert or the deleteMany of the caller's reaction
CommitReaction(r) ==
  LET q == request[r]
  IN /\ q.pc = "active" /\ q.op \in {"react", "unreact"}
     /\ reaction' = [reaction EXCEPT
                       ![<<q.post, Principal[q.actor].id>>] = q.wrote]
     /\ Finish(r)
     /\ UNCHANGED <<topic, post>>

Next ==
  \/ \E t \in Topics : HideTopic(t)
  \/ \E t \in Topics, locked \in BOOLEAN : SetLocked(t, locked)
  \/ \E r \in Requests, a \in Actors, t \in Topics,
       parent \in Posts \cup {None}, content \in Contents :
       "create" \in Commands /\ BeginCreate(r, a, t, parent, content)
  \/ \E r \in Requests, op \in Commands \ {"create"}, a \in Actors,
       p \in Posts, wrote \in Contents \cup Reactions \cup {None} :
       LoadPost(r, op, a, p, wrote)
  \/ \E r \in Requests : Decide(r)
  \/ \E r \in Requests : EnsurePost(r)
  \/ \E r \in Requests : EnsureTopic(r)
  \/ \E r \in Requests, p \in Posts : CommitCreate(r, p)
  \/ \E r \in Requests : CommitUpdate(r)
  \/ \E r \in Requests : CommitDelete(r)
  \/ \E r \in Requests : CommitReaction(r)
  \/ \E r \in Requests : Fail(r)

Spec == Init /\ [][Next]_vars

-----------------------------------------------------------------------------
(* Properties                                                              *)

\* Mutant of Shown: the stored text of a deleted post reaches the reader.
ShownAsStored(row) == row.content

\* mapPostNode: what topic detail shows of a row
Shown(row) == IF row.deleted THEN None ELSE row.content

PostsOf(t) == {p \in Existing : post[p].topic = t}

\* buildPostTree: a post is a reply below its parent if the topic's rows hold
\* it, and else a root.
Roots(t) == {p \in PostsOf(t) : post[p].parent \notin PostsOf(t)}

Replies(t, p) == {x \in PostsOf(t) : post[x].parent = p}

ShownPosts == [p \in Existing |-> [topic |-> post[p].topic,
                                   parent |-> post[p].parent,
                                   content |-> Shown(post[p])]]

Readers == INSTANCE Thread WITH shown <- ShownPosts

\* Readers of topic detail see a thread: replies below posts of their topic,
\* edits until a deletion, and nothing of a post from its deletion on, although
\* updates that raced it may still write the stored row.
ImplementsThread == Readers!Spec

\* Topic detail loses no post: whatever holds the roots, and of every post the
\* replies, holds all posts of the topic.
EveryPostIsReached ==
  \A t \in Topics : \A S \in SUBSET PostsOf(t) :
    Roots(t) \subseteq S /\ (\A p \in S : Replies(t, p) \subseteq S)
      => S = PostsOf(t)

\* Once a topic is hidden, only the transactions that had found it active can
\* still write to it, and once a post is deleted, only those that had found its
\* row: whatever was decided before, their number never grows.
NoWriterEntersDeleted ==
  [][\A r \in Requests :
       LET old == request[r]
           new == request'[r]
       IN /\ new.pc = "active" /\ topic[new.topic].hidden =>
               old.pc = "active"
          /\ new.pc \in {"found", "active"} /\ new.op # "create"
             /\ post[new.post].deleted => old.pc \in {"found", "active"}]_vars

\* The text of a visible post is replaced only by its author, or by someone
\* with elevation in its topic, and it is removed only by an administrator or
\* a machine: not by a copilot, not by its author.
OnlyAuthorizedEdits ==
  [][\A p \in Existing : Shown(post'[p]) # Shown(post[p]) =>
       \E r \in Requests :
         LET q == request[r]
             actor == Principal[q.actor]
         IN /\ q.pc = "active" /\ q.post = p /\ q.op # "create"
            /\ IF post'[p].deleted
               THEN Bypasses(actor)
               ELSE \/ IsPostAuthor(q.actor, p)
                    \/ Elevated(actor, Restriction[post[p].topic],
                                Facts[q.actor, post[p].topic])]_vars
=============================================================================
