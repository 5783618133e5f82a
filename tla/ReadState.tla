------------------------------- MODULE ReadState -------------------------------
(***************************************************************************)
(* Read states of one topic: what markTopicRead and createPost write to the *)
(* member's TopicReadState row while other calls run, and the unread flags  *)
(* that topic detail and the public catalog derive from it.                 *)
(*                                                                          *)
(* A call is one request.  Its transaction shows nothing before it commits, *)
(* and the upsert of a read state waits for a transaction that has written  *)
(* the same row.  Time is a counter of milliseconds: several steps may fall *)
(* into one.                                                                *)
(***************************************************************************)
EXTENDS Naturals

CONSTANTS Members,
          System,     \* the author of machine calls, which keep no read state
          Calls,      \* requests
          Author,     \* the member who created the topic
          Starter,    \* the starter post
          MaxClock    \* bound: the last millisecond

ASSUME NamesAssumption ==
    Author \in Members /\ System \notin Members /\ Starter \notin Calls
ASSUME ClockAssumption == MaxClock \in Nat \ {0}

VARIABLES clock,
          active,     \* whether the topic is not deleted
          posts,      \* committed posts: author and time
          deleted,    \* those of them that are deleted
          mark,       \* lastReadAt of every member
          call

vars == <<clock, active, posts, deleted, mark, call>>

Never == 0   \* no read state row: before every time

Idle == [kind |-> "none", member |-> System, phase |-> "idle",
         began |-> 0, at |-> 0, saw |-> {}, overtakers |-> {}, earlier |-> {}]

\* createTopic seeds the author's read state with the time of the starter.
Init ==
    /\ clock = 1
    /\ active = TRUE
    /\ posts = [p \in {Starter} |-> [author |-> Author, at |-> 1]]
    /\ deleted = {}
    /\ mark = [m \in Members |-> IF m = Author THEN 1 ELSE Never]
    /\ call = [c \in Calls |-> Idle]

-----------------------------------------------------------------------------
(* The unread flags.                                                        *)

\* Mutant: deleted posts count.
PostsOfTopic == DOMAIN posts

Visible == DOMAIN posts \ deleted

\* Topic detail and topic lists compare the latest visible post.
IsLatest(p) ==
    /\ p \in Visible
    /\ \A q \in Visible : posts[q].at <= posts[p].at

DetailUnread(m) ==
    \E p \in DOMAIN posts :
        /\ IsLatest(p)
        /\ mark[m] = Never \/ mark[m] < posts[p].at

\* The catalog looks for any unread post.
CatalogUnread(m) ==
    \E p \in DOMAIN posts \ deleted :
        mark[m] = Never \/ posts[p].at > mark[m]

-----------------------------------------------------------------------------
(* Calls.                                                                   *)

Goto(c, phase) == call' = [call EXCEPT ![c].phase = phase]

Running == {"stamped", "begun", "written"}

\* markTopicRead takes its timestamp after the target is resolved, before the
\* topic is loaded and the policy asked.
StartMark(c, m) ==
    /\ call[c].phase = "idle"
    /\ call' = [call EXCEPT ![c] =
                  [kind |-> "mark", member |-> m, phase |-> "stamped",
                   began |-> clock, at |-> clock, saw |-> DOMAIN posts,
                   overtakers |-> {}, earlier |-> {}]]
    /\ UNCHANGED <<clock, active, posts, deleted, mark>>

\* createPost by a member, or by a machine, up to its transaction.
StartPost(c, m) ==
    /\ call[c].phase = "idle"
    /\ call' = [call EXCEPT ![c] =
                  [kind |-> "post", member |-> m, phase |-> "stamped",
                   began |-> clock, at |-> Never, saw |-> DOMAIN posts,
                   overtakers |-> {}, earlier |-> {}]]
    /\ UNCHANGED <<clock, active, posts, deleted, mark>>

\* The transaction begins and finds the topic active.
Begin(c) ==
    /\ call[c].phase = "stamped"
    /\ active
    /\ Goto(c, "begun")
    /\ UNCHANGED <<clock, active, posts, deleted, mark>>

\* The row of the member is written by nobody else who has yet to commit.
RowIsFree(c) ==
    \A d \in Calls \ {c} :
        ~(call[d].phase = "written" /\ call[d].member = call[c].member)

\* Mutant: the timestamp is taken when it is written.
WriteMarkNow(c) ==
    /\ call[c].phase = "begun" /\ call[c].kind = "mark"
    /\ RowIsFree(c)
    /\ call' = [call EXCEPT ![c].phase = "written", ![c].at = clock]
    /\ UNCHANGED <<clock, active, posts, deleted, mark>>

WriteMark(c) ==
    /\ call[c].phase = "begun" /\ call[c].kind = "mark"
    /\ RowIsFree(c)
    /\ Goto(c, "written")
    /\ UNCHANGED <<clock, active, posts, deleted, mark>>

\* The post is created, its time at most as old as the request, and it becomes
\* the time its author has read.
WritePost(c) ==
    /\ call[c].phase = "begun" /\ call[c].kind = "post"
    /\ call[c].member # System => RowIsFree(c)
    /\ \E t \in call[c].began..clock :
          call' = [call EXCEPT ![c].phase = "written", ![c].at = t]
    /\ UNCHANGED <<clock, active, posts, deleted, mark>>

\* Ghost, kept by a call that commits: the calls of the same member that are
\* still under way, and those that committed before.
Unfinished(c) ==
    {d \in Calls \ {c} : /\ call[d].phase \in Running
                         /\ call[d].member = call[c].member}

Finished(c) ==
    {d \in Calls \ {c} : /\ call[d].phase = "committed"
                         /\ call[d].member = call[c].member}

\* Mutant: a post sets its author back to the time the topic was created.
MarkFromStarter(c) ==
    IF call[c].member = System THEN mark
    ELSE [mark EXCEPT ![call[c].member] =
             IF call[c].kind = "mark" THEN call[c].at ELSE posts[Starter].at]

\* Mutant: no read state for the author of a post.
MarkUnlessPost(c) ==
    IF call[c].kind = "mark" THEN [mark EXCEPT ![call[c].member] = call[c].at]
    ELSE mark

MarkAfter(c) ==
    IF call[c].member = System THEN mark
    ELSE [mark EXCEPT ![call[c].member] = call[c].at]

PostsAfter(c) ==
    IF call[c].kind = "mark" THEN posts
    ELSE [p \in DOMAIN posts \cup {c} |->
             IF p = c THEN [author |-> call[c].member, at |-> call[c].at]
             ELSE posts[p]]

Commit(c) ==
    /\ call[c].phase = "written"
    /\ mark' = MarkAfter(c)
    /\ posts' = PostsAfter(c)
    /\ call' = [call EXCEPT ![c].phase = "committed",
                            ![c].overtakers = Unfinished(c),
                            ![c].earlier = Finished(c)]
    /\ UNCHANGED <<clock, active, deleted>>

\* A ban, the policy, a deleted topic or a lost connection ends the call.
Fail(c) ==
    /\ call[c].phase \in Running
    /\ Goto(c, "failed")
    /\ UNCHANGED <<clock, active, posts, deleted, mark>>

-----------------------------------------------------------------------------

DeletePost(p) ==
    /\ p \in Visible /\ active
    /\ deleted' = deleted \cup {p}
    /\ UNCHANGED <<clock, active, posts, mark, call>>

DeleteTopic ==
    /\ active /\ active' = FALSE
    /\ UNCHANGED <<clock, posts, deleted, mark, call>>

Tick ==
    /\ clock < MaxClock /\ clock' = clock + 1
    /\ UNCHANGED <<active, posts, deleted, mark, call>>

Next ==
    \/ \E c \in Calls, m \in Members : StartMark(c, m)
    \/ \E c \in Calls, m \in Members \cup {System} : StartPost(c, m)
    \/ \E c \in Calls : Begin(c) \/ WriteMark(c) \/ WritePost(c)
                        \/ Commit(c) \/ Fail(c)
    \/ \E p \in DOMAIN posts : DeletePost(p)
    \/ DeleteTopic
    \/ Tick

Spec == Init /\ [][Next]_vars

-----------------------------------------------------------------------------
(* Properties.                                                              *)

IsCommitted(c) == call[c].phase = "committed"

Times == 0..MaxClock

PostType == [author : Members \cup {System}, at : 1..MaxClock]

CallType ==
    [kind : {"none", "mark", "post"}, member : Members \cup {System},
     phase : Running \cup {"idle", "committed", "failed"},
     began : Times, at : Times,
     saw : SUBSET (Calls \cup {Starter}),
     overtakers : SUBSET Calls, earlier : SUBSET Calls]

\* Shapes of the variables; a committed post is in the table and at most one
\* transaction has written the read state of a member.
TypeOK ==
    /\ clock \in Times /\ active \in BOOLEAN
    /\ mark \in [Members -> Times]
    /\ call \in [Calls -> CallType]
    /\ DOMAIN posts = {Starter} \cup {c \in Calls : /\ call[c].kind = "post"
                                                    /\ IsCommitted(c)}
    /\ \A p \in DOMAIN posts : posts[p] \in PostType
    /\ deleted \subseteq DOMAIN posts
    /\ \A c, d \in Calls :
          /\ c # d /\ call[c].phase = "written" /\ call[d].phase = "written"
          /\ call[c].member = call[d].member
          => call[c].member = System

\* What a call of a member has read: the posts there were when it started, and
\* the one it created.
Covered(c) == call[c].saw \cup ({c} \cap DOMAIN posts)

\* What a member marked read, or wrote, stays read, unless a call of the same
\* member that was under way when this one committed wrote an older time over
\* it.
ReadStaysRead ==
    \A c \in Calls :
        IsCommitted(c) /\ call[c].member # System =>
            \/ \E d \in call[c].overtakers : IsCommitted(d)
            \/ \A p \in Covered(c) : posts[p].at <= mark[call[c].member]

\* A post begun in a later millisecond than a mark was requested is unread for
\* that member, however long the policy and the transaction took, until the
\* member writes a read state again.
NewPostsAreUnread ==
    \A c, p \in Calls :
        /\ IsCommitted(c) /\ call[c].kind = "mark"
        /\ \A d \in Calls \ {c} :
              IsCommitted(d) /\ call[d].member = call[c].member =>
                  d \in call[c].earlier
        /\ p \in Visible /\ call[p].began > call[c].began
        /\ call[p].member # call[c].member
        => DetailUnread(call[c].member)

\* Topic detail and the catalog say the same of every member.
UnreadFlagsAgree == \A m \in Members : DetailUnread(m) <=> CatalogUnread(m)

\* A call sets a member's mark back only if another call of that member
\* committed while it was under way.
MarksGoBackOnlyByOverlap ==
    [][\A m \in Members :
          mark'[m] < mark[m] =>
             \E c, d \in Calls : /\ ~IsCommitted(c) /\ IsCommitted(c)'
                                 /\ IsCommitted(d) /\ c \in call[d].overtakers
                                 /\ call[c].member = m
                                 /\ call[d].member = m]_vars

===============================================================================
