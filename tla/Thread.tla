------------------------------- MODULE Thread -------------------------------
(***************************************************************************)
(* What the readers of a topic are promised of its posts: a post appears   *)
(* once, below the topic or below a post of the same topic that is already *)
(* there; it may be edited until it is removed; a removed post leaves a    *)
(* placeholder that never shows content again.  PostThread implements this *)
(* with stored rows, soft deletion and interleaved requests.               *)
(***************************************************************************)
CONSTANTS Topics, Posts, Contents,
          None      \* no parent post, or the content of a placeholder

VARIABLE shown      \* post id -> what topic detail shows of it

Add(p, t, parent, content) ==
  /\ p \notin DOMAIN shown
  /\ parent # None => parent \in DOMAIN shown /\ shown[parent].topic = t
  /\ shown' = [x \in DOMAIN shown \cup {p} |->
                 IF x = p
                 THEN [topic |-> t, parent |-> parent, content |-> content]
                 ELSE shown[x]]

Edit(p, content) ==
  /\ p \in DOMAIN shown /\ shown[p].content # None
  /\ shown' = [shown EXCEPT ![p].content = content]

Remove(p) ==
  /\ p \in DOMAIN shown /\ shown[p].content # None
  /\ shown' = [shown EXCEPT ![p].content = None]

Init == shown = [p \in {} |-> None]

Next ==
  \/ \E p \in Posts, t \in Topics, parent \in Posts \cup {None},
       content \in Contents : Add(p, t, parent, content)
  \/ \E p \in Posts, content \in Contents : Edit(p, content)
  \/ \E p \in Posts : Remove(p)

Spec == Init /\ [][Next]_shown
=============================================================================
