--------------------------- MODULE ReadStateProofs ---------------------------
(***************************************************************************)
(* Proofs about ReadState, for any members, calls and bound on the clock.  *)
(*                                                                         *)
(* The inductive invariant relates the times calls hold in memory with the *)
(* tables: a call that is under way can set a mark back only if another    *)
(* call of the member committed meanwhile (Overtaken), and a call that     *)
(* began after another one committed began after all that one covers       *)
(* (Later).                                                                *)
(***************************************************************************)
EXTENDS ReadState, WellFoundedInduction, TLAPS

IsRunning(c) == call[c].phase \in Running

\* The times of a call.
Timed(c) ==
    call[c].phase # "idle" =>
        /\ 1 <= call[c].began /\ call[c].began <= clock
        /\ call[c].kind \in {"mark", "post"}
        /\ call[c].kind = "mark" => /\ call[c].member \in Members
                                    /\ call[c].at = call[c].began
        /\ call[c].phase \in {"written", "committed"} =>
              call[c].began <= call[c].at /\ call[c].at <= clock

\* What a call saw was there, and no younger than the call.
SawOlder(c) ==
    call[c].phase # "idle" =>
        /\ call[c].saw \subseteq DOMAIN posts
        /\ \A p \in call[c].saw : posts[p].at <= call[c].began

PostTimes ==
    \A p \in DOMAIN posts :
        /\ posts[p].at <= clock
        /\ p \in Calls => posts[p].at = call[p].at

\* A mark younger than a call under way was written meanwhile.
Overtaken(c) ==
    /\ IsRunning(c) /\ call[c].member \in Members
    /\ mark[call[c].member] > call[c].began
    => \E d \in Calls : /\ IsCommitted(d) /\ c \in call[d].overtakers
                        /\ call[d].member = call[c].member

\* A call that began after c committed is no older than what c covers.
Later(c, d) ==
    /\ IsCommitted(c) /\ IsRunning(d)
    /\ call[c].member = call[d].member /\ call[c].member # System
    /\ d \notin call[c].overtakers
    => \A p \in Covered(c) : posts[p].at <= call[d].began

\* The mark is that of the call of the member that committed last.
LastMark(c) ==
    IsCommitted(c) /\ call[c].member # System =>
        /\ \A d \in call[c].earlier : IsCommitted(d)
        /\ (\A d \in Calls \ {c} :
               IsCommitted(d) /\ call[d].member = call[c].member =>
                  d \in call[c].earlier)
           => mark[call[c].member] = call[c].at

IInv ==
    /\ TypeOK
    /\ 1 <= clock /\ \A m \in Members : mark[m] <= clock
    /\ PostTimes
    /\ \A c \in Calls : Timed(c) /\ SawOlder(c) /\ Overtaken(c) /\ LastMark(c)
    /\ \A c, d \in Calls : Later(c, d)
    /\ ReadStaysRead

-----------------------------------------------------------------------------
LEMMA InitIInv == Init => IInv
<1> SUFFICES ASSUME Init PROVE IInv
  OBVIOUS
<1> USE NamesAssumption, ClockAssumption DEF Init, Idle, Never
<1>1. TypeOK
  BY DEF TypeOK, Times, CallType, PostType, IsCommitted
<1>2. ReadStaysRead
  BY DEF ReadStaysRead, IsCommitted
<1>3. PostTimes /\ 1 <= clock /\ \A m \in Members : mark[m] <= clock
  BY DEF PostTimes
<1>4. \A c \in Calls : Timed(c) /\ SawOlder(c)
  BY DEF Timed, SawOlder
<1>5. \A c \in Calls : ~IsRunning(c) /\ ~IsCommitted(c)
  BY DEF IsRunning, Running, IsCommitted
<1>6. \A c \in Calls : Overtaken(c) /\ LastMark(c)
  BY <1>5 DEF Overtaken, LastMark
<1>7. \A c, d \in Calls : Later(c, d)
  BY <1>5 DEF Later
<1>8. QED
  BY <1>1, <1>2, <1>3, <1>4, <1>6, <1>7 DEF IInv

\* A step that commits nothing, and changes no committed call, no mark and no
\* post, changes nothing about what was read.
LEMMA NothingCommitted ==
  ASSUME IInv, UNCHANGED <<posts, mark>>,
         \A d \in Calls : IsCommitted(d)' <=> IsCommitted(d),
         \A d \in Calls : IsCommitted(d) => call'[d] = call[d]
  PROVE  /\ ReadStaysRead'
         /\ \A d \in Calls : LastMark(d)'
         /\ \A d \in Calls : IsCommitted(d) => Covered(d)' = Covered(d)
<1>1. ASSUME NEW d \in Calls, IsCommitted(d)
      PROVE  Covered(d)' = Covered(d)
  BY <1>1 DEF Covered
<1>2. ReadStaysRead'
  <2> SUFFICES ASSUME NEW d \in Calls, IsCommitted(d)',
                      call'[d].member # System
               PROVE  \/ \E e \in call'[d].overtakers : IsCommitted(e)'
                      \/ \A p \in Covered(d)' :
                            posts'[p].at <= mark'[call'[d].member]
    BY DEF ReadStaysRead
  <2>1. IsCommitted(d) /\ call'[d] = call[d] /\ Covered(d)' = Covered(d)
    BY <1>1
  <2>2. \/ \E e \in call[d].overtakers : IsCommitted(e)
        \/ \A p \in Covered(d) : posts[p].at <= mark[call[d].member]
    BY <2>1 DEF IInv, ReadStaysRead
  <2>3. call[d].overtakers \subseteq Calls
    BY DEF IInv, TypeOK, CallType
  <2>4. QED BY <2>1, <2>2, <2>3
<1>3. ASSUME NEW d \in Calls PROVE LastMark(d)'
  <2> SUFFICES ASSUME IsCommitted(d)', call'[d].member # System
               PROVE  /\ \A e \in call'[d].earlier : IsCommitted(e)'
                      /\ (\A e \in Calls \ {d} :
                             IsCommitted(e)' /\ call'[e].member = call'[d].member
                             => e \in call'[d].earlier)
                         => mark'[call'[d].member] = call'[d].at
    BY DEF LastMark
  <2>1. IsCommitted(d) /\ call'[d] = call[d]
    OBVIOUS
  <2>2. call[d].earlier \subseteq Calls
    BY DEF IInv, TypeOK, CallType
  <2>3. /\ \A e \in call[d].earlier : IsCommitted(e)
        /\ (\A e \in Calls \ {d} :
               IsCommitted(e) /\ call[e].member = call[d].member
               => e \in call[d].earlier)
           => mark[call[d].member] = call[d].at
    BY <2>1 DEF IInv, LastMark
  <2>4. QED BY <2>1, <2>2, <2>3
<1>4. QED BY <1>1, <1>2, <1>3

\* A call starts: it is as young as everything there is.
LEMMA StartStep ==
  ASSUME IInv, NEW c \in Calls, NEW m \in Members \cup {System},
         \/ StartMark(c, m) /\ m \in Members
         \/ StartPost(c, m)
  PROVE  IInv'
<1> USE NamesAssumption, ClockAssumption DEF IInv, Never
<1>1. /\ UNCHANGED <<clock, active, posts, deleted, mark>>
      /\ call[c].phase = "idle"
      /\ \A d \in Calls \ {c} : call'[d] = call[d]
      /\ call'[c].kind \in {"mark", "post"} /\ call'[c].member = m
      /\ call'[c].kind = "mark" => m \in Members /\ call'[c].at = clock
      /\ call'[c].phase = "stamped" /\ call'[c].began = clock
      /\ call'[c].saw = DOMAIN posts
      /\ call'[c].overtakers = {} /\ call'[c].earlier = {}
  BY DEF StartMark, StartPost, TypeOK, CallType
<1>2. TypeOK'
  <2>1. call' \in [Calls -> CallType]
    BY DEF StartMark, StartPost, TypeOK, CallType, Times, Running
  <2>2. DOMAIN posts' = {Starter} \cup {d \in Calls : /\ call'[d].kind = "post"
                                                      /\ IsCommitted(d)'}
    BY <1>1 DEF TypeOK, IsCommitted
  <2>3. ASSUME NEW a \in Calls, NEW b \in Calls, a # b,
               call'[a].phase = "written", call'[b].phase = "written",
               call'[a].member = call'[b].member
        PROVE  call'[a].member = System
    BY <1>1, <2>3 DEF TypeOK
  <2>4. QED BY <1>1, <2>1, <2>2, <2>3 DEF TypeOK
<1>0. /\ \A d \in Calls : IsCommitted(d)' <=> IsCommitted(d)
      /\ \A d \in Calls : IsCommitted(d) => call'[d] = call[d] /\ d # c
  BY <1>1 DEF IsCommitted
<1>3. /\ 1 <= clock' /\ \A n \in Members : mark'[n] <= clock'
      /\ PostTimes'
  <2>1. c \notin DOMAIN posts
    BY <1>1 DEF TypeOK, IsCommitted
  <2>2. QED BY <1>1, <2>1 DEF PostTimes
<1>4. ASSUME NEW d \in Calls
      PROVE  (Timed(d) /\ SawOlder(d) /\ Overtaken(d) /\ LastMark(d))'
  <2>1. Timed(d)' /\ SawOlder(d)'
    BY <1>1 DEF Timed, SawOlder, PostTimes, TypeOK, Times
  <2>2. Overtaken(d)'
    <3>1. CASE d = c
      BY <1>1, <3>1 DEF Overtaken, TypeOK, Times
    <3>2. CASE d # c
      BY <1>1, <3>2 DEF Overtaken, IsRunning, Running, IsCommitted
    <3>3. QED BY <3>1, <3>2
  <2>3. LastMark(d)'
    BY <1>0, <1>1, NothingCommitted
  <2>4. QED BY <2>1, <2>2, <2>3
<1>5. ASSUME NEW b \in Calls, NEW d \in Calls PROVE Later(b, d)'
  <2>1. CASE d = c
    BY <1>1, <2>1 DEF Later, Covered, PostTimes, SawOlder, IsCommitted
  <2>2. CASE d # c
    BY <1>1, <2>2 DEF Later, Covered, IsCommitted, IsRunning
  <2>3. QED BY <2>1, <2>2
<1>6. ReadStaysRead'
  BY <1>0, <1>1, NothingCommitted
<1>7. QED BY <1>2, <1>3, <1>4, <1>5, <1>6

\* A call moves on without being committed, and keeps what it holds.
LEMMA QuietStep ==
  ASSUME IInv, NEW c \in Calls,
         Begin(c) \/ WriteMark(c) \/ WritePost(c) \/ Fail(c)
  PROVE  IInv'
<1> USE NamesAssumption, ClockAssumption DEF IInv, Never
<1> DEFINE Keeps(ph) ==
              call' = [call EXCEPT ![c].phase = ph] /\ ph \in {"begun", "failed"}
           Writes(t) ==
              /\ call' = [call EXCEPT ![c].phase = "written", ![c].at = t]
              /\ t \in Times /\ call[c].began <= t /\ t <= clock
              /\ call[c].kind = "mark" => t = call[c].began
              /\ call[c].member = System \/ RowIsFree(c)
<1>a. call[c] \in CallType /\ call \in [Calls -> CallType]
  BY DEF TypeOK
<1>b. /\ UNCHANGED <<clock, active, posts, deleted, mark>>
      /\ IsRunning(c)
      /\ (\E ph \in {"begun", "failed"} : Keeps(ph)) \/ \E t \in Times : Writes(t)
  <2>1. CASE Begin(c) \/ Fail(c)
    BY <2>1 DEF Begin, Fail, Goto, IsRunning, Running
  <2>2. CASE WriteMark(c)
    <3>1. /\ call[c].kind = "mark" /\ call[c].phase = "begun"
          /\ call[c].at = call[c].began /\ call[c].began <= clock
          /\ call[c].began \in Times
      BY <2>2, <1>a DEF WriteMark, Timed, CallType
    <3>2. call' = [call EXCEPT ![c].phase = "written", ![c].at = call[c].began]
      BY <2>2, <3>1, <1>a DEF WriteMark, Goto, CallType
    <3>3. Writes(call[c].began)
      BY <2>2, <3>1, <3>2 DEF WriteMark, Times
    <3>4. QED BY <2>2, <3>1, <3>3 DEF WriteMark, IsRunning, Running
  <2>3. CASE WritePost(c)
    <3>1. PICK t \in call[c].began..clock :
             call' = [call EXCEPT ![c].phase = "written", ![c].at = t]
      BY <2>3 DEF WritePost
    <3>2. t \in Times /\ call[c].began <= t /\ t <= clock
      BY <3>1, <1>a DEF TypeOK, CallType, Times
    <3>3. Writes(t)
      BY <2>3, <3>1, <3>2 DEF WritePost
    <3>4. QED BY <2>3, <3>2, <3>3 DEF WritePost, IsRunning, Running
  <2>4. QED BY <2>1, <2>2, <2>3
<1> DEFINE Moved ==
      /\ call' \in [Calls -> CallType]
      /\ \A d \in Calls \ {c} : call'[d] = call[d]
      /\ call'[c].phase \in {"begun", "written", "failed"}
      /\ call[c].kind = "mark" =>
            call'[c].at = call[c].at \/ call'[c].at = call[c].began
      /\ call'[c].phase = "written" =>
            /\ call'[c].at >= call[c].began /\ call'[c].at <= clock
            /\ call[c].member = System \/ RowIsFree(c)
<1>1. /\ UNCHANGED <<clock, active, posts, deleted, mark>>
      /\ IsRunning(c) /\ Moved
  <2>1. ASSUME NEW ph \in {"begun", "failed"}, Keeps(ph) PROVE Moved
    BY <1>a, <2>1 DEF CallType, Running
  <2>2. ASSUME NEW t \in Times, Writes(t) PROVE Moved
    BY <1>a, <2>2 DEF CallType, Running, Times
  <2>3. QED BY <1>b, <2>1, <2>2
<1>2. /\ call'[c].kind = call[c].kind /\ call'[c].member = call[c].member
      /\ call'[c].began = call[c].began /\ call'[c].saw = call[c].saw
      /\ call'[c].overtakers = call[c].overtakers
      /\ call'[c].earlier = call[c].earlier
  BY <1>a, <1>b DEF CallType
<1>3. /\ ~IsCommitted(c) /\ ~IsCommitted(c)'
      /\ \A d \in Calls : IsCommitted(d)' <=> IsCommitted(d)
      /\ \A d \in Calls : IsCommitted(d) => call'[d] = call[d] /\ d # c
  BY <1>1 DEF IsRunning, Running, IsCommitted
<1>4. TypeOK'
  <2>2. DOMAIN posts' = {Starter} \cup {d \in Calls : /\ call'[d].kind = "post"
                                                      /\ IsCommitted(d)'}
    BY <1>1, <1>3 DEF TypeOK, IsCommitted
  <2>3. ASSUME NEW a \in Calls, NEW b \in Calls, a # b,
               call'[a].phase = "written", call'[b].phase = "written",
               call'[a].member = call'[b].member
        PROVE  call'[a].member = System
    BY <1>1, <1>2, <2>3 DEF TypeOK, RowIsFree
  <2>4. QED BY <1>1, <2>2, <2>3 DEF TypeOK
<1>5. PostTimes'
  BY <1>1, <1>3 DEF PostTimes, TypeOK, IsCommitted
<1>6. ASSUME NEW d \in Calls
      PROVE  (Timed(d) /\ SawOlder(d) /\ Overtaken(d) /\ LastMark(d))'
  <2>1. Timed(d)'
    BY <1>1, <1>2 DEF Timed, IsRunning, Running, TypeOK, CallType, Times
  <2>2. SawOlder(d)'
    BY <1>1, <1>2 DEF SawOlder, IsRunning, Running
  <2>3. Overtaken(d)'
    <3> SUFFICES ASSUME IsRunning(d)', call'[d].member \in Members,
                        mark'[call'[d].member] > call'[d].began
                 PROVE  \E e \in Calls : /\ IsCommitted(e)'
                                         /\ d \in call'[e].overtakers
                                         /\ call'[e].member = call'[d].member
      BY DEF Overtaken
    <3>1. IsRunning(d) /\ call[d].member = call'[d].member
          /\ call[d].began = call'[d].began
      BY <1>1, <1>2 DEF IsRunning
    <3>2. PICK e \in Calls : /\ IsCommitted(e) /\ d \in call[e].overtakers
                             /\ call[e].member = call[d].member
      BY <1>1, <3>1 DEF Overtaken
    <3>3. QED BY <1>3, <3>1, <3>2
  <2>4. LastMark(d)'
    BY <1>1, <1>3, NothingCommitted
  <2>5. QED BY <2>1, <2>2, <2>3, <2>4
<1>7. ASSUME NEW b \in Calls, NEW d \in Calls PROVE Later(b, d)'
  BY <1>1, <1>2, <1>3 DEF Later, Covered, IsRunning
<1>8. ReadStaysRead'
  BY <1>1, <1>3, NothingCommitted
<1>9. QED BY <1>1, <1>4, <1>5, <1>6, <1>7, <1>8

\* A call commits: what it covers is no younger than the mark it leaves, and
\* what other calls cover is no younger either, unless they were overlapped.
MarksGoBack(c) ==
    \A n \in Members : mark'[n] < mark[n] =>
        /\ call[c].member = n
        /\ \E d \in Calls : /\ IsCommitted(d) /\ c \in call[d].overtakers
                            /\ call[d].member = n

LEMMA CommitStep ==
  ASSUME IInv, NEW c \in Calls, Commit(c)
  PROVE  IInv' /\ MarksGoBack(c)
<1> USE NamesAssumption, ClockAssumption DEF IInv, Never
<1> DEFINE m == call[c].member
<1>a. call[c] \in CallType /\ call \in [Calls -> CallType]
  BY DEF TypeOK
<1>1. /\ clock' = clock /\ active' = active /\ deleted' = deleted
      /\ call[c].phase = "written" /\ call'[c].phase = "committed"
      /\ \A d \in Calls \ {c} : call'[d] = call[d]
      /\ call'[c].kind = call[c].kind /\ call'[c].member = m
      /\ call'[c].began = call[c].began /\ call'[c].at = call[c].at
      /\ call'[c].saw = call[c].saw
      /\ call'[c].overtakers = Unfinished(c) /\ call'[c].earlier = Finished(c)
      /\ call' \in [Calls -> CallType]
  BY <1>a DEF Commit, CallType, Running, Unfinished, Finished
<1>2. /\ ~IsCommitted(c) /\ IsRunning(c) /\ IsCommitted(c)'
      /\ \A d \in Calls \ {c} : IsCommitted(d)' <=> IsCommitted(d)
      /\ \A d \in Calls \ {c} : IsRunning(d)' <=> IsRunning(d)
      /\ ~IsRunning(c)'
  BY <1>1 DEF IsCommitted, IsRunning, Running
<1>3. /\ 1 <= call[c].began /\ call[c].began <= call[c].at
      /\ call[c].at <= clock /\ call[c].at \in Times
      /\ call[c].began \in Times /\ call[c].kind \in {"mark", "post"}
      /\ call[c].kind = "mark" => call[c].at = call[c].began
  BY <1>1, <1>a DEF Timed, CallType
<1>4. /\ m \in Members => mark' = [mark EXCEPT ![m] = call[c].at]
      /\ m \notin Members => mark' = mark /\ m = System
  BY <1>a DEF Commit, MarkAfter, CallType
<1>5. /\ \A p \in DOMAIN posts : p # c /\ posts'[p] = posts[p]
      /\ call[c].kind = "post" =>
            /\ DOMAIN posts' = DOMAIN posts \cup {c}
            /\ posts'[c] = [author |-> m, at |-> call[c].at]
      /\ call[c].kind = "mark" => posts' = posts
  <2>1. c \notin DOMAIN posts
    BY <1>2 DEF TypeOK, IsCommitted
  <2>2. QED BY <2>1, <1>3 DEF Commit, PostsAfter
<1>6. TypeOK'
  <2>1. mark' \in [Members -> Times]
    BY <1>3, <1>4 DEF TypeOK
  <2>2. DOMAIN posts' = {Starter} \cup {d \in Calls : /\ call'[d].kind = "post"
                                                      /\ IsCommitted(d)'}
    <3>1. CASE call[c].kind = "post"
      BY <1>1, <1>2, <1>5, <3>1 DEF TypeOK
    <3>2. CASE call[c].kind = "mark"
      BY <1>1, <1>2, <1>5, <3>2 DEF TypeOK
    <3>3. QED BY <1>3, <3>1, <3>2
  <2>3. \A p \in DOMAIN posts' : posts'[p] \in PostType
    <3>1. call[c].at \in 1..MaxClock /\ m \in Members \cup {System}
      BY <1>a, <1>3 DEF Times, CallType
    <3>2. \A p \in DOMAIN posts : posts'[p] \in PostType
      BY <1>5 DEF TypeOK
    <3>3. CASE call[c].kind = "post"
      <4>1. posts'[c] \in PostType
        BY <1>5, <3>1, <3>3 DEF PostType
      <4>2. QED BY <1>5, <3>2, <3>3, <4>1
    <3>4. CASE call[c].kind = "mark"
      BY <1>5, <3>2, <3>4
    <3>5. QED BY <1>3, <3>3, <3>4
  <2>4. ASSUME NEW a \in Calls, NEW b \in Calls, a # b,
               call'[a].phase = "written", call'[b].phase = "written",
               call'[a].member = call'[b].member
        PROVE  call'[a].member = System
    BY <1>1, <2>4 DEF TypeOK
  <2>5. deleted' \subseteq DOMAIN posts'
    BY <1>1, <1>3, <1>5 DEF TypeOK
  <2>6. QED BY <1>1, <2>1, <2>2, <2>3, <2>4, <2>5 DEF TypeOK
<1>7. /\ 1 <= clock' /\ \A n \in Members : mark'[n] <= clock'
      /\ PostTimes'
  <2>1. \A n \in Members : mark'[n] <= clock'
    BY <1>1, <1>3, <1>4 DEF TypeOK
  <2>2. PostTimes'
    BY <1>1, <1>3, <1>5 DEF PostTimes
  <2>3. QED BY <1>1, <2>1, <2>2
<1>8. ASSUME NEW d \in Calls PROVE Timed(d)' /\ SawOlder(d)'
  BY <1>1, <1>3, <1>5 DEF Timed, SawOlder
<1>9. ASSUME NEW d \in Calls PROVE Overtaken(d)'
  <2> SUFFICES ASSUME IsRunning(d)', call'[d].member \in Members,
                      mark'[call'[d].member] > call'[d].began
               PROVE  \E e \in Calls : /\ IsCommitted(e)'
                                       /\ d \in call'[e].overtakers
                                       /\ call'[e].member = call'[d].member
    BY DEF Overtaken
  <2>1. d # c /\ call'[d] = call[d] /\ IsRunning(d)
    BY <1>1, <1>2
  <2>2. CASE call[d].member = m
    BY <1>1, <1>2, <2>1, <2>2 DEF Unfinished, IsRunning
  <2>3. CASE call[d].member # m
    <3>1. mark'[call[d].member] = mark[call[d].member]
      BY <1>4, <2>1, <2>3 DEF TypeOK
    <3>2. PICK e \in Calls : /\ IsCommitted(e) /\ d \in call[e].overtakers
                             /\ call[e].member = call[d].member
      BY <2>1, <3>1 DEF Overtaken
    <3>3. e # c /\ IsCommitted(e)' /\ call'[e] = call[e]
      BY <1>1, <1>2, <3>2
    <3>4. QED BY <2>1, <3>2, <3>3
  <2>4. QED BY <2>2, <2>3
<1>10. ASSUME NEW b \in Calls, b # c, IsCommitted(b)
       PROVE  Covered(b)' = Covered(b) /\ Covered(b) \subseteq DOMAIN posts
  <2>1. call[b].saw \subseteq DOMAIN posts
    BY <1>10 DEF SawOlder, IsCommitted
  <2>2. QED BY <1>1, <1>3, <1>5, <1>10, <2>1 DEF Covered
<1>11. \A p \in Covered(c)' : posts'[p].at <= call[c].at
  <2>1. ASSUME NEW p \in call[c].saw PROVE posts'[p].at <= call[c].at
    <3>1. p \in DOMAIN posts /\ posts[p].at <= call[c].began
      BY <1>1 DEF SawOlder
    <3>2. posts[p].at \in Nat /\ posts'[p] = posts[p]
      BY <1>5, <3>1 DEF TypeOK, PostType
    <3>3. QED BY <1>3, <3>1, <3>2 DEF Times
  <2>2. c \in DOMAIN posts' => posts'[c].at <= call[c].at
    BY <1>3, <1>5 DEF Times
  <2>3. QED BY <1>1, <2>1, <2>2 DEF Covered
<1>12. ASSUME NEW b \in Calls, NEW d \in Calls PROVE Later(b, d)'
  <2> SUFFICES ASSUME IsCommitted(b)', IsRunning(d)',
                      call'[b].member = call'[d].member,
                      call'[b].member # System,
                      d \notin call'[b].overtakers
               PROVE  \A p \in Covered(b)' : posts'[p].at <= call'[d].began
    BY DEF Later
  <2>1. d # c /\ call'[d] = call[d] /\ IsRunning(d)
    BY <1>1, <1>2
  <2>2. CASE b = c
    BY <1>1, <2>1, <2>2 DEF Unfinished, IsRunning
  <2>3. CASE b # c
    <3>1. IsCommitted(b) /\ call'[b] = call[b]
      BY <1>1, <1>2, <2>3
    <3>2. \A p \in Covered(b) : posts[p].at <= call[d].began
      BY <2>1, <3>1 DEF Later
    <3>3. QED BY <1>5, <1>10, <2>1, <2>3, <3>1, <3>2
  <2>4. QED BY <2>2, <2>3
<1>13. ReadStaysRead'
  <2> SUFFICES ASSUME NEW d \in Calls, IsCommitted(d)',
                      call'[d].member # System
               PROVE  \/ \E e \in call'[d].overtakers : IsCommitted(e)'
                      \/ \A p \in Covered(d)' :
                            posts'[p].at <= mark'[call'[d].member]
    BY DEF ReadStaysRead
  <2>0. call'[d].member \in Members
    BY <1>1 DEF CallType
  <2>1. CASE d = c
    BY <1>1, <1>4, <1>11, <2>0, <2>1 DEF TypeOK
  <2>2. CASE d # c
    <3>1. IsCommitted(d) /\ call'[d] = call[d]
      BY <1>1, <1>2, <2>2
    <3>2. call[d].overtakers \subseteq Calls
      BY <1>a DEF CallType
    <3>3. CASE \E e \in call[d].overtakers : IsCommitted(e)
      BY <1>2, <3>1, <3>2, <3>3
    <3>4. CASE c \in call[d].overtakers
      BY <1>2, <3>1, <3>4
    <3>5. CASE /\ \A p \in Covered(d) : posts[p].at <= mark[call[d].member]
               /\ call[d].member # m
      BY <1>4, <1>5, <1>10, <2>0, <2>2, <3>1, <3>5 DEF TypeOK
    <3>6. CASE call[d].member = m /\ c \notin call[d].overtakers
      <4>1. \A p \in Covered(d) : posts[p].at <= call[c].began
        BY <1>2, <3>1, <3>6 DEF Later
      <4>2. ASSUME NEW p \in Covered(d) PROVE posts'[p].at <= call[c].at
        <5>1. p \in DOMAIN posts /\ posts'[p] = posts[p] /\ posts[p].at \in Nat
          BY <1>5, <1>10, <2>2, <3>1 DEF TypeOK, PostType
        <5>2. QED BY <1>3, <4>1, <5>1 DEF Times
      <4>3. mark'[m] = call[c].at
        BY <1>4, <2>0, <3>1, <3>6 DEF TypeOK
      <4>4. QED BY <1>10, <2>2, <3>1, <3>6, <4>2, <4>3
    <3>7. QED BY <3>1, <3>3, <3>4, <3>5, <3>6 DEF ReadStaysRead
  <2>3. QED BY <2>1, <2>2
<1>14. ASSUME NEW d \in Calls PROVE LastMark(d)'
  <2> SUFFICES ASSUME IsCommitted(d)', call'[d].member # System
               PROVE  /\ \A e \in call'[d].earlier : IsCommitted(e)'
                      /\ (\A e \in Calls \ {d} :
                             IsCommitted(e)' /\ call'[e].member = call'[d].member
                             => e \in call'[d].earlier)
                         => mark'[call'[d].member] = call'[d].at
    BY DEF LastMark
  <2>0. call'[d].member \in Members
    BY <1>1 DEF CallType
  <2>1. CASE d = c
    <3>1. \A e \in Finished(c) : IsCommitted(e)'
      BY <1>2 DEF Finished, IsCommitted
    <3>2. mark'[m] = call[c].at
      BY <1>1, <1>4, <2>0, <2>1 DEF TypeOK
    <3>3. QED BY <1>1, <2>1, <3>1, <3>2
  <2>2. CASE d # c
    <3>1. IsCommitted(d) /\ call'[d] = call[d]
      BY <1>1, <1>2, <2>2
    <3>2. /\ \A e \in call[d].earlier : IsCommitted(e) /\ e \in Calls
          /\ (\A e \in Calls \ {d} :
                 IsCommitted(e) /\ call[e].member = call[d].member
                 => e \in call[d].earlier)
             => mark[call[d].member] = call[d].at
      BY <1>a, <3>1 DEF LastMark, CallType
    <3>3. c \notin call[d].earlier
      BY <1>2, <3>2
    <3>4. \A e \in call[d].earlier : IsCommitted(e)'
      BY <1>2, <3>2, <3>3
    <3>5. CASE call[d].member = m
      BY <1>1, <1>2, <2>2, <3>1, <3>3, <3>4, <3>5
    <3>6. CASE call[d].member # m
      <4>1. mark'[call[d].member] = mark[call[d].member]
        BY <1>4, <2>0, <3>1, <3>6 DEF TypeOK
      <4>2. QED BY <1>1, <1>2, <3>1, <3>2, <3>4, <3>6, <4>1
    <3>7. QED BY <3>5, <3>6
  <2>3. QED BY <2>1, <2>2
<1>15. MarksGoBack(c)
  <2> SUFFICES ASSUME NEW n \in Members, mark'[n] < mark[n]
               PROVE  /\ call[c].member = n
                      /\ \E d \in Calls : /\ IsCommitted(d)
                                          /\ c \in call[d].overtakers
                                          /\ call[d].member = n
    BY DEF MarksGoBack
  <2>1. m = n /\ mark'[n] = call[c].at
    BY <1>4 DEF TypeOK, Times
  <2>2. mark[n] > call[c].began
    BY <1>3, <2>1 DEF TypeOK, Times
  <2>3. QED BY <1>2, <2>1, <2>2 DEF Overtaken
<1>16. QED
  BY <1>6, <1>7, <1>8, <1>9, <1>12, <1>13, <1>14, <1>15

\* Time passes, the topic is deleted, or a post is: no call moves.
LEMMA EnvironmentStep ==
  ASSUME IInv, DeleteTopic \/ Tick \/ \E p \in DOMAIN posts : DeletePost(p)
  PROVE  IInv'
<1> USE NamesAssumption, ClockAssumption DEF IInv, Never
<1>0. /\ call' = call /\ mark' = mark /\ posts' = posts
      /\ active' \in BOOLEAN
  BY DEF DeleteTopic, Tick, DeletePost, TypeOK
<1>1. /\ call' = call /\ mark' = mark /\ posts' = posts
      /\ clock <= clock' /\ clock' \in Times
      /\ deleted' \subseteq DOMAIN posts
  <2>1. CASE DeleteTopic
    BY <1>0, <2>1 DEF DeleteTopic, TypeOK, Times
  <2>2. CASE Tick
    BY <1>0, <2>2 DEF Tick, TypeOK, Times
  <2>3. ASSUME NEW p \in DOMAIN posts, DeletePost(p)
        PROVE  /\ clock <= clock' /\ clock' \in Times
               /\ deleted' \subseteq DOMAIN posts
    BY <2>3 DEF DeletePost, TypeOK, Times
  <2>4. QED BY <1>0, <2>1, <2>2, <2>3
<1>2. TypeOK'
  BY <1>0, <1>1 DEF TypeOK, IsCommitted
<1>3. /\ 1 <= clock' /\ \A m \in Members : mark'[m] <= clock'
      /\ PostTimes'
  BY <1>1 DEF PostTimes, TypeOK, PostType, Times
<1>4. ASSUME NEW c \in Calls
      PROVE  (Timed(c) /\ SawOlder(c) /\ Overtaken(c) /\ LastMark(c))'
  <2>0. call[c] \in CallType
    BY DEF TypeOK
  <2>1. Timed(c)'
    BY <1>1, <2>0 DEF Timed, TypeOK, Times, CallType
  <2>2. SawOlder(c)'
    BY <1>1 DEF SawOlder
  <2>3. Overtaken(c)'
    BY <1>1 DEF Overtaken, IsCommitted, IsRunning
  <2>4. LastMark(c)'
    BY <1>1 DEF LastMark, IsCommitted
  <2>5. QED BY <2>1, <2>2, <2>3, <2>4
<1>5. \A c \in Calls : IsCommitted(c) => Covered(c)' = Covered(c)
                                        /\ Covered(c) \subseteq DOMAIN posts
  BY <1>1 DEF Covered, SawOlder, IsCommitted
<1>6. ASSUME NEW c \in Calls, NEW d \in Calls PROVE Later(c, d)'
  BY <1>1, <1>5 DEF Later, IsCommitted, IsRunning
<1>7. ReadStaysRead'
  BY <1>1, <1>5 DEF ReadStaysRead, IsCommitted
<1>8. QED BY <1>2, <1>3, <1>4, <1>6, <1>7

LEMMA StutterStep == ASSUME IInv, UNCHANGED vars PROVE IInv'
BY DEF IInv, vars, TypeOK, PostTimes, Timed, SawOlder, Overtaken, LastMark,
       Later, Covered, ReadStaysRead, IsCommitted, IsRunning

LEMMA NextIInv == ASSUME IInv, [Next]_vars PROVE IInv'
<1>1. ASSUME NEW c \in Calls, NEW m \in Members, StartMark(c, m) PROVE IInv'
  BY <1>1, StartStep
<1>2. ASSUME NEW c \in Calls, NEW m \in Members \cup {System}, StartPost(c, m)
      PROVE  IInv'
  BY <1>2, StartStep
<1>3. ASSUME NEW c \in Calls,
             Begin(c) \/ WriteMark(c) \/ WritePost(c) \/ Fail(c)
      PROVE  IInv'
  BY <1>3, QuietStep
<1>4. ASSUME NEW c \in Calls, Commit(c) PROVE IInv'
  BY <1>4, CommitStep
<1>5. CASE DeleteTopic \/ Tick \/ \E p \in DOMAIN posts : DeletePost(p)
  BY <1>5, EnvironmentStep
<1>6. CASE UNCHANGED vars
  BY <1>6, StutterStep
<1>7. QED BY <1>1, <1>2, <1>3, <1>4, <1>5, <1>6 DEF Next

\* The invariant holds in every reachable state.
THEOREM Invariance == Spec => []IInv
<1>1. IInv /\ [Next]_vars => IInv'
  BY NextIInv
<1>2. QED BY InitIInv, <1>1, PTL DEF Spec

\* The variables keep their shapes, and no two transactions have written the
\* read state of one member.
THEOREM TypeCorrect == Spec => []TypeOK
<1>1. IInv => TypeOK
  BY DEF IInv
<1>2. QED BY Invariance, <1>1, PTL

\* What a call covers stays read unless an overlapping call of the member
\* wrote an older time.
THEOREM ReadsAreKept == Spec => []ReadStaysRead
<1>1. IInv => ReadStaysRead
  BY DEF IInv
<1>2. QED BY Invariance, <1>1, PTL

-----------------------------------------------------------------------------
(* The unread flags.                                                        *)

\* There is a latest post as long as there is a visible one.
LEMMA LatestExists ==
  ASSUME IInv, NEW p \in Visible
  PROVE  \E q \in Visible : IsLatest(q) /\ posts[p].at <= posts[q].at
<1> DEFINE Ages == {MaxClock - posts[q].at : q \in Visible}
           Less == OpToRel(<, Nat)
<1>1. \A q \in Visible : posts[q].at \in 1..MaxClock
  BY DEF IInv, TypeOK, PostType, Visible
<1>2. Ages \subseteq Nat /\ Ages # {}
  BY <1>1, ClockAssumption
<1>3. PICK n \in Ages : \A k \in Ages : ~(k < n)
  <2>1. IsWellFoundedOn(Less, Nat)
    BY NatLessThanWellFounded
  <2>2. \A x, y \in Nat : y < x => <<y, x>> \in Less
    BY DEF OpToRel
  <2> HIDE DEF Ages, Less
  <2>3. PICK n \in Ages : \A k \in Ages : ~(<<k, n>> \in Less)
    BY <1>2, <2>1, WFMin
  <2>4. QED BY <1>2, <2>2, <2>3
<1>4. PICK q \in Visible : n = MaxClock - posts[q].at
  OBVIOUS
<1>5. ASSUME NEW o \in Visible PROVE posts[o].at <= posts[q].at
  <2>1. posts[q].at \in 1..MaxClock /\ posts[o].at \in 1..MaxClock
    BY <1>1
  <2>2. ~(MaxClock - posts[o].at < n)
    BY <1>3
  <2>3. QED BY <1>4, <2>1, <2>2, ClockAssumption
<1>6. QED BY <1>5 DEF IsLatest

\* Comparing the latest post finds an unread post exactly when there is one.
LEMMA FlagsAgree == ASSUME IInv PROVE UnreadFlagsAgree
<1> SUFFICES ASSUME NEW m \in Members PROVE DetailUnread(m) <=> CatalogUnread(m)
  BY DEF UnreadFlagsAgree
<1>1. mark[m] \in Nat /\ \A q \in Visible : posts[q].at \in Nat
  BY DEF IInv, TypeOK, Visible, Times, PostType
<1>2. DetailUnread(m) => CatalogUnread(m)
  BY <1>1 DEF DetailUnread, CatalogUnread, IsLatest, Visible
<1>3. ASSUME CatalogUnread(m) PROVE DetailUnread(m)
  <2>1. PICK p \in Visible : mark[m] = Never \/ posts[p].at > mark[m]
    BY <1>3 DEF CatalogUnread, Visible
  <2>2. PICK q \in Visible : IsLatest(q) /\ posts[p].at <= posts[q].at
    BY LatestExists
  <2>3. mark[m] = Never \/ mark[m] < posts[q].at
    BY <1>1, <2>1, <2>2
  <2>4. QED BY <2>2, <2>3 DEF DetailUnread, Visible
<1>4. QED BY <1>2, <1>3

\* Topic detail and the catalog always agree about a member's unread posts.
THEOREM DetailMatchesCatalog == Spec => []UnreadFlagsAgree
<1>1. QED BY Invariance, FlagsAgree, PTL

\* A post that began after the member's last mark was requested is unread.
LEMMA NewUnread == ASSUME IInv PROVE NewPostsAreUnread
<1> USE DEF IInv
<1> SUFFICES ASSUME NEW c \in Calls, NEW p \in Calls,
                    IsCommitted(c), call[c].kind = "mark",
                    \A d \in Calls \ {c} :
                       IsCommitted(d) /\ call[d].member = call[c].member =>
                          d \in call[c].earlier,
                    p \in Visible, call[p].began > call[c].began
             PROVE  DetailUnread(call[c].member)
  BY DEF NewPostsAreUnread
<1>1. /\ call[c].member \in Members /\ call[c].at = call[c].began
      /\ mark[call[c].member] = call[c].at
  BY NamesAssumption DEF Timed, LastMark, IsCommitted
<1>2. p \in DOMAIN posts /\ call[p].kind = "post" /\ IsCommitted(p)
  BY NamesAssumption DEF Visible, TypeOK
<1>3. posts[p].at = call[p].at /\ call[p].began <= call[p].at
  BY <1>2 DEF PostTimes, Timed, IsCommitted
<1>4. call[p].began \in Nat /\ call[p].at \in Nat /\ call[c].began \in Nat
  BY DEF TypeOK, CallType, Times
<1>5. posts[p].at > mark[call[c].member]
  BY <1>1, <1>3, <1>4
<1>6. CatalogUnread(call[c].member)
  BY <1>5 DEF CatalogUnread, Visible
<1>7. QED BY <1>1, <1>6, FlagsAgree DEF UnreadFlagsAgree

\* No mark hides a post begun in a later millisecond than its request.
THEOREM NewPostsShow == Spec => []NewPostsAreUnread
<1>1. QED BY Invariance, NewUnread, PTL

-----------------------------------------------------------------------------

\* A mark goes back only when calls of one member overlap.
THEOREM MarksOnlyGoBackByOverlap == Spec => MarksGoBackOnlyByOverlap
<1> DEFINE Step == \A m \in Members :
       mark'[m] < mark[m] =>
          \E c, d \in Calls : /\ ~IsCommitted(c) /\ IsCommitted(c)'
                              /\ IsCommitted(d) /\ c \in call[d].overtakers
                              /\ call[c].member = m
                              /\ call[d].member = m
<1>1. ASSUME IInv, [Next]_vars PROVE [Step]_vars
  <2>1. ASSUME NEW c \in Calls, Commit(c) PROVE Step
    <3>1. MarksGoBack(c)
      BY <1>1, <2>1, CommitStep
    <3>2. ~IsCommitted(c) /\ IsCommitted(c)'
      BY <1>1, <2>1 DEF Commit, IInv, TypeOK, IsCommitted
    <3>3. QED BY <3>1, <3>2 DEF MarksGoBack
  <2>2. CASE mark' = mark
    BY <1>1, <2>2 DEF IInv, TypeOK, Times
  <2>3. (\E c \in Calls : Commit(c)) \/ mark' = mark \/ UNCHANGED vars
    BY <1>1 DEF Next, StartMark, StartPost, Begin, WriteMark, WritePost, Fail,
                DeletePost, DeleteTopic, Tick
  <2>4. QED BY <2>1, <2>2, <2>3
<1>2. QED BY Invariance, <1>1, PTL DEF Spec, MarksGoBackOnlyByOverlap

=============================================================================
