---------------------------- MODULE VanillaImport ----------------------------
(***************************************************************************)
(* The one-off import of challenge discussions from Vanilla                *)
(* (VanillaImportService and the services it calls), one action per source *)
(* row or reply.  A run is one invocation of the command line tool.  It    *)
(* checks that the target is empty, then imports topics, replies, watches, *)
(* read states, member bans and address bans, in that order, and writes a  *)
(* report.  Lookups and writes may fail, the process may be killed between *)
(* any two steps, and the operator may wipe the target and run it again.   *)
(*                                                                         *)
(* The keys of source rows are numbers in the order of their primary keys. *)
(* A row of the target is named by the run that created it and the key of  *)
(* the row it was made from: the database gives every row a new id.        *)
(***************************************************************************)
EXTENDS Naturals, Sequences, FiniteSets

CONSTANTS Sources,    \* the Vanilla databases, with the members their users are
          NoMember,   \* a Vanilla user without a Topcoder member
          NonExact,   \* an address rule that is not a bare host address
          Root,       \* the null parent of a reply directly under its topic
          MaxRuns,    \* bound: how often the operator starts the import
          MaxFaults   \* bound: failing lookups, reads and writes

Key == Nat \ {0}

ASSUME KeyAssumption == Root \notin Key

ASSUME BoundsAssumption == MaxRuns \in Nat /\ MaxFaults \in Nat

\* A table has finitely many rows, a reply belongs to a discussion, and a date
\* of reading is a number, 0 when there is none.
ASSUME SourcesAssumption ==
    \A s \in Sources :
        /\ \A keys \in {DOMAIN s.discussions, DOMAIN s.replies,
                        DOMAIN s.userDiscussions, s.banned, DOMAIN s.rules} :
              keys \subseteq Key /\ IsFiniteSet(keys)
        /\ \A r \in DOMAIN s.replies :
              s.replies[r].discussion \in DOMAIN s.discussions
        /\ \A i \in DOMAIN s.userDiscussions :
              s.userDiscussions[i].readAt \in Nat

VARIABLES source,  \* the source database, which nobody writes
          db,      \* the target tables
          phase,   \* what the run is doing
          mem,     \* the run's memory
          log,     \* its report: every row read, with the outcomes recorded
          runs, faults

vars == <<source, db, phase, mem, log, runs, faults>>

-----------------------------------------------------------------------------
(* The state.                                                              *)

Empty == [x \in {} |-> x]

Put(f, x, v) == [y \in DOMAIN f \cup {x} |-> IF y = x THEN v ELSE f[y]]

\* A topic is created with its starter post and its closure row.
EmptyTarget == [topics |-> {}, posts |-> Empty, watches |-> {},
                reads |-> Empty, bans |-> {}, addresses |-> {}]

\* cursor: the last key read; topics: the discussions imported; mapped: the
\* users looked up; frames: the calls of importBranch that have not returned;
\* keys: the watches seen; latest: the newest read state of a topic and member.
EmptyMemory == [cursor |-> 0, topics |-> {}, mapped |-> {}, frames |-> <<>>,
                visited |-> {}, keys |-> {}, latest |-> Empty]

Stages == <<"topics", "replies", "watches", "readState", "memberBans",
            "ipBans">>
StageNames == {Stages[i] : i \in 1..6}
Idle == {"idle", "completed", "failed"}

Outcomes == {"imported", "skipped", "failed"}

Init ==
    /\ source \in Sources
    /\ db = EmptyTarget
    /\ phase = "idle"
    /\ mem = EmptyMemory
    /\ log = Empty
    /\ runs = 0 /\ faults = 0

-----------------------------------------------------------------------------
(* Reading the source: each query asks for the keys after the last one.    *)

Bookmarked(i) == source.userDiscussions[i].bookmarked

\* recordRead in the topic stage remembers the discussion as well.
ReadDiscussions == {d \in DOMAIN source.discussions :
                       <<"topics", d>> \in DOMAIN log}

Rows(stage) ==
    CASE stage = "topics"     -> DOMAIN source.discussions
      [] stage = "replies"    -> ReadDiscussions
      [] stage = "watches"    -> {i \in DOMAIN source.userDiscussions :
                                     Bookmarked(i)}
      [] stage = "readState"  -> {i \in DOMAIN source.userDiscussions :
                                     source.userDiscussions[i].readAt > 0}
      [] stage = "memberBans" -> source.banned
      [] stage = "ipBans"     -> DOMAIN source.rules

Ahead(stage) == {k \in Rows(stage) : k > mem.cursor}

IsNext(stage, k) ==
    /\ phase = stage
    /\ k \in Ahead(stage)
    /\ \A j \in Ahead(stage) : k <= j

\* Members are found by handle and, failing that, by email.
MemberOf(user) ==
    IF source.byHandle[user] # NoMember THEN source.byHandle[user]
                                        ELSE source.byEmail[user]

TopicId(d) == <<runs, d>>
PostId(r) == <<runs, r>>

-----------------------------------------------------------------------------
(* Outcomes and failures.                                                  *)

Fault == faults < MaxFaults /\ faults' = faults + 1
NoFault == UNCHANGED faults

\* The next row of a stage is read, settled with an outcome, and passed.
Settle(row, outcome) == log' = Put(log, row, <<outcome>>)

\* Mutant: the cursor of the query is never moved on.
PassNowhere(k, mapped) == [mem EXCEPT !.mapped = @ \cup mapped]

Pass(k, mapped) == [mem EXCEPT !.cursor = k, !.mapped = @ \cup mapped]

\* A write that succeeds, and the same write failing.
Imported(row, written) ==
    /\ NoFault
    /\ Settle(row, "imported")
    /\ db' = written

\* Mutant: the error of a write is swallowed.
WriteFailsUnseen(row) == Fault /\ Settle(row, "imported") /\ UNCHANGED db

WriteFails(row) ==
    /\ Fault
    /\ Settle(row, "failed")
    /\ UNCHANGED db

SkippedRow(row) ==
    /\ NoFault
    /\ Settle(row, "skipped")
    /\ UNCHANGED db

-----------------------------------------------------------------------------
(* A run begins and ends.                                                  *)

Start ==
    /\ phase \in Idle /\ runs < MaxRuns
    /\ runs' = runs + 1
    /\ phase' = "preflight" /\ mem' = EmptyMemory /\ log' = Empty
    /\ UNCHANGED <<source, db, faults>>

\* Mutant: the counts of the target are read but not looked at.
TargetNotChecked == TRUE

TargetIsEmpty == db = EmptyTarget

PreflightPasses ==
    /\ phase = "preflight"
    /\ TargetIsEmpty
    /\ phase' = "topics"
    /\ UNCHANGED <<source, db, mem, log, runs, faults>>

\* A target with rows, a database that does not answer or a report that
\* cannot be written ends the run before the source is read.
PreflightFails ==
    /\ phase = "preflight"
    /\ (NoFault /\ ~TargetIsEmpty) \/ Fault
    /\ phase' = "failed"
    /\ UNCHANGED <<source, db, mem, log, runs>>

NextStage(stage) ==
    IF stage = "ipBans" THEN "flush"
    ELSE LET i == CHOOSE j \in 1..5 : Stages[j] = stage IN Stages[i + 1]

EndStage ==
    /\ phase \in StageNames
    /\ Ahead(phase) = {}
    /\ mem.frames = <<>> /\ mem.latest = Empty
    /\ phase' = NextStage(phase)
    /\ mem' = [mem EXCEPT !.cursor = 0]
    /\ UNCHANGED <<source, db, log, runs, faults>>

Flush ==
    /\ phase = "flush"
    /\ \/ NoFault /\ phase' = "completed"
       \/ Fault /\ phase' = "failed"
    /\ UNCHANGED <<source, db, mem, log, runs>>

Top == mem.frames[Len(mem.frames)]
Callers == SubSeq(mem.frames, 1, Len(mem.frames) - 1)

\* importBranch returns at once for a reply already visited.
Pending == Top.todo \ mem.visited

\* A source read, a challenge lookup or a member lookup throws.  Nothing
\* catches it but the call of importBranch for the parent of the reply whose
\* author is looked up.
NothingCatches ==
    \/ mem.frames = <<>>
    \/ /\ Len(mem.frames) = 1
       /\ \E r \in Pending : source.replies[r].actor \notin mem.mapped

Abort ==
    /\ phase \in StageNames
    /\ NothingCatches
    /\ Fault
    /\ phase' = "failed"
    /\ UNCHANGED <<source, db, mem, log, runs>>

\* The process is killed: what was committed stays, its report is never written.
Crash ==
    /\ phase \notin Idle
    /\ phase' = "idle" /\ mem' = EmptyMemory /\ log' = Empty
    /\ UNCHANGED <<source, db, runs, faults>>

\* The operator empties the target.
Wipe ==
    /\ phase \in Idle /\ db # EmptyTarget
    /\ db' = EmptyTarget
    /\ phase' = "idle" /\ mem' = EmptyMemory /\ log' = Empty
    /\ UNCHANGED <<source, runs, faults>>

-----------------------------------------------------------------------------
(* Topics.                                                                 *)

ImportTopic(d) ==
    LET x == source.discussions[d]
        row == <<"topics", d>>
        mapped == IF x.challenge = "missing" THEN {} ELSE {x.actor}
    IN
    /\ IsNext("topics", d)
    /\ \/ /\ x.challenge = "missing" \/ MemberOf(x.actor) = NoMember
          /\ SkippedRow(row)
          /\ mem' = Pass(d, mapped)
       \/ /\ x.challenge # "missing" /\ MemberOf(x.actor) # NoMember
          /\ \/ /\ Imported(row, [db EXCEPT !.topics = @ \cup {TopicId(d)}])
                /\ mem' = [Pass(d, mapped) EXCEPT !.topics = @ \cup {d}]
             \/ WriteFails(row) /\ mem' = Pass(d, mapped)
    /\ UNCHANGED <<source, phase, runs>>

-----------------------------------------------------------------------------
(* Replies.  A frame is a call of importBranch whose reply was imported and *)
(* whose children are being visited; the lowest frame is the call for the   *)
(* topic.  Siblings come in the order of their dates, which may be any.     *)

RepliesOf(d) == {r \in DOMAIN source.replies : source.replies[r].discussion = d}

ParentOf(r) == source.replies[r].parent

ChildrenOf(d, p) == {r \in RepliesOf(d) : ParentOf(r) = p}

Frame(d, p) == [reply |-> p, todo |-> ChildrenOf(d, p)]

InGraph == phase = "replies" /\ mem.frames # <<>>

Unvisited == RepliesOf(mem.cursor) \ mem.visited

\* Mutant: children visited before are skipped again.
SkippedAgain(p, free) == ChildrenOf(mem.cursor, p)

\* The replies skipReplyChildren marks: those below reply p that are reached
\* without crossing a reply visited before.
SkippedBelow(p, free) ==
    LET reach[n \in Nat] ==
            IF n = 0 THEN {p}
            ELSE reach[n - 1] \cup {r \in free : ParentOf(r) \in reach[n - 1]}
    IN  reach[Cardinality(free)] \cap free

WithOutcome(row, outcome, l) == Put(l, row, Append(l[row], outcome))

\* The report after one reply got an outcome and others were skipped.
Recorded(r, outcome, skipped) ==
    [row \in DOMAIN log |->
        IF row = <<"replies", r>> THEN Append(log[row], outcome)
        ELSE IF \E s \in skipped : row = <<"replies", s>>
             THEN Append(log[row], "skipped")
        ELSE log[row]]

\* The replies of the next discussion are read, and all skipped when it was
\* not imported.
ScanDiscussion(d) ==
    /\ IsNext("replies", d) /\ mem.frames = <<>>
    /\ LET start == IF d \in mem.topics THEN <<>> ELSE <<"skipped">>
           rows == {<<"replies", r>> : r \in RepliesOf(d)}
       IN  log' = [row \in DOMAIN log \cup rows |->
                      IF row \in rows THEN start ELSE log[row]]
    /\ mem' = [mem EXCEPT !.cursor = d, !.visited = {},
                          !.frames = IF d \in mem.topics
                                     THEN <<Frame(d, Root)>> ELSE <<>>]
    /\ UNCHANGED <<source, db, phase, runs, faults>>

Visit(r, skipped) == [mem EXCEPT !.visited = @ \cup {r} \cup skipped,
                                 !.mapped = @ \cup {source.replies[r].actor}]

\* Mutant: every reply is attached to the topic, as in a flat thread.
ParentIsTopic == TopicId(mem.cursor)

ParentId == IF Top.reply = Root THEN TopicId(mem.cursor) ELSE PostId(Top.reply)

ImportReply(r) ==
    /\ InGraph /\ r \in Pending
    /\ MemberOf(source.replies[r].actor) # NoMember
    /\ db' = [db EXCEPT !.posts = Put(@, PostId(r), ParentId)]
    /\ log' = Recorded(r, "imported", {})
    /\ mem' = [Visit(r, {}) EXCEPT
                  !.frames = Append(@, Frame(mem.cursor, r))]
    /\ UNCHANGED <<source, phase, runs, faults>>

\* An unmatched author or a failing write skips the whole branch.
SkipReply(r) ==
    LET skipped == SkippedBelow(r, Unvisited \ {r}) IN
    /\ InGraph /\ r \in Pending
    /\ \/ /\ MemberOf(source.replies[r].actor) = NoMember
          /\ NoFault
          /\ log' = Recorded(r, "skipped", skipped)
       \/ /\ MemberOf(source.replies[r].actor) # NoMember
          /\ Fault
          /\ log' = Recorded(r, "failed", skipped)
    /\ mem' = Visit(r, skipped)
    /\ UNCHANGED <<source, db, phase, runs>>

\* The lookup of a child's author throws.  The call for the parent catches
\* it: the parent is recorded as failed, although it was imported, and its
\* other children are skipped.  The child, visited, is recorded nowhere.
LookupThrows(r) ==
    LET skipped == SkippedBelow(Top.reply, Unvisited \ {r}) IN
    /\ InGraph /\ r \in Pending
    /\ Len(mem.frames) > 1
    /\ source.replies[r].actor \notin mem.mapped
    /\ Fault
    /\ log' = Recorded(Top.reply, "failed", skipped)
    /\ mem' = [mem EXCEPT !.visited = @ \cup {r} \cup skipped,
                          !.frames = Callers]
    /\ UNCHANGED <<source, db, phase, runs>>

ReturnFromBranch ==
    /\ InGraph /\ Pending = {} /\ Len(mem.frames) > 1
    /\ mem' = [mem EXCEPT !.frames = Callers]
    /\ UNCHANGED <<source, db, phase, log, runs, faults>>

\* After the branches of the topic, what was not reached: orphans, cycles,
\* and the children of a reply whose lookup threw.  Each is skipped with its
\* branch.  The code would import one whose parent was imported; there is none.
SweepOrphan(r) ==
    LET skipped == SkippedBelow(r, Unvisited \ {r}) IN
    /\ InGraph /\ Pending = {} /\ Len(mem.frames) = 1
    /\ r \in Unvisited
    /\ PostId(ParentOf(r)) \notin DOMAIN db.posts
    /\ log' = Recorded(r, "skipped", skipped)
    /\ mem' = [mem EXCEPT !.visited = @ \cup {r} \cup skipped]
    /\ UNCHANGED <<source, db, phase, runs, faults>>

EndGraph ==
    /\ InGraph /\ Pending = {} /\ Len(mem.frames) = 1
    /\ Unvisited = {}
    /\ mem' = [mem EXCEPT !.frames = <<>>]
    /\ UNCHANGED <<source, db, phase, log, runs, faults>>

-----------------------------------------------------------------------------
(* Watches and read states.                                                *)

\* The topic and member a row of GDN_UserDiscussion speaks of.
StateKey(i) == <<TopicId(source.userDiscussions[i].discussion),
                 MemberOf(source.userDiscussions[i].actor)>>

\* The author is looked up only for a discussion that was imported.
MappedBy(i) == IF source.userDiscussions[i].discussion \in mem.topics
               THEN {source.userDiscussions[i].actor} ELSE {}

Unusable(i) ==
    \/ source.userDiscussions[i].discussion \notin mem.topics
    \/ MemberOf(source.userDiscussions[i].actor) = NoMember

ImportWatch(i) ==
    LET row == <<"watches", i>>
        key == StateKey(i) IN
    /\ IsNext("watches", i)
    /\ \/ /\ Unusable(i) \/ key \in mem.keys
          /\ SkippedRow(row)
          /\ mem' = Pass(i, MappedBy(i))
       \/ /\ ~Unusable(i) /\ key \notin mem.keys
          /\ \/ Imported(row, [db EXCEPT !.watches = @ \cup {key}])
             \/ WriteFails(row)
          /\ mem' = [Pass(i, MappedBy(i)) EXCEPT !.keys = @ \cup {key}]
    /\ UNCHANGED <<source, phase, runs>>

ReadAt(i) == source.userDiscussions[i].readAt

\* Mutant: the first read state of a topic and member is kept.
IsDuplicate(i) == StateKey(i) \in DOMAIN mem.latest

IsSuperseded(i) ==
    /\ StateKey(i) \in DOMAIN mem.latest
    /\ ReadAt(mem.latest[StateKey(i)]) >= ReadAt(i)

\* Rows are collapsed first; the older of two is skipped.
CollectReadState(i) ==
    LET row == <<"readState", i>>
        key == StateKey(i) IN
    /\ IsNext("readState", i)
    /\ \/ /\ Unusable(i) \/ IsSuperseded(i)
          /\ Settle(row, "skipped")
          /\ mem' = Pass(i, MappedBy(i))
       \/ /\ ~Unusable(i) /\ ~IsSuperseded(i)
          /\ log' = Put(IF key \in DOMAIN mem.latest
                        THEN WithOutcome(<<"readState", mem.latest[key]>>,
                                     "skipped", log)
                        ELSE log,
                        row, <<>>)
          /\ mem' = [Pass(i, MappedBy(i)) EXCEPT !.latest = Put(@, key, i)]
    /\ UNCHANGED <<source, db, phase, runs, faults>>

\* Then each remaining one is written; their order does not matter.
WriteReadState(key) ==
    LET row == <<"readState", mem.latest[key]>> IN
    /\ phase = "readState" /\ Ahead("readState") = {}
    /\ key \in DOMAIN mem.latest
    /\ \/ /\ NoFault
          /\ log' = WithOutcome(row, "imported", log)
          /\ db' = [db EXCEPT !.reads = Put(@, key, ReadAt(mem.latest[key]))]
       \/ /\ Fault
          /\ log' = WithOutcome(row, "failed", log)
          /\ UNCHANGED db
    /\ mem' = [mem EXCEPT !.latest = [k \in DOMAIN @ \ {key} |-> @[k]]]
    /\ UNCHANGED <<source, phase, runs>>

-----------------------------------------------------------------------------
(* Bans.  The unique indexes refuse a second active row.                   *)

ImportMemberBan(u) ==
    LET row == <<"memberBans", u>>
        member == MemberOf(u) IN
    /\ IsNext("memberBans", u)
    /\ \/ member = NoMember /\ SkippedRow(row)
       \/ /\ member \notin db.bans \cup {NoMember}
          /\ Imported(row, [db EXCEPT !.bans = @ \cup {member}])
       \/ /\ member \in db.bans
          /\ NoFault /\ Settle(row, "failed") /\ UNCHANGED db
       \/ member \notin db.bans \cup {NoMember} /\ WriteFails(row)
    /\ mem' = Pass(u, {u})
    /\ UNCHANGED <<source, phase, runs>>

ImportIpBan(b) ==
    LET row == <<"ipBans", b>>
        address == source.rules[b] IN
    /\ IsNext("ipBans", b)
    /\ \/ address = NonExact /\ SkippedRow(row)
       \/ /\ address \notin db.addresses \cup {NonExact}
          /\ Imported(row, [db EXCEPT !.addresses = @ \cup {address}])
       \/ /\ address \in db.addresses
          /\ NoFault /\ Settle(row, "failed") /\ UNCHANGED db
       \/ address \notin db.addresses \cup {NonExact} /\ WriteFails(row)
    /\ mem' = Pass(b, {})
    /\ UNCHANGED <<source, phase, runs>>

-----------------------------------------------------------------------------

ReplyStep ==
    \/ \E d \in ReadDiscussions : ScanDiscussion(d)
    \/ \E r \in DOMAIN source.replies :
          \/ ImportReply(r) \/ SkipReply(r) \/ LookupThrows(r)
          \/ SweepOrphan(r)
    \/ ReturnFromBranch \/ EndGraph

StateStep ==
    \/ \E i \in DOMAIN source.userDiscussions :
          ImportWatch(i) \/ CollectReadState(i)
    \/ \E key \in DOMAIN mem.latest : WriteReadState(key)

RunStep ==
    \/ PreflightPasses \/ PreflightFails
    \/ \E d \in DOMAIN source.discussions : ImportTopic(d)
    \/ ReplyStep
    \/ StateStep
    \/ \E u \in source.banned : ImportMemberBan(u)
    \/ \E b \in DOMAIN source.rules : ImportIpBan(b)
    \/ EndStage \/ Flush \/ Abort

Next == Start \/ RunStep \/ Crash \/ Wipe

\* A started process keeps running; nobody has to start one, wipe or crash.
Spec == Init /\ [][Next]_vars /\ WF_vars(RunStep)

-----------------------------------------------------------------------------
(* Properties.                                                             *)

Replies == DOMAIN source.replies

\* Every variable has the shape of what the code keeps in it; the calls of
\* importBranch that have not returned are a path down from the topic.
TypeOK ==
    /\ phase \in Idle \cup {"preflight", "flush"} \cup StageNames
    /\ runs \in 0..MaxRuns /\ faults \in 0..MaxFaults
    /\ mem.topics \subseteq DOMAIN source.discussions
    /\ mem.visited \subseteq Replies
    /\ \A n \in 1..Len(mem.frames) :
          /\ mem.frames[n].reply \in Replies \cup {Root}
          /\ mem.frames[n].todo = ChildrenOf(mem.cursor, mem.frames[n].reply)
          /\ IF n = 1 THEN mem.frames[n].reply = Root
                      ELSE mem.frames[n].reply \in mem.frames[n - 1].todo
    /\ \A row \in DOMAIN log : log[row] \in Seq(Outcomes)
    /\ db.topics \subseteq (1..MaxRuns) \X DOMAIN source.discussions
    /\ DOMAIN db.posts \subseteq (1..MaxRuns) \X Replies

\* "without reparenting": a reply is stored under the post of its parent in
\* Vanilla, or under the topic of its discussion, of the same run; and going
\* up from any set of imported replies one leaves it, so all reach the topic.
\* The recursion, the skipped branches and the sweep of orphans must agree.
RepliesKeepTheirPlace ==
    /\ \A id \in DOMAIN db.posts :
          LET r == id[2] IN
          IF ParentOf(r) = Root
          THEN /\ db.posts[id] = <<id[1], source.replies[r].discussion>>
               /\ db.posts[id] \in db.topics
          ELSE /\ db.posts[id] = <<id[1], ParentOf(r)>>
               /\ db.posts[id] \in DOMAIN db.posts
    /\ \A S \in SUBSET {id[2] : id \in DOMAIN db.posts} :
          S # {} => \E r \in S : ParentOf(r) \notin S

\* The preflight of a rerun, after a crash or a failure at any point of the
\* run before, keeps a discussion or reply from being imported twice.
NothingImportedTwice ==
    /\ \A x, y \in db.topics : x[2] = y[2] => x = y
    /\ \A x, y \in DOMAIN db.posts : x[2] = y[2] => x = y

\* The rows a completed run has to account for.
RowsToCount ==
    {<<"topics", d>> : d \in DOMAIN source.discussions}
    \cup {<<"replies", r>> : r \in Replies}
    \cup {<<"watches", i>> : i \in Rows("watches")}
    \cup {<<"readState", i>> : i \in Rows("readState")}
    \cup {<<"memberBans", u>> : u \in source.banned}
    \cup {<<"ipBans", b>> : b \in DOMAIN source.rules}

CaughtLookup == <<"imported", "failed">>

\* A completed run read every row and recorded one outcome of each.  The one
\* exception is a lookup that threw in the branch of a reply: the reply is
\* recorded as imported and failed, and one child of it not at all.
EachRowCountedOnce ==
    phase = "completed" =>
       /\ DOMAIN log = RowsToCount
       /\ \A row \in DOMAIN log :
             \/ Len(log[row]) = 1
             \/ row[1] = "replies" /\ log[row] = CaughtLookup
             \/ /\ row[1] = "replies" /\ log[row] = <<>>
                /\ log[<<"replies", ParentOf(row[2])>>] = CaughtLookup
       /\ \A r, q \in Replies :
             /\ log[<<"replies", r>>] = <<>> /\ log[<<"replies", q>>] = <<>>
             /\ ParentOf(r) = ParentOf(q)
             => r = q

Reported(row) ==
    row \in DOMAIN log /\ \E n \in 1..Len(log[row]) : log[row][n] = "imported"

\* The report of a completed run lists as imported what the target holds: the
\* topics, the replies, and one watch, read state or ban for every row it
\* names.  Writes, skips and failures of six stages must agree with it.
ReportMatchesTarget ==
    phase = "completed" =>
       /\ db.topics = {TopicId(d) : d \in {x \in DOMAIN source.discussions :
                                              Reported(<<"topics", x>>)}}
       /\ DOMAIN db.posts = {PostId(r) : r \in {x \in Replies :
                                              Reported(<<"replies", x>>)}}
       /\ LET W == {i \in Rows("watches") : Reported(<<"watches", i>>)}
              R == {i \in Rows("readState") : Reported(<<"readState", i>>)}
              B == {u \in source.banned : Reported(<<"memberBans", u>>)}
          IN  /\ db.watches = {StateKey(i) : i \in W}
              /\ Cardinality(db.watches) = Cardinality(W)
              /\ DOMAIN db.reads = {StateKey(i) : i \in R}
              /\ Cardinality(DOMAIN db.reads) = Cardinality(R)
              /\ db.bans = {MemberOf(u) : u \in B}
              /\ Cardinality(db.bans) = Cardinality(B)

\* "Read-state duplicates collapse to the latest legacy timestamp": what is
\* stored for a topic and member is the latest time any of the legacy users
\* of that member viewed the discussion, and it is stored unless its write
\* failed.
LatestReadStateWins ==
    phase = "completed" =>
       \A i \in Rows("readState") : ~Unusable(i) =>
          LET same == {j \in Rows("readState") : StateKey(j) = StateKey(i)}
              newest == CHOOSE t \in {ReadAt(j) : j \in same} :
                           \A j \in same : ReadAt(j) <= t
          IN  IF StateKey(i) \in DOMAIN db.reads
              THEN db.reads[StateKey(i)] = newest
              ELSE \E j \in same : ReadAt(j) = newest
                                   /\ log[<<"readState", j>>] = <<"failed">>

\* A started run ends: no source, however its replies point at one another,
\* and no failure keeps it reading.
EveryRunEnds == [](phase = "preflight" => <>(phase \in Idle))

\* What importReplyGraph says of itself: it does not throw for a failure of
\* one reply, "they are reported".  Refuted: see CaughtLookup.
EveryReplyIsReported ==
    phase = "completed" =>
       \A r \in Replies : Len(log[<<"replies", r>>]) = 1

=============================================================================
