-------------------------- MODULE VanillaImportProofs --------------------------
(***************************************************************************)
(* Proofs about VanillaImport: the types, the place of every reply, that   *)
(* no rerun imports twice, and that the report of a completed run counts   *)
(* every row and agrees with the target, for every source and any bounds.  *)
(***************************************************************************)
EXTENDS VanillaImport, SequenceTheorems, FiniteSetTheorems, TLAPS

FrameSet == [reply : Key \cup {Root}, todo : SUBSET Key]

MemoryFields == {"cursor", "topics", "mapped", "frames", "visited", "keys", "latest"}
TableNames == {"topics", "posts", "watches", "reads", "bans", "addresses"}

Shapes ==
  /\ source \in Sources
  /\ DOMAIN mem = MemoryFields /\ DOMAIN db = TableNames
  /\ mem.frames \in Seq(FrameSet)
  /\ \A key \in DOMAIN mem.latest : <<"readState", mem.latest[key]>> \in DOMAIN log

Importing == StageNames \cup {"flush"}

Stored == db.topics \cup DOMAIN db.posts

\* What the target holds is of one run, and of the present one since its
\* preflight.
OneRun ==
  /\ \A x, y \in Stored : x[1] = y[1]
  /\ phase \in Importing => \A x \in Stored : x[1] = runs

DiscussionOf(r) == source.replies[r].discussion

\* What the run remembers of the target is there, and the replies of the
\* discussion it is in are posts only when visited.
MemoryMatches ==
  /\ phase = "preflight" => mem = EmptyMemory
  /\ phase \in Importing \cup {"preflight"} => runs > 0
  /\ phase \in Importing \ {"replies"} => mem.frames = <<>>
  /\ phase \in Importing => \A d \in mem.topics : TopicId(d) \in db.topics
  /\ phase = "topics" => DOMAIN db.posts = {}
  /\ phase = "replies" =>
       /\ mem.cursor \in Nat
       /\ \A id \in DOMAIN db.posts : DiscussionOf(id[2]) <= mem.cursor
       /\ mem.frames # <<>> =>
            /\ mem.cursor \in mem.topics
            /\ \A id \in DOMAIN db.posts :
                 DiscussionOf(id[2]) = mem.cursor => id[2] \in mem.visited
            /\ \A n \in 2..Len(mem.frames) :
                 PostId(mem.frames[n].reply) \in DOMAIN db.posts

IInv == Shapes /\ TypeOK /\ OneRun /\ MemoryMatches /\ RepliesKeepTheirPlace

-----------------------------------------------------------------------------
LEMMA SkippedIsFree ==
  ASSUME NEW p, NEW free
  PROVE  SkippedBelow(p, free) \subseteq free
  BY DEF SkippedBelow

\* The children of a reply are replies of its discussion.
LEMMA ChildrenAreReplies ==
  ASSUME NEW d, NEW p, NEW r \in ChildrenOf(d, p)
  PROVE  r \in Replies /\ DiscussionOf(r) = d /\ ParentOf(r) = p
  BY DEF ChildrenOf, RepliesOf, Replies, DiscussionOf

LEMMA ReplyIds ==
  ASSUME source \in Sources
  PROVE  /\ Replies \subseteq Key
         /\ Root \notin Replies
         /\ DOMAIN source.discussions \subseteq Key
         /\ \A r \in Replies : DiscussionOf(r) \in DOMAIN source.discussions
  BY SourcesAssumption, KeyAssumption DEF Replies, DiscussionOf

LEMMA InitIInv == Init => IInv
<1> SUFFICES ASSUME Init PROVE IInv
  OBVIOUS
<1> USE DEF Init, EmptyTarget, EmptyMemory, Empty
<1>1. Shapes
  BY DEF Shapes, MemoryFields, TableNames
<1>2. TypeOK
  BY BoundsAssumption DEF TypeOK, Idle
<1>3. OneRun
  BY DEF OneRun, Stored, Importing, StageNames, Stages
<1>4. MemoryMatches
  BY DEF MemoryMatches, Importing, StageNames, Stages
<1>5. RepliesKeepTheirPlace
  BY DEF RepliesKeepTheirPlace
<1>6. QED
  BY <1>1, <1>2, <1>3, <1>4, <1>5 DEF IInv

-----------------------------------------------------------------------------
(* Steps outside the reply stage.                                          *)

LEMMA StagesAre ==
  /\ StageNames = {"topics", "replies", "watches", "readState", "memberBans", "ipBans"}
  /\ \A s \in StageNames : NextStage(s) \in {"replies", "watches", "readState",
                                              "memberBans", "ipBans", "flush"}
<1>1. StageNames = {"topics", "replies", "watches", "readState", "memberBans", "ipBans"}
  BY DEF StageNames, Stages
<1>2. ASSUME NEW s \in StageNames
      PROVE  NextStage(s) \in {"replies", "watches", "readState", "memberBans",
                               "ipBans", "flush"}
  <2>1. CASE s = "ipBans"
    BY <2>1 DEF NextStage
  <2>2. CASE s # "ipBans"
    <3>1. \E j \in 1..5 : Stages[j] = s
      BY <1>1, <2>2 DEF Stages
    <3>2. PICK i \in 1..5 : NextStage(s) = Stages[i + 1]
      BY <2>2, <3>1 DEF NextStage
    <3>3. QED
      BY <3>2 DEF Stages
  <2>3. QED
    BY <2>1, <2>2
<1>3. QED
  BY <1>1, <1>2

Quiet == {"watches", "readState", "memberBans", "ipBans"}

\* A step of a later stage leaves topics, posts and the reply graph alone.
LEMMA QuietStep ==
  ASSUME IInv, phase \in Quiet,
         UNCHANGED <<source, phase, runs>>,
         faults' \in 0..MaxFaults,
         DOMAIN mem' = MemoryFields, mem'.frames = mem.frames,
         mem'.topics = mem.topics, mem'.visited = mem.visited,
         DOMAIN db' = TableNames, db'.topics = db.topics, db'.posts = db.posts,
         \A row \in DOMAIN log' : log'[row] \in Seq(Outcomes),
         \A key \in DOMAIN mem'.latest : <<"readState", mem'.latest[key]>> \in DOMAIN log'
  PROVE  IInv'
<1> USE DEF IInv
<1>1. Shapes'
  BY DEF Shapes
<1>2. mem.frames = <<>> /\ phase \in StageNames
  BY StagesAre DEF MemoryMatches, Importing, Quiet
<1>3. TypeOK'
  BY <1>2 DEF TypeOK, Replies
<1>4. OneRun'
  BY DEF OneRun, Stored
<1>5. MemoryMatches'
  BY <1>2 DEF MemoryMatches, TopicId, Quiet
<1>6. RepliesKeepTheirPlace'
  BY DEF RepliesKeepTheirPlace, ParentOf
<1>7. QED
  BY <1>1, <1>3, <1>4, <1>5, <1>6

\* Settling a row keeps the report in its shape.
LEMMA Settling ==
  ASSUME IInv, NEW row, NEW outcome \in Outcomes, Settle(row, outcome)
  PROVE  /\ \A x \in DOMAIN log' : log'[x] \in Seq(Outcomes)
         /\ DOMAIN log \subseteq DOMAIN log' /\ row \in DOMAIN log'
  BY DEF IInv, TypeOK, Settle, Put

LEMMA FaultRange ==
  ASSUME IInv
  PROVE  (Fault => faults' \in 0..MaxFaults) /\ (NoFault => faults' \in 0..MaxFaults)
  BY BoundsAssumption DEF IInv, TypeOK, Fault, NoFault

\* What Pass keeps.
LEMMA Passing ==
  ASSUME DOMAIN mem = MemoryFields, NEW k, NEW S
  PROVE  LET m == Pass(k, S) IN
         /\ DOMAIN m = MemoryFields /\ m.cursor = k /\ m.frames = mem.frames
         /\ m.topics = mem.topics /\ m.visited = mem.visited
         /\ m.latest = mem.latest
  BY DEF Pass, MemoryFields

LEMMA ImportWatchIInv ==
  ASSUME IInv, NEW i, ImportWatch(i)
  PROVE  IInv'
<1> DEFINE row == <<"watches", i>>
<1>0. DOMAIN mem = MemoryFields /\ DOMAIN db = TableNames
  BY DEF IInv, Shapes
<1>1. /\ phase \in Quiet /\ UNCHANGED <<source, phase, runs>>
  BY DEF ImportWatch, IsNext, Quiet
<1>2. /\ DOMAIN mem' = MemoryFields /\ mem'.frames = mem.frames
      /\ mem'.topics = mem.topics /\ mem'.visited = mem.visited
      /\ mem'.latest = mem.latest
  <2>1. CASE mem' = Pass(i, MappedBy(i))
    BY <2>1, <1>0, Passing
  <2>2. CASE mem' = [Pass(i, MappedBy(i)) EXCEPT !.keys = @ \cup {StateKey(i)}]
    BY <2>2, <1>0, Passing DEF MemoryFields
  <2>3. QED
    BY <2>1, <2>2 DEF ImportWatch
<1>3. \/ SkippedRow(row) \/ WriteFails(row)
      \/ Imported(row, [db EXCEPT !.watches = @ \cup {StateKey(i)}])
  BY DEF ImportWatch
<1>4. /\ DOMAIN db' = TableNames /\ db'.topics = db.topics /\ db'.posts = db.posts
  BY <1>0, <1>3 DEF SkippedRow, WriteFails, Imported, TableNames
<1>5. PICK outcome \in Outcomes : Settle(row, outcome)
  BY <1>3 DEF SkippedRow, WriteFails, Imported, Outcomes
<1>6. faults' \in 0..MaxFaults
  BY <1>3, FaultRange DEF SkippedRow, WriteFails, Imported
<1>7. /\ \A x \in DOMAIN log' : log'[x] \in Seq(Outcomes)
      /\ DOMAIN log \subseteq DOMAIN log'
  BY <1>5, Settling
<1>8. QED
  BY <1>1, <1>2, <1>4, <1>6, <1>7, QuietStep DEF IInv, Shapes
LEMMA ImportBanIInv ==
  ASSUME IInv, NEW k, ImportMemberBan(k) \/ ImportIpBan(k)
  PROVE  IInv'
<1>0. DOMAIN mem = MemoryFields /\ DOMAIN db = TableNames
  BY DEF IInv, Shapes
<1>1. /\ phase \in Quiet /\ UNCHANGED <<source, phase, runs>>
  BY DEF ImportMemberBan, ImportIpBan, IsNext, Quiet
<1>2. PICK S : mem' = Pass(k, S)
  BY DEF ImportMemberBan, ImportIpBan
<1>3. /\ DOMAIN mem' = MemoryFields /\ mem'.frames = mem.frames
      /\ mem'.topics = mem.topics /\ mem'.visited = mem.visited
      /\ mem'.latest = mem.latest
  BY <1>0, <1>2, Passing
<1>4. \E row : \E outcome \in Outcomes : Settle(row, outcome)
  <2>1. CASE ImportMemberBan(k)
    <3>1. \E outcome \in Outcomes : Settle(<<"memberBans", k>>, outcome)
      BY <2>1 DEF ImportMemberBan, SkippedRow, WriteFails, Imported, Outcomes
    <3>2. QED
      BY <3>1
  <2>2. CASE ImportIpBan(k)
    <3>1. \E outcome \in Outcomes : Settle(<<"ipBans", k>>, outcome)
      BY <2>2 DEF ImportIpBan, SkippedRow, WriteFails, Imported, Outcomes
    <3>2. QED
      BY <3>1
  <2>3. QED
    BY <2>1, <2>2
<1>5. /\ DOMAIN db' = TableNames /\ db'.topics = db.topics /\ db'.posts = db.posts
  <2>1. CASE ImportMemberBan(k)
    BY <1>0, <2>1 DEF ImportMemberBan, SkippedRow, WriteFails, Imported, TableNames
  <2>2. CASE ImportIpBan(k)
    BY <1>0, <2>2 DEF ImportIpBan, SkippedRow, WriteFails, Imported, TableNames
  <2>3. QED
    BY <2>1, <2>2
<1>6. faults' \in 0..MaxFaults
  <2>1. CASE ImportMemberBan(k)
    BY <2>1, FaultRange DEF ImportMemberBan, SkippedRow, WriteFails, Imported
  <2>2. CASE ImportIpBan(k)
    BY <2>2, FaultRange DEF ImportIpBan, SkippedRow, WriteFails, Imported
  <2>3. QED
    BY <2>1, <2>2
<1>7. /\ \A x \in DOMAIN log' : log'[x] \in Seq(Outcomes)
      /\ DOMAIN log \subseteq DOMAIN log'
  BY <1>4, Settling
<1>8. QED
  BY <1>1, <1>3, <1>5, <1>6, <1>7, QuietStep DEF IInv, Shapes

\* Adding an outcome to a row of the report.
LEMMA Adding ==
  ASSUME IInv, NEW row \in DOMAIN log, NEW outcome \in Outcomes
  PROVE  LET l == WithOutcome(row, outcome, log) IN
         DOMAIN l = DOMAIN log /\ \A x \in DOMAIN l : l[x] \in Seq(Outcomes)
<1>1. \A x \in DOMAIN log : log[x] \in Seq(Outcomes)
  BY DEF IInv, TypeOK
<1>2. Append(log[row], outcome) \in Seq(Outcomes)
  BY <1>1, AppendProperties
<1>3. QED
  BY <1>1, <1>2 DEF WithOutcome, Put

LEMMA CollectReadStateIInv ==
  ASSUME IInv, NEW i, CollectReadState(i)
  PROVE  IInv'
<1> DEFINE row == <<"readState", i>>
           key == StateKey(i)
           last == <<"readState", mem.latest[key]>>
<1>0. DOMAIN mem = MemoryFields /\ DOMAIN db = TableNames
  BY DEF IInv, Shapes
<1>1. /\ phase \in Quiet /\ UNCHANGED <<source, db, phase, runs, faults>>
  BY DEF CollectReadState, IsNext, Quiet
<1>2. faults' \in 0..MaxFaults
  BY <1>1 DEF IInv, TypeOK
<1>3. CASE Settle(row, "skipped") /\ mem' = Pass(i, MappedBy(i))
  <2>1. /\ DOMAIN mem' = MemoryFields /\ mem'.frames = mem.frames
        /\ mem'.topics = mem.topics /\ mem'.visited = mem.visited
        /\ mem'.latest = mem.latest
    BY <1>0, <1>3, Passing
  <2>2. /\ \A x \in DOMAIN log' : log'[x] \in Seq(Outcomes)
        /\ DOMAIN log \subseteq DOMAIN log'
    BY <1>3, Settling DEF Outcomes
  <2>3. QED
    BY <1>0, <1>1, <1>2, <2>1, <2>2, QuietStep DEF IInv, Shapes
<1>4. CASE /\ log' = Put(IF key \in DOMAIN mem.latest
                          THEN WithOutcome(last, "skipped", log) ELSE log, row, <<>>)
           /\ mem' = [Pass(i, MappedBy(i)) EXCEPT !.latest = Put(@, key, i)]
  <2>1. /\ DOMAIN mem' = MemoryFields /\ mem'.frames = mem.frames
        /\ mem'.topics = mem.topics /\ mem'.visited = mem.visited
        /\ mem'.latest = Put(mem.latest, key, i)
    BY <1>0, <1>4, Passing DEF MemoryFields
  <2>2. key \in DOMAIN mem.latest => last \in DOMAIN log
    BY DEF IInv, Shapes
  <2>3. PICK l : /\ log' = Put(l, row, <<>>) /\ DOMAIN l = DOMAIN log
                 /\ \A x \in DOMAIN l : l[x] \in Seq(Outcomes)
    <3>1. CASE key \in DOMAIN mem.latest
      BY <1>4, <2>2, <3>1, Adding DEF Outcomes
    <3>2. CASE key \notin DOMAIN mem.latest
      BY <1>4, <3>2 DEF IInv, TypeOK
    <3>3. QED
      BY <3>1, <3>2
  <2>4. /\ \A x \in DOMAIN log' : log'[x] \in Seq(Outcomes)
        /\ DOMAIN log \subseteq DOMAIN log' /\ row \in DOMAIN log'
    BY <2>3 DEF Put
  <2>5. \A k \in DOMAIN mem'.latest : <<"readState", mem'.latest[k]>> \in DOMAIN log'
    BY <2>1, <2>4 DEF IInv, Shapes, Put
  <2>6. QED
    BY <1>0, <1>1, <1>2, <2>1, <2>4, <2>5, QuietStep
<1>5. QED
  BY <1>3, <1>4 DEF CollectReadState

LEMMA WriteReadStateIInv ==
  ASSUME IInv, NEW key \in DOMAIN mem.latest, WriteReadState(key)
  PROVE  IInv'
<1> DEFINE row == <<"readState", mem.latest[key]>>
<1>0. DOMAIN mem = MemoryFields /\ DOMAIN db = TableNames /\ row \in DOMAIN log
  BY DEF IInv, Shapes
<1>1. /\ phase \in Quiet /\ UNCHANGED <<source, phase, runs>>
  BY DEF WriteReadState, Quiet
<1>2. /\ DOMAIN mem' = MemoryFields /\ mem'.frames = mem.frames
      /\ mem'.topics = mem.topics /\ mem'.visited = mem.visited
      /\ mem'.latest = [k \in DOMAIN mem.latest \ {key} |-> mem.latest[k]]
  BY <1>0 DEF WriteReadState, MemoryFields
<1>3. /\ DOMAIN db' = TableNames /\ db'.topics = db.topics /\ db'.posts = db.posts
  BY <1>0 DEF WriteReadState, TableNames
<1>4. PICK outcome \in Outcomes : log' = WithOutcome(row, outcome, log)
  BY DEF WriteReadState, Outcomes
<1>5. DOMAIN log' = DOMAIN log /\ \A x \in DOMAIN log' : log'[x] \in Seq(Outcomes)
  BY <1>0, <1>4, Adding
<1>6. faults' \in 0..MaxFaults
  BY FaultRange DEF WriteReadState
<1>7. \A k \in DOMAIN mem'.latest : <<"readState", mem'.latest[k]>> \in DOMAIN log'
  BY <1>2, <1>5 DEF IInv, Shapes
<1>8. QED
  BY <1>1, <1>2, <1>3, <1>5, <1>6, <1>7, QuietStep
-----------------------------------------------------------------------------
(* A run begins, moves from stage to stage, and ends.                      *)

\* The memory of a new run fits any target.
LEMMA NewRun ==
  ASSUME IInv, UNCHANGED source,
         mem' = EmptyMemory, log' = Empty,
         phase' \in {"idle", "preflight"},
         runs' \in 0..MaxRuns, faults' \in 0..MaxFaults,
         phase' = "preflight" => runs' > 0,
         db' = db \/ db' = EmptyTarget
  PROVE  IInv'
<1> USE DEF EmptyMemory, EmptyTarget, Empty
<1>0. phase' \notin Importing
  BY StagesAre DEF Importing
<1>1. Shapes'
  BY DEF IInv, Shapes, MemoryFields, TableNames
<1>2. TypeOK'
  BY DEF IInv, TypeOK, Idle, Replies
<1>3. OneRun'
  BY <1>0 DEF IInv, OneRun, Stored
<1>4. MemoryMatches'
  BY <1>0, StagesAre DEF MemoryMatches, Importing
<1>5. RepliesKeepTheirPlace'
  BY DEF IInv, RepliesKeepTheirPlace, ParentOf
<1>6. QED
  BY <1>1, <1>2, <1>3, <1>4, <1>5 DEF IInv

\* A run that ends keeps its memory, which nobody uses again.
LEMMA EndOfRun ==
  ASSUME IInv, UNCHANGED <<source, db, mem, log, runs>>,
         phase' \in {"failed", "completed"}, faults' \in 0..MaxFaults
  PROVE  IInv'
<1>0. phase' \notin Importing
  BY StagesAre DEF Importing
<1>1. Shapes'
  BY DEF IInv, Shapes
<1>2. TypeOK'
  BY DEF IInv, TypeOK, Idle, Replies, ChildrenOf, RepliesOf, ParentOf
<1>3. OneRun'
  BY <1>0 DEF IInv, OneRun, Stored
<1>4. MemoryMatches'
  BY <1>0, StagesAre DEF MemoryMatches, Importing
<1>5. RepliesKeepTheirPlace'
  BY DEF IInv, RepliesKeepTheirPlace, ParentOf
<1>6. QED
  BY <1>1, <1>2, <1>3, <1>4, <1>5 DEF IInv

LEMMA ControlIInv ==
  ASSUME IInv, Start \/ PreflightFails \/ Flush \/ Abort \/ Crash \/ Wipe
  PROVE  IInv'
<1>0. runs \in 0..MaxRuns /\ faults \in 0..MaxFaults
  BY DEF IInv, TypeOK
<1>1. CASE Start
  BY <1>0, <1>1, NewRun, BoundsAssumption DEF Start
<1>2. CASE Crash \/ Wipe
  BY <1>0, <1>2, NewRun DEF Crash, Wipe
<1>3. CASE PreflightFails
  BY <1>3, EndOfRun, FaultRange DEF PreflightFails
<1>4. CASE Flush
  BY <1>4, EndOfRun, FaultRange DEF Flush
<1>5. CASE Abort
  BY <1>5, EndOfRun, FaultRange DEF Abort
<1>6. QED
  BY <1>1, <1>2, <1>3, <1>4, <1>5

LEMMA PreflightPassesIInv ==
  ASSUME IInv, PreflightPasses
  PROVE  IInv'
<1>0. /\ mem = EmptyMemory /\ db = EmptyTarget /\ phase' = "topics" /\ runs > 0
      /\ UNCHANGED <<source, db, mem, log, runs, faults>>
  BY DEF IInv, MemoryMatches, PreflightPasses, TargetIsEmpty
<1> USE <1>0 DEF EmptyMemory, EmptyTarget, Empty
<1>1. Shapes'
  BY DEF IInv, Shapes
<1>2. TypeOK'
  BY StagesAre DEF IInv, TypeOK, Replies
<1>3. OneRun'
  BY DEF OneRun, Stored
<1>4. MemoryMatches'
  BY DEF MemoryMatches
<1>5. RepliesKeepTheirPlace'
  BY DEF RepliesKeepTheirPlace
<1>6. QED
  BY <1>1, <1>2, <1>3, <1>4, <1>5 DEF IInv

LEMMA EndStageIInv ==
  ASSUME IInv, EndStage
  PROVE  IInv'
<1> USE DEF IInv
<1>0. /\ phase \in StageNames /\ mem.frames = <<>>
      /\ phase' = NextStage(phase)
      /\ mem' = [mem EXCEPT !.cursor = 0]
      /\ UNCHANGED <<source, db, log, runs, faults>>
  BY DEF EndStage
<1>1. /\ DOMAIN mem' = MemoryFields /\ mem'.cursor = 0 /\ mem'.frames = <<>>
      /\ mem'.topics = mem.topics /\ mem'.visited = mem.visited
      /\ mem'.latest = mem.latest
  BY <1>0 DEF Shapes, MemoryFields
<1>2. /\ phase \in Importing /\ phase' \in Importing
      /\ phase' \notin {"topics", "preflight"}
      /\ phase' = "replies" => phase = "topics"
  <2>1. phase' = "replies" => phase = "topics"
    <3>1. CASE phase = "ipBans"
      BY <1>0, <3>1 DEF NextStage
    <3>2. CASE phase # "ipBans"
      <4>1. \E j \in 1..5 : Stages[j] = phase
        BY <1>0, <3>2, StagesAre DEF Stages
      <4>2. PICK i \in 1..5 : Stages[i] = phase /\ NextStage(phase) = Stages[i + 1]
        BY <3>2, <4>1 DEF NextStage
      <4>3. QED
        BY <1>0, <4>2 DEF Stages
    <3>3. QED
      BY <3>1, <3>2
  <2>2. QED
    BY <1>0, <2>1, StagesAre DEF Importing
<1>3. Shapes'
  BY <1>0, <1>1 DEF Shapes
<1>4. TypeOK'
  BY <1>0, <1>1, <1>2, StagesAre DEF TypeOK, Importing, Replies
<1>5. OneRun'
  BY <1>0, <1>2 DEF OneRun, Stored
<1>6. MemoryMatches'
  BY <1>0, <1>1, <1>2, StagesAre DEF MemoryMatches, Importing, TopicId
<1>7. RepliesKeepTheirPlace'
  BY <1>0 DEF RepliesKeepTheirPlace, ParentOf
<1>8. QED
  BY <1>3, <1>4, <1>5, <1>6, <1>7

LEMMA ImportTopicIInv ==
  ASSUME IInv, NEW d \in DOMAIN source.discussions, ImportTopic(d)
  PROVE  IInv'
<1> DEFINE row == <<"topics", d>>
<1> USE DEF IInv
<1>0. DOMAIN mem = MemoryFields /\ DOMAIN db = TableNames
  BY DEF Shapes
<1>1. /\ phase = "topics" /\ UNCHANGED <<source, phase, runs>>
      /\ mem.frames = <<>> /\ DOMAIN db.posts = {}
  BY StagesAre DEF ImportTopic, IsNext, MemoryMatches, Importing
<1>2. PICK S : \/ SkippedRow(row) /\ mem' = Pass(d, S)
               \/ WriteFails(row) /\ mem' = Pass(d, S)
               \/ /\ Imported(row, [db EXCEPT !.topics = @ \cup {TopicId(d)}])
                  /\ mem' = [Pass(d, S) EXCEPT !.topics = @ \cup {d}]
  BY DEF ImportTopic
<1>3. /\ DOMAIN mem' = MemoryFields /\ mem'.frames = <<>>
      /\ mem'.visited = mem.visited /\ mem'.latest = mem.latest
      /\ DOMAIN db' = TableNames /\ db'.posts = db.posts
      /\ \/ mem'.topics = mem.topics /\ db'.topics = db.topics
         \/ /\ mem'.topics = mem.topics \cup {d}
            /\ db'.topics = db.topics \cup {TopicId(d)}
  <2>1. CASE (SkippedRow(row) \/ WriteFails(row)) /\ mem' = Pass(d, S)
    BY <1>0, <1>1, <2>1, Passing DEF SkippedRow, WriteFails
  <2>2. CASE /\ Imported(row, [db EXCEPT !.topics = @ \cup {TopicId(d)}])
             /\ mem' = [Pass(d, S) EXCEPT !.topics = @ \cup {d}]
    BY <1>0, <1>1, <2>2, Passing DEF Imported, MemoryFields, TableNames
  <2>3. QED
    BY <1>2, <2>1, <2>2
<1>4. PICK outcome \in Outcomes : Settle(row, outcome)
  BY <1>2 DEF SkippedRow, WriteFails, Imported, Outcomes
<1>5. /\ \A x \in DOMAIN log' : log'[x] \in Seq(Outcomes)
      /\ DOMAIN log \subseteq DOMAIN log'
  BY <1>4, Settling
<1>6. faults' \in 0..MaxFaults
  BY <1>2, FaultRange DEF SkippedRow, WriteFails, Imported
<1>7. Shapes'
  BY <1>1, <1>3, <1>5 DEF Shapes
<1>8. runs \in 1..MaxRuns
  BY <1>1, StagesAre DEF TypeOK, MemoryMatches, Importing
<1>9. TypeOK'
  BY <1>1, <1>3, <1>5, <1>6, <1>8, StagesAre DEF TypeOK, Replies, TopicId
<1>10. OneRun'
  BY <1>1, <1>3, StagesAre DEF OneRun, Stored, TopicId, Importing
<1>11. MemoryMatches'
  BY <1>1, <1>3, StagesAre DEF MemoryMatches, TopicId, Importing
<1>12. RepliesKeepTheirPlace'
  BY <1>1, <1>3 DEF RepliesKeepTheirPlace
<1>13. QED
  BY <1>7, <1>9, <1>10, <1>11, <1>12
-----------------------------------------------------------------------------
(* Replies.                                                                *)

\* The frames of the recursion, while it is in a reply graph.
LEMMA Frames ==
  ASSUME IInv, InGraph
  PROVE  /\ phase = "replies" /\ mem.frames \in Seq(FrameSet) /\ Len(mem.frames) >= 1
         /\ Top.reply \in Replies \cup {Root}
         /\ Top.todo = ChildrenOf(mem.cursor, Top.reply)
         /\ Top.reply = Root <=> Len(mem.frames) = 1
         /\ Pending \subseteq Replies
         /\ mem.cursor \in mem.topics
         /\ TopicId(mem.cursor) \in db.topics
         /\ Top.reply # Root => PostId(Top.reply) \in DOMAIN db.posts
<1>1. /\ phase = "replies" /\ mem.frames \in Seq(FrameSet) /\ mem.frames # <<>>
  BY DEF IInv, InGraph, Shapes
<1>2. PICK n \in Nat : n = Len(mem.frames) /\ n >= 1
  BY <1>1, EmptySeq, LenProperties
<1>3. \A i \in 1..Len(mem.frames) :
         /\ mem.frames[i].reply \in Replies \cup {Root}
         /\ mem.frames[i].todo = ChildrenOf(mem.cursor, mem.frames[i].reply)
         /\ IF i = 1 THEN mem.frames[i].reply = Root
                     ELSE mem.frames[i].reply \in mem.frames[i - 1].todo
  BY DEF IInv, TypeOK
<1>4. Root \notin Replies
  BY ReplyIds DEF IInv, Shapes
<1>5. CASE n = 1
  BY <1>1, <1>2, <1>3, <1>5, StagesAre, ChildrenAreReplies
     DEF Top, Pending, IInv, MemoryMatches, Importing
<1>6. CASE n > 1
  <2>1. /\ n \in 1..n /\ n - 1 \in 1..n /\ n # 1 /\ n \in 2..n
    BY <1>6
  <2>2. Top.reply \in mem.frames[n - 1].todo
    BY <1>2, <1>3, <2>1 DEF Top
  <2>3. Top.reply \in Replies
    BY <1>2, <1>3, <2>1, <2>2, ChildrenAreReplies
  <2>4. /\ mem.cursor \in mem.topics /\ PostId(Top.reply) \in DOMAIN db.posts
        /\ TopicId(mem.cursor) \in db.topics
    BY <1>1, <1>2, <2>1, StagesAre DEF Top, IInv, MemoryMatches, Importing
  <2>5. Pending \subseteq Replies
    BY <1>2, <1>3, <2>1, ChildrenAreReplies DEF Pending, Top
  <2>6. QED
    BY <1>1, <1>2, <1>3, <1>4, <1>6, <2>1, <2>3, <2>4, <2>5 DEF Top
<1>7. n = 1 \/ n > 1
  <2>1. n >= 1
    BY <1>2
  <2>2. QED
    BY <2>1
<1>8. QED
  BY <1>5, <1>6, <1>7

\* The report after Recorded.
LEMMA Recording ==
  ASSUME IInv, NEW r, NEW outcome \in Outcomes, NEW skipped,
         log' = Recorded(r, outcome, skipped)
  PROVE  DOMAIN log' = DOMAIN log /\ \A x \in DOMAIN log' : log'[x] \in Seq(Outcomes)
<1>1. \A x \in DOMAIN log : log[x] \in Seq(Outcomes)
  BY DEF IInv, TypeOK
<1>2. \A x \in DOMAIN log : /\ Append(log[x], outcome) \in Seq(Outcomes)
                             /\ Append(log[x], "skipped") \in Seq(Outcomes)
  BY <1>1, AppendProperties DEF Outcomes
<1>3. QED
  BY <1>1, <1>2 DEF Recorded

\* Steps of the reply graph that store nothing: they visit replies and may
\* drop the last frame.
LEMMA GraphStep ==
  ASSUME IInv, InGraph, UNCHANGED <<source, db, phase, runs>>,
         faults' \in 0..MaxFaults,
         DOMAIN mem' = MemoryFields, mem'.cursor = mem.cursor,
         mem'.topics = mem.topics, mem'.latest = mem.latest,
         mem.visited \subseteq mem'.visited, mem'.visited \subseteq Replies,
         \/ mem'.frames = mem.frames
         \/ mem'.frames = Callers /\ Len(mem.frames) > 1
         \/ mem'.frames = <<>>,
         DOMAIN log' = DOMAIN log,
         \A x \in DOMAIN log' : log'[x] \in Seq(Outcomes)
  PROVE  IInv'
<1> USE DEF IInv
<1>0. /\ phase = "replies" /\ mem.frames \in Seq(FrameSet)
      /\ Len(mem.frames) \in Nat /\ Len(mem.frames) >= 1
  BY Frames, LenProperties
<1>1. /\ mem'.frames \in Seq(FrameSet)
      /\ Len(mem'.frames) \in Nat /\ Len(mem'.frames) <= Len(mem.frames)
      /\ \A n \in 1..Len(mem'.frames) : mem'.frames[n] = mem.frames[n]
  <2>1. CASE mem'.frames = mem.frames
    BY <1>0, <2>1
  <2>2. CASE mem'.frames = Callers /\ Len(mem.frames) > 1
    BY <1>0, <2>2, SubSeqProperties DEF Callers
  <2>3. CASE mem'.frames = <<>>
    BY <1>0, <2>3
  <2>4. QED
    BY <2>1, <2>2, <2>3
<1>2. Shapes'
  BY <1>1 DEF Shapes
<1>3. TypeOK'
  <2>1. \A d, p : ChildrenOf(d, p)' = ChildrenOf(d, p)
    BY DEF ChildrenOf, RepliesOf, ParentOf
  <2>2. \A n \in 1..Len(mem'.frames) : n \in 1..Len(mem.frames)
                                      /\ (n # 1 => n - 1 \in 1..Len(mem'.frames))
    BY <1>0, <1>1
  <2>3. ASSUME NEW n \in 1..Len(mem'.frames)
        PROVE  /\ mem'.frames[n].reply \in Replies \cup {Root}
               /\ mem'.frames[n].todo = ChildrenOf(mem.cursor, mem'.frames[n].reply)
               /\ IF n = 1 THEN mem'.frames[n].reply = Root
                           ELSE mem'.frames[n].reply \in mem'.frames[n - 1].todo
    <3>1. n \in 1..Len(mem.frames) /\ mem'.frames[n] = mem.frames[n]
      BY <1>1, <2>2
    <3>2. n # 1 => mem'.frames[n - 1] = mem.frames[n - 1]
      BY <1>1, <2>2
    <3>3. QED
      BY <3>1, <3>2 DEF TypeOK
  <2>4. (\A n \in 1..Len(mem.frames) :
           /\ mem.frames[n].reply \in Replies \cup {Root}
           /\ mem.frames[n].todo = ChildrenOf(mem.cursor, mem.frames[n].reply)
           /\ IF n = 1 THEN mem.frames[n].reply = Root
                       ELSE mem.frames[n].reply \in mem.frames[n - 1].todo)'
    BY <2>1, <2>3 DEF Replies
  <2>5. QED
    BY <1>0, <2>4 DEF TypeOK, Replies
<1>4. OneRun'
  BY DEF OneRun, Stored
<1>5. MemoryMatches'
  BY <1>0, <1>1, StagesAre DEF MemoryMatches, TopicId, PostId, DiscussionOf, Importing
<1>6. RepliesKeepTheirPlace'
  BY DEF RepliesKeepTheirPlace, ParentOf
<1>7. QED
  BY <1>2, <1>3, <1>4, <1>5, <1>6
LEMMA VisitOnlyIInv ==
  ASSUME IInv,
         \/ \E r \in Replies : SkipReply(r) \/ LookupThrows(r) \/ SweepOrphan(r)
         \/ ReturnFromBranch \/ EndGraph
  PROVE  IInv'
<1>0. /\ DOMAIN mem = MemoryFields /\ mem.visited \subseteq Replies
      /\ faults \in 0..MaxFaults
      /\ \A x \in DOMAIN log : log[x] \in Seq(Outcomes)
  BY DEF IInv, Shapes, TypeOK
<1>1. Unvisited \subseteq Replies
  BY DEF Unvisited, RepliesOf, Replies
<1>2. ASSUME NEW r \in Replies, SkipReply(r)
      PROVE  IInv'
  <2> DEFINE skipped == SkippedBelow(r, Unvisited \ {r})
  <2>1. /\ InGraph /\ UNCHANGED <<source, db, phase, runs>>
        /\ mem' = Visit(r, skipped)
    BY <1>2 DEF SkipReply
  <2>2. \E outcome \in Outcomes : log' = Recorded(r, outcome, skipped)
    BY <1>2 DEF SkipReply, Outcomes
  <2>3. faults' \in 0..MaxFaults
    BY <1>2, FaultRange DEF SkipReply
  <2>4. skipped \subseteq Replies
    BY <1>1, SkippedIsFree
  <2>5. /\ DOMAIN mem' = MemoryFields /\ mem'.cursor = mem.cursor
        /\ mem'.topics = mem.topics /\ mem'.latest = mem.latest
        /\ mem'.visited = mem.visited \cup {r} \cup skipped
        /\ mem'.frames = mem.frames
    BY <1>0, <2>1 DEF Visit, MemoryFields
  <2>6. DOMAIN log' = DOMAIN log /\ \A x \in DOMAIN log' : log'[x] \in Seq(Outcomes)
    BY <2>2, Recording
  <2>7. QED
    BY <1>0, <2>1, <2>3, <2>4, <2>5, <2>6, GraphStep
<1>3. ASSUME NEW r \in Replies, LookupThrows(r)
      PROVE  IInv'
  <2> DEFINE skipped == SkippedBelow(Top.reply, Unvisited \ {r})
  <2>1. /\ InGraph /\ Len(mem.frames) > 1 /\ UNCHANGED <<source, db, phase, runs>>
        /\ mem' = [mem EXCEPT !.visited = @ \cup {r} \cup skipped,
                              !.frames = Callers]
        /\ log' = Recorded(Top.reply, "failed", skipped)
    BY <1>3 DEF LookupThrows
  <2>2. faults' \in 0..MaxFaults
    BY <1>3, FaultRange DEF LookupThrows
  <2>3. skipped \subseteq Replies
    BY <1>1, SkippedIsFree
  <2>4. /\ DOMAIN mem' = MemoryFields /\ mem'.cursor = mem.cursor
        /\ mem'.topics = mem.topics /\ mem'.latest = mem.latest
        /\ mem'.visited = mem.visited \cup {r} \cup skipped
        /\ mem'.frames = Callers
    BY <1>0, <2>1 DEF MemoryFields
  <2>5. DOMAIN log' = DOMAIN log /\ \A x \in DOMAIN log' : log'[x] \in Seq(Outcomes)
    BY <2>1, Recording DEF Outcomes
  <2>6. QED
    BY <1>0, <2>1, <2>2, <2>3, <2>4, <2>5, GraphStep
<1>4. ASSUME NEW r \in Replies, SweepOrphan(r)
      PROVE  IInv'
  <2> DEFINE skipped == SkippedBelow(r, Unvisited \ {r})
  <2>1. /\ InGraph /\ UNCHANGED <<source, db, phase, runs, faults>>
        /\ mem' = [mem EXCEPT !.visited = @ \cup {r} \cup skipped]
        /\ log' = Recorded(r, "skipped", skipped)
    BY <1>4 DEF SweepOrphan
  <2>2. skipped \subseteq Replies
    BY <1>1, SkippedIsFree
  <2>3. /\ DOMAIN mem' = MemoryFields /\ mem'.cursor = mem.cursor
        /\ mem'.topics = mem.topics /\ mem'.latest = mem.latest
        /\ mem'.visited = mem.visited \cup {r} \cup skipped
        /\ mem'.frames = mem.frames
    BY <1>0, <2>1 DEF MemoryFields
  <2>4. DOMAIN log' = DOMAIN log /\ \A x \in DOMAIN log' : log'[x] \in Seq(Outcomes)
    BY <2>1, Recording DEF Outcomes
  <2>5. QED
    BY <1>0, <2>1, <2>2, <2>3, <2>4, GraphStep
<1>5. ASSUME ReturnFromBranch \/ EndGraph
      PROVE  IInv'
  <2>1. /\ InGraph /\ UNCHANGED <<source, db, phase, log, runs, faults>>
        /\ \/ mem' = [mem EXCEPT !.frames = Callers] /\ Len(mem.frames) > 1
           \/ mem' = [mem EXCEPT !.frames = <<>>]
    BY <1>5 DEF ReturnFromBranch, EndGraph
  <2>2. /\ DOMAIN mem' = MemoryFields /\ mem'.cursor = mem.cursor
        /\ mem'.topics = mem.topics /\ mem'.latest = mem.latest
        /\ mem'.visited = mem.visited
        /\ \/ mem'.frames = Callers /\ Len(mem.frames) > 1
           \/ mem'.frames = <<>>
    BY <1>0, <2>1 DEF MemoryFields
  <2>3. QED
    BY <1>0, <2>1, <2>2, GraphStep
<1>6. QED
  BY <1>2, <1>3, <1>4, <1>5

LEMMA ScanDiscussionIInv ==
  ASSUME IInv, NEW d \in DOMAIN source.discussions, ScanDiscussion(d)
  PROVE  IInv'
<1> USE DEF IInv
<1>0. /\ phase = "replies" /\ d \in Nat /\ mem.cursor \in Nat /\ d > mem.cursor
      /\ UNCHANGED <<source, db, phase, runs, faults>>
  BY ReplyIds DEF ScanDiscussion, IsNext, Ahead, MemoryMatches, Shapes, Key
<1>1. /\ DOMAIN mem' = MemoryFields /\ mem'.cursor = d /\ mem'.visited = {}
      /\ mem'.topics = mem.topics /\ mem'.latest = mem.latest
      /\ mem'.frames = IF d \in mem.topics THEN <<Frame(d, Root)>> ELSE <<>>
  BY DEF ScanDiscussion, Shapes, MemoryFields
<1>2. Frame(d, Root) \in FrameSet
  <2>1. ChildrenOf(d, Root) \subseteq Key
    BY ReplyIds, ChildrenAreReplies DEF Shapes
  <2>2. QED
    BY <2>1 DEF Frame, FrameSet
<1>3. DOMAIN log \subseteq DOMAIN log' /\ \A x \in DOMAIN log' : log'[x] \in Seq(Outcomes)
  <2>1. PICK start, rows :
          /\ start = <<>> \/ start = <<"skipped">>
          /\ log' = [row \in DOMAIN log \cup rows |->
                       IF row \in rows THEN start ELSE log[row]]
    BY DEF ScanDiscussion
  <2>2. start \in Seq(Outcomes)
    <3>1. "skipped" \in Outcomes
      BY DEF Outcomes
    <3>2. <<>> \in Seq(Outcomes) /\ <<"skipped">> \in Seq(Outcomes)
      BY <3>1
    <3>3. QED
      BY <2>1, <3>2
  <2>3. \A x \in DOMAIN log : log[x] \in Seq(Outcomes)
    BY DEF TypeOK
  <2>4. QED
    BY <2>1, <2>2, <2>3
<1>4. /\ mem'.frames \in Seq(FrameSet)
      /\ mem'.frames # <<>> => /\ d \in mem.topics /\ Len(mem'.frames) = 1
                               /\ mem'.frames[1] = Frame(d, Root)
      /\ mem'.frames = <<>> => Len(mem'.frames) = 0
  BY <1>1, <1>2
<1>5. Shapes'
  BY <1>0, <1>1, <1>3, <1>4 DEF Shapes
<1>6. TypeOK'
  <2>1. \A p, x : ChildrenOf(p, x)' = ChildrenOf(p, x)
    BY <1>0 DEF ChildrenOf, RepliesOf, ParentOf
  <2>2. (\A n \in 1..Len(mem.frames) :
           /\ mem.frames[n].reply \in Replies \cup {Root}
           /\ mem.frames[n].todo = ChildrenOf(mem.cursor, mem.frames[n].reply)
           /\ IF n = 1 THEN mem.frames[n].reply = Root
                       ELSE mem.frames[n].reply \in mem.frames[n - 1].todo)'
    BY <1>1, <1>4, <2>1 DEF Frame, Replies
  <2>3. QED
    BY <1>0, <1>1, <1>3, <2>2 DEF TypeOK, Replies
<1>7. OneRun'
  BY <1>0 DEF OneRun, Stored
<1>8. MemoryMatches'
  <2>1. \A id \in DOMAIN db.posts :
           /\ DiscussionOf(id[2]) \in Nat /\ DiscussionOf(id[2]) <= mem.cursor
    BY <1>0, ReplyIds DEF MemoryMatches, TypeOK, Shapes, Key
  <2>2. \A id \in DOMAIN db.posts : DiscussionOf(id[2]) <= d /\ DiscussionOf(id[2]) # d
    BY <1>0, <2>1
  <2>3. 2..1 = {} /\ 2..0 = {}
    OBVIOUS
  <2>4. mem'.frames # <<>> => 2..Len(mem'.frames) = {}
    BY <1>4, <2>3
  <2>5. QED
    BY <1>0, <1>1, <1>4, <2>2, <2>4, StagesAre
       DEF MemoryMatches, Importing, TopicId, DiscussionOf
<1>9. RepliesKeepTheirPlace'
  BY <1>0 DEF RepliesKeepTheirPlace, ParentOf
<1>10. QED
  BY <1>5, <1>6, <1>7, <1>8, <1>9
LEMMA ImportReplyIInv ==
  ASSUME IInv, NEW r \in Replies, ImportReply(r)
  PROVE  IInv'
<1> DEFINE id == PostId(r)
           stored == {x[2] : x \in DOMAIN db.posts}
<1> USE DEF IInv
<1>0. /\ InGraph /\ r \in Pending
      /\ db' = [db EXCEPT !.posts = Put(@, id, ParentId)]
      /\ log' = Recorded(r, "imported", {})
      /\ mem' = [Visit(r, {}) EXCEPT !.frames = Append(@, Frame(mem.cursor, r))]
      /\ UNCHANGED <<source, phase, runs, faults>>
  BY DEF ImportReply
<1>1. /\ phase = "replies" /\ mem.frames \in Seq(FrameSet)
      /\ Top.reply \in Replies \cup {Root}
      /\ Top.todo = ChildrenOf(mem.cursor, Top.reply)
      /\ mem.cursor \in mem.topics /\ TopicId(mem.cursor) \in db.topics
      /\ Top.reply # Root => PostId(Top.reply) \in DOMAIN db.posts
  BY <1>0, Frames
<1>2. PICK n \in Nat : n = Len(mem.frames) /\ n >= 1 /\ mem.frames[n] = Top
  BY <1>0, Frames, LenProperties DEF Top
<1>3. /\ r \in Top.todo /\ r \notin mem.visited
      /\ ParentOf(r) = Top.reply /\ DiscussionOf(r) = mem.cursor
  BY <1>0, <1>1, ChildrenAreReplies DEF Pending
<1>4. /\ DOMAIN mem' = MemoryFields /\ mem'.cursor = mem.cursor
      /\ mem'.topics = mem.topics /\ mem'.latest = mem.latest
      /\ mem'.visited = mem.visited \cup {r}
      /\ mem'.frames = Append(mem.frames, Frame(mem.cursor, r))
  BY <1>0 DEF Shapes, Visit, MemoryFields
<1>5. /\ DOMAIN db' = TableNames /\ db'.topics = db.topics
      /\ db'.posts = Put(db.posts, id, ParentId)
  BY <1>0 DEF Shapes, TableNames
<1>6. /\ DOMAIN db'.posts = DOMAIN db.posts \cup {id}
      /\ db'.posts[id] = ParentId
      /\ \A x \in DOMAIN db.posts \ {id} : db'.posts[x] = db.posts[x]
  BY <1>5 DEF Put
<1>7. Frame(mem.cursor, r) \in FrameSet
  <2>1. ChildrenOf(mem.cursor, r) \subseteq Key /\ r \in Key
    BY ReplyIds, ChildrenAreReplies DEF Shapes
  <2>2. QED
    BY <2>1 DEF Frame, FrameSet
<1>8. /\ mem'.frames \in Seq(FrameSet) /\ Len(mem'.frames) = n + 1
      /\ \A i \in 1..n : mem'.frames[i] = mem.frames[i]
      /\ mem'.frames[n + 1] = Frame(mem.cursor, r)
      /\ mem'.frames # <<>>
  BY <1>1, <1>2, <1>4, <1>7, AppendProperties
<1>9. /\ r # Root /\ runs \in 1..MaxRuns /\ id \in (1..MaxRuns) \X Replies
      /\ id[1] = runs /\ id[2] = r
  BY <1>1, ReplyIds, StagesAre DEF Shapes, TypeOK, MemoryMatches, Importing, PostId
<1>10. r \notin stored
  BY <1>0, <1>1, <1>2, <1>3 DEF MemoryMatches, InGraph
<1>11. id \notin DOMAIN db.posts
  BY <1>9, <1>10
<1>12. DOMAIN log' = DOMAIN log /\ \A x \in DOMAIN log' : log'[x] \in Seq(Outcomes)
  BY <1>0, Recording DEF Outcomes
<1>13. Shapes'
  BY <1>0, <1>4, <1>5, <1>8, <1>12 DEF Shapes
<1>14. TypeOK'
  <2>1. \A d, p : ChildrenOf(d, p)' = ChildrenOf(d, p)
    BY <1>0 DEF ChildrenOf, RepliesOf, ParentOf
  <2>2. ASSUME NEW i \in 1..(n + 1)
        PROVE  /\ mem'.frames[i].reply \in Replies \cup {Root}
               /\ mem'.frames[i].todo = ChildrenOf(mem.cursor, mem'.frames[i].reply)
               /\ IF i = 1 THEN mem'.frames[i].reply = Root
                           ELSE mem'.frames[i].reply \in mem'.frames[i - 1].todo
    <3>1. CASE i \in 1..n
      <4>1. mem'.frames[i] = mem.frames[i]
            /\ (i # 1 => mem'.frames[i - 1] = mem.frames[i - 1])
        BY <1>8, <3>1
      <4>2. QED
        BY <1>2, <3>1, <4>1 DEF TypeOK
    <3>2. CASE i = n + 1
      <4>1. i # 1 /\ i - 1 = n /\ n \in 1..n
        BY <1>2, <3>2
      <4>2. QED
        BY <1>2, <1>3, <1>8, <3>2, <4>1 DEF Frame
    <3>3. QED
      BY <3>1, <3>2
  <2>3. (\A i \in 1..Len(mem.frames) :
           /\ mem.frames[i].reply \in Replies \cup {Root}
           /\ mem.frames[i].todo = ChildrenOf(mem.cursor, mem.frames[i].reply)
           /\ IF i = 1 THEN mem.frames[i].reply = Root
                       ELSE mem.frames[i].reply \in mem.frames[i - 1].todo)'
    BY <1>0, <1>4, <1>8, <2>1, <2>2 DEF Replies
  <2>4. QED
    BY <1>0, <1>4, <1>5, <1>6, <1>9, <1>12, <2>3 DEF TypeOK, Replies
<1>15. OneRun'
  BY <1>0, <1>1, <1>5, <1>6, <1>9, StagesAre DEF OneRun, Stored, Importing
<1>16. MemoryMatches'
  <2>1. mem.cursor \in Nat /\ DiscussionOf(id[2]) = mem.cursor
    BY <1>1, <1>3, <1>9 DEF MemoryMatches
  <2>2. ASSUME NEW i \in 2..(n + 1)
        PROVE  PostId(mem'.frames[i].reply) \in DOMAIN db'.posts
    <3>1. CASE i \in 2..n
      BY <1>0, <1>1, <1>2, <1>6, <1>8, <3>1 DEF MemoryMatches, InGraph
    <3>2. CASE i = n + 1
      BY <1>6, <1>8, <3>2 DEF Frame
    <3>3. QED
      BY <3>1, <3>2
  <2>3. \A x \in DOMAIN db'.posts :
          /\ DiscussionOf(x[2]) <= mem.cursor
          /\ DiscussionOf(x[2]) = mem.cursor => x[2] \in mem'.visited
    BY <1>0, <1>1, <1>4, <1>6, <1>9, <2>1 DEF MemoryMatches, InGraph
  <2>4. \A i \in 2..Len(mem'.frames) : PostId(mem'.frames[i].reply) \in DOMAIN db'.posts
    BY <1>8, <2>2
  <2>5. QED
    BY <1>0, <1>1, <1>4, <1>5, <1>9, <2>1, <2>3, <2>4, StagesAre
       DEF MemoryMatches, Importing, TopicId, PostId, DiscussionOf
<1>17. RepliesKeepTheirPlace'
  <2>1. ASSUME NEW x \in DOMAIN db'.posts
        PROVE  IF ParentOf(x[2]) = Root
               THEN /\ db'.posts[x] = <<x[1], DiscussionOf(x[2])>>
                    /\ db'.posts[x] \in db'.topics
               ELSE /\ db'.posts[x] = <<x[1], ParentOf(x[2])>>
                    /\ db'.posts[x] \in DOMAIN db'.posts
    <3>1. CASE x = id
      BY <1>1, <1>3, <1>5, <1>6, <1>9, <3>1 DEF ParentId, TopicId, PostId
    <3>2. CASE x # id
      BY <1>5, <1>6, <3>2 DEF RepliesKeepTheirPlace, DiscussionOf
    <3>3. QED
      BY <3>1, <3>2
  <2>2. \A q \in stored : ParentOf(q) # r
    BY <1>9, <1>10 DEF RepliesKeepTheirPlace
  <2>3. ParentOf(r) # r
    BY <1>1, <1>3, <1>9, <1>10 DEF PostId
  <2>4. ASSUME NEW S \in SUBSET (stored \cup {r}), S # {}
        PROVE  \E q \in S : ParentOf(q) \notin S
    <3>1. CASE S \ {r} = {}
      BY <2>3, <2>4, <3>1
    <3>2. CASE S \ {r} # {}
      <4>1. PICK q \in S \ {r} : ParentOf(q) \notin S \ {r}
        BY <3>2 DEF RepliesKeepTheirPlace
      <4>2. QED
        BY <2>2, <4>1
    <3>3. QED
      BY <3>1, <3>2
  <2>5. {x[2] : x \in DOMAIN db'.posts} = stored \cup {r}
    BY <1>6, <1>9
  <2>6. QED
    BY <1>0, <2>1, <2>4, <2>5 DEF RepliesKeepTheirPlace, ParentOf, DiscussionOf
<1>18. QED
  BY <1>13, <1>14, <1>15, <1>16, <1>17
-----------------------------------------------------------------------------
(* The invariant, and what it implies.                                     *)

LEMMA NextIInv == IInv /\ [Next]_vars => IInv'
<1> SUFFICES ASSUME IInv, [Next]_vars PROVE IInv'
  OBVIOUS
<1>1. CASE Start \/ PreflightFails \/ Flush \/ Abort \/ Crash \/ Wipe
  BY <1>1, ControlIInv
<1>2. CASE PreflightPasses
  BY <1>2, PreflightPassesIInv
<1>3. CASE EndStage
  BY <1>3, EndStageIInv
<1>4. CASE \E d \in DOMAIN source.discussions : ImportTopic(d)
  BY <1>4, ImportTopicIInv
<1>5. CASE ReplyStep
  <2>1. ReadDiscussions \subseteq DOMAIN source.discussions
    BY DEF ReadDiscussions
  <2>2. QED
    BY <1>5, <2>1, ScanDiscussionIInv, ImportReplyIInv, VisitOnlyIInv
       DEF ReplyStep, Replies
<1>6. CASE StateStep
  BY <1>6, ImportWatchIInv, CollectReadStateIInv, WriteReadStateIInv DEF StateStep
<1>7. CASE (\E u \in source.banned : ImportMemberBan(u))
           \/ (\E b \in DOMAIN source.rules : ImportIpBan(b))
  BY <1>7, ImportBanIInv
<1>8. CASE UNCHANGED vars
  <2>1. UNCHANGED <<source, db, phase, mem, log, runs, faults>>
    BY <1>8 DEF vars
  <2>2. Shapes' /\ OneRun' /\ MemoryMatches' /\ RepliesKeepTheirPlace'
    BY <2>1 DEF IInv, Shapes, OneRun, Stored, MemoryMatches, RepliesKeepTheirPlace,
                ParentOf, DiscussionOf, TopicId, PostId
  <2>3. TypeOK'
    BY <2>1 DEF IInv, TypeOK, Replies, ChildrenOf, RepliesOf, ParentOf
  <2>4. QED
    BY <2>2, <2>3 DEF IInv
<1>9. QED
  BY <1>1, <1>2, <1>3, <1>4, <1>5, <1>6, <1>7, <1>8 DEF Next, RunStep

LEMMA Invariance == Spec => []IInv
<1>1. Init => IInv
  BY InitIInv
<1>2. IInv /\ [Next]_vars => IInv'
  BY NextIInv
<1>3. QED
  BY <1>1, <1>2, PTL DEF Spec

\* The variables keep their shapes, and the calls of importBranch that have
\* not returned are a path down from the topic (importReplyGraph).
THEOREM TypeCorrect == Spec => []TypeOK
<1>1. IInv => TypeOK
  BY DEF IInv
<1>2. QED
  BY <1>1, Invariance, PTL

\* Whatever the replies of a source point at, and whatever fails, every reply
\* that was imported hangs where it hung in Vanilla, and its branch reaches the
\* topic (importReplyGraph, importReply).
THEOREM RepliesAreInPlace == Spec => []RepliesKeepTheirPlace
<1>1. IInv => RepliesKeepTheirPlace
  BY DEF IInv
<1>2. QED
  BY <1>1, Invariance, PTL

\* No number of crashes, failures, wipes and reruns imports a discussion or a
\* reply twice (the preflight of VanillaImportService.run).
THEOREM NoDuplicates == Spec => []NothingImportedTwice
<1>1. ASSUME IInv PROVE NothingImportedTwice
  <2>1. /\ db.topics \subseteq (1..MaxRuns) \X DOMAIN source.discussions
        /\ DOMAIN db.posts \subseteq (1..MaxRuns) \X Replies
    BY <1>1 DEF IInv, TypeOK
  <2>2. \A x, y \in Stored : x[1] = y[1]
    BY <1>1 DEF IInv, OneRun
  <2>3. QED
    BY <2>1, <2>2 DEF NothingImportedTwice, Stored
<1>2. QED
  BY <1>1, Invariance, PTL

-----------------------------------------------------------------------------
(* The report against the target: what both hold in every stage of a run.  *)

Counting == Importing \cup {"completed"}

Position == [topics |-> 1, replies |-> 2, watches |-> 3, readState |-> 4,
             memberBans |-> 5, ipBans |-> 6, flush |-> 7, completed |-> 8]

Over(stage) == Position[phase] > Position[stage]

\* The rows a stage reports, and the one whose key the query goes by.
StageRows(stage) == IF stage = "replies" THEN Replies ELSE Rows(stage)
QueryKey(stage, k) == IF stage = "replies" THEN DiscussionOf(k) ELSE k

RowsRead(stage) ==
  {k \in StageRows(stage) :
     Over(stage) \/ (phase = stage /\ QueryKey(stage, k) <= mem.cursor)}

\* The report has the rows read so far, of this stage and those before it.
RowsReported ==
  /\ mem.cursor \in Nat
  /\ \A row \in DOMAIN log :
        \E stage \in StageNames : \E k \in RowsRead(stage) : row = <<stage, k>>
  /\ \A stage \in StageNames : \A k \in RowsRead(stage) : <<stage, k>> \in DOMAIN log

Single == {<<outcome>> : outcome \in Outcomes}

\* Each row of these stages is settled as it is read.
OneOutcome(stage) ==
  \A k : <<stage, k>> \in DOMAIN log => log[<<stage, k>>] \in Single

ReportedIn(stage) == {k \in StageRows(stage) : Reported(<<stage, k>>)}

TopicsAgree ==
  /\ OneOutcome("topics")
  /\ mem.topics = ReportedIn("topics")
  /\ db.topics = {TopicId(d) : d \in mem.topics}

\* The replies of the discussion being imported are settled when visited.
Settled(r) == InGraph /\ DiscussionOf(r) = mem.cursor => r \in mem.visited

OutcomesOf(r) == log[<<"replies", r>>]

Unrecorded(r) ==
  /\ OutcomesOf(r) = <<>>
  /\ ParentOf(r) \in Replies /\ DiscussionOf(ParentOf(r)) = DiscussionOf(r)
  /\ <<"replies", ParentOf(r)>> \in DOMAIN log
  /\ OutcomesOf(ParentOf(r)) = CaughtLookup

Accounted(r) == OutcomesOf(r) \in Single \cup {CaughtLookup} \/ Unrecorded(r)

RepliesRead == {r \in Replies : <<"replies", r>> \in DOMAIN log}

\* A reply whose branch is open was visited, imported and nothing else yet.
BranchesOpen ==
  \A n \in 2..Len(mem.frames) :
    LET r == mem.frames[n].reply IN
    /\ r \in mem.visited /\ DiscussionOf(r) = mem.cursor
    /\ r \in RepliesRead /\ OutcomesOf(r) = <<"imported">>
    /\ \A m \in 2..Len(mem.frames) : mem.frames[m].reply = r => m = n

RepliesAgree ==
  /\ DOMAIN db.posts = {PostId(r) : r \in ReportedIn("replies")}
  /\ \A r \in RepliesRead : IF Settled(r) THEN Accounted(r) ELSE OutcomesOf(r) = <<>>
  /\ \A r, q \in RepliesRead :
        /\ Settled(r) /\ Settled(q)
        /\ OutcomesOf(r) = <<>> /\ OutcomesOf(q) = <<>>
        /\ ParentOf(r) = ParentOf(q)
        => r = q
  /\ InGraph => BranchesOpen

WatchesAgree ==
  /\ OneOutcome("watches")
  /\ db.watches = {StateKey(i) : i \in ReportedIn("watches")}
  /\ db.watches \subseteq mem.keys
  /\ \A i, j \in ReportedIn("watches") : StateKey(i) = StateKey(j) => i = j

\* The newest row of each topic and member waits to be written.
LatestWaits ==
  \A key \in DOMAIN mem.latest :
    LET i == mem.latest[key] IN
    /\ i \in Rows("readState") /\ StateKey(i) = key
    /\ <<"readState", i>> \in DOMAIN log /\ log[<<"readState", i>>] = <<>>
    /\ key \notin DOMAIN db.reads

WaitsOrOneOutcome ==
  \A i : <<"readState", i>> \in DOMAIN log =>
    \/ log[<<"readState", i>>] \in Single
    \/ /\ log[<<"readState", i>>] = <<>>
       /\ StateKey(i) \in DOMAIN mem.latest /\ mem.latest[StateKey(i)] = i

AllRead == Over("readState") \/ (phase = "readState" /\ Ahead("readState") = {})

\* What was written for a topic and member, or failed to be, is the newest.
NewestWritten(key) ==
  \E j \in Rows("readState") :
    /\ StateKey(j) = key
    /\ \A i \in Rows("readState") : StateKey(i) = key => ReadAt(i) <= ReadAt(j)
    /\ IF key \in DOMAIN db.reads THEN db.reads[key] = ReadAt(j)
       ELSE <<"readState", j>> \in DOMAIN log /\ log[<<"readState", j>>] = <<"failed">>

NewestKept ==
  \A i \in Rows("readState") : <<"readState", i>> \in DOMAIN log /\ ~Unusable(i) =>
    LET key == StateKey(i) IN
    IF key \in DOMAIN mem.latest THEN ReadAt(i) <= ReadAt(mem.latest[key])
                                 ELSE AllRead /\ NewestWritten(key)

ReadsAgree ==
  /\ LatestWaits /\ WaitsOrOneOutcome /\ NewestKept
  /\ ~AllRead => DOMAIN db.reads = {}
  /\ Over("readState") => DOMAIN mem.latest = {}
  /\ DOMAIN db.reads = {StateKey(i) : i \in ReportedIn("readState")}
  /\ \A i, j \in ReportedIn("readState") : StateKey(i) = StateKey(j) => i = j

BansAgree ==
  /\ OneOutcome("memberBans") /\ OneOutcome("ipBans")
  /\ db.bans = {MemberOf(u) : u \in ReportedIn("memberBans")}
  /\ \A u, v \in ReportedIn("memberBans") : MemberOf(u) = MemberOf(v) => u = v

ReportAgrees ==
  /\ phase = "preflight" => DOMAIN log = {}
  /\ phase \in Counting =>
        /\ RowsReported /\ TopicsAgree /\ RepliesAgree /\ WatchesAgree
        /\ ReadsAgree /\ BansAgree

IInvR == IInv /\ ReportAgrees

-----------------------------------------------------------------------------
(* The stages and their rows.                                              *)

LEMMA StageOrder ==
  /\ NextStage("topics") = "replies" /\ NextStage("replies") = "watches"
  /\ NextStage("watches") = "readState" /\ NextStage("readState") = "memberBans"
  /\ NextStage("memberBans") = "ipBans" /\ NextStage("ipBans") = "flush"
<1>1. ASSUME NEW n \in 1..5
      PROVE  NextStage(Stages[n]) = Stages[n + 1]
  <2>1. Stages[n] # "ipBans" /\ \A i \in 1..5 : Stages[i] = Stages[n] => i = n
    BY DEF Stages
  <2>2. (CHOOSE j \in 1..5 : Stages[j] = Stages[n]) = n
    BY <2>1
  <2>3. QED
    BY <2>1, <2>2 DEF NextStage
<1>2. NextStage("ipBans") = "flush"
  BY DEF NextStage
<1>3. QED
  BY <1>1, <1>2 DEF Stages

\* A stage that ends joins those that are over, and the next one was not begun.
LEMMA NextIsBegun ==
  ASSUME phase \in StageNames, phase' = NextStage(phase)
  PROVE  /\ \A stage \in StageNames : Over(stage)' <=> Over(stage) \/ stage = phase
         /\ ~Over(phase) /\ (phase' \in StageNames => ~Over(phase'))
         /\ phase' # phase /\ phase' \in Importing \ {"topics"}
  BY StagesAre, StageOrder DEF Over, Position, Importing

LEMMA NotOverYet ==
  ASSUME phase \in StageNames
  PROVE  ~Over(phase)
  BY StagesAre DEF Over, Position

LEMMA OverIsFixed ==
  ASSUME UNCHANGED phase
  PROVE  \A stage : Over(stage)' <=> Over(stage)
  BY DEF Over

LEMMA StageRowsFixed ==
  ASSUME UNCHANGED source
  PROVE  /\ \A stage \in StageNames : StageRows(stage)' = StageRows(stage)
         /\ Rows("readState")' = Rows("readState")
         /\ Replies' = Replies
         /\ \A stage, k : QueryKey(stage, k)' = QueryKey(stage, k)
  BY StagesAre DEF StageRows, Rows, Bookmarked, Replies, QueryKey, DiscussionOf

LEMMA StageKeys ==
  ASSUME source \in Sources
  PROVE  /\ \A stage \in StageNames : \A k \in StageRows(stage) :
               QueryKey(stage, k) \in Key
         /\ \A stage \in StageNames : IsFiniteSet(StageRows(stage))
<1>1. /\ \A keys \in {DOMAIN source.discussions, DOMAIN source.replies,
                      DOMAIN source.userDiscussions, source.banned,
                      DOMAIN source.rules} :
            keys \subseteq Key /\ IsFiniteSet(keys)
  BY SourcesAssumption
<1>2. \A r \in Replies : DiscussionOf(r) \in Key
  BY <1>1, ReplyIds
<1>3. ASSUME NEW S, NEW T, S \subseteq T, IsFiniteSet(T)
      PROVE  IsFiniteSet(S)
  BY <1>3, FS_Subset
<1>4. /\ StageRows("watches") \subseteq DOMAIN source.userDiscussions
      /\ StageRows("readState") \subseteq DOMAIN source.userDiscussions
      /\ StageRows("topics") = DOMAIN source.discussions
      /\ StageRows("replies") = DOMAIN source.replies
      /\ StageRows("memberBans") = source.banned
      /\ StageRows("ipBans") = DOMAIN source.rules
  BY DEF StageRows, Rows, Replies
<1>5. \A stage \in StageNames : IsFiniteSet(StageRows(stage))
  BY <1>1, <1>3, <1>4, StagesAre
<1>6. \A stage \in StageNames \ {"replies"} : StageRows(stage) \subseteq Key
  BY <1>1, <1>4, StagesAre
<1>7. QED
  BY <1>2, <1>5, <1>6, StagesAre DEF QueryKey, StageRows

\* All discussions are read when the topic stage is over.
LEMMA DiscussionsRead ==
  ASSUME RowsReported, Over("topics")
  PROVE  ReadDiscussions = DOMAIN source.discussions
<1>1. RowsRead("topics") = DOMAIN source.discussions
  BY DEF RowsRead, StageRows, Rows
<1>2. QED
  BY <1>1, StagesAre DEF RowsReported, ReadDiscussions

\* Reading one row more.
LEMMA NextRow ==
  ASSUME IInv, RowsReported, UNCHANGED <<source, phase>>,
         NEW stage \in StageNames \ {"replies"}, NEW k, IsNext(stage, k)
  PROVE  /\ k \in StageRows(stage) /\ <<stage, k>> \notin DOMAIN log
         /\ mem'.cursor = k /\ DOMAIN log' = DOMAIN log \cup {<<stage, k>>}
              => RowsReported'
<1>0. /\ source \in Sources /\ phase = stage /\ mem.cursor \in Nat
      /\ k \in Rows(stage) /\ StageRows(stage) = Rows(stage)
      /\ \A j \in Rows(stage) : j > mem.cursor => k <= j
      /\ k > mem.cursor /\ ~Over(stage)
  BY NotOverYet DEF IInv, Shapes, RowsReported, IsNext, Ahead, StageRows
<1>1. /\ StageRows(stage) \subseteq Nat \ {0}
      /\ \A j : QueryKey(stage, j) = j
  BY <1>0, StageKeys DEF QueryKey, Key
<1>2. k \in Nat \ {0} /\ k \in StageRows(stage)
  BY <1>0, <1>1
<1>3. k \notin RowsRead(stage)
  BY <1>0, <1>1, <1>2 DEF RowsRead
<1>4. <<stage, k>> \notin DOMAIN log
  BY <1>3 DEF RowsReported
<1>5. ASSUME mem'.cursor = k, DOMAIN log' = DOMAIN log \cup {<<stage, k>>}
      PROVE  RowsReported'
  <2>1. \A t \in StageNames \ {stage} : RowsRead(t)' = RowsRead(t)
    BY <1>0, StageRowsFixed, OverIsFixed DEF RowsRead
  <2>2. RowsRead(stage)' = RowsRead(stage) \cup {k}
    <3>1. RowsRead(stage)' = {j \in StageRows(stage) : j <= k}
      BY <1>0, <1>1, <1>5, StageRowsFixed, OverIsFixed DEF RowsRead
    <3>2. RowsRead(stage) = {j \in StageRows(stage) : j <= mem.cursor}
      BY <1>0, <1>1 DEF RowsRead
    <3>3. ASSUME NEW j \in StageRows(stage)
          PROVE  j <= k <=> (j <= mem.cursor \/ j = k)
      BY <1>0, <1>1, <1>2
    <3>4. QED
      BY <1>2, <3>1, <3>2, <3>3
  <2>3. QED
    BY <1>2, <1>5, <2>1, <2>2 DEF RowsReported
<1>6. QED
  BY <1>2, <1>4, <1>5

-----------------------------------------------------------------------------
(* What a step of another stage leaves as it was.                          *)

SameOutcomes(stage) ==
  \A k : /\ <<stage, k>> \in DOMAIN log' <=> <<stage, k>> \in DOMAIN log
         /\ <<stage, k>> \in DOMAIN log => log'[<<stage, k>>] = log[<<stage, k>>]

LEMMA SameReported ==
  ASSUME UNCHANGED source, NEW stage \in StageNames, SameOutcomes(stage)
  PROVE  /\ ReportedIn(stage)' = ReportedIn(stage)
         /\ OneOutcome(stage) => OneOutcome(stage)'
<1>1. \A k : Reported(<<stage, k>>)' <=> Reported(<<stage, k>>)
  BY DEF SameOutcomes, Reported
<1>2. ReportedIn(stage)' = ReportedIn(stage)
  BY <1>1, StageRowsFixed DEF ReportedIn
<1>3. OneOutcome(stage) => OneOutcome(stage)'
  BY DEF SameOutcomes, OneOutcome
<1>4. QED
  BY <1>2, <1>3

LEMMA SameTopics ==
  ASSUME TopicsAgree, UNCHANGED <<source, runs>>, SameOutcomes("topics"),
         mem'.topics = mem.topics, db'.topics = db.topics
  PROVE  TopicsAgree'
  BY SameReported, StagesAre DEF TopicsAgree, TopicId

LEMMA SameKeys ==
  ASSUME UNCHANGED <<source, runs>>
  PROVE  /\ \A i : StateKey(i)' = StateKey(i) /\ ReadAt(i)' = ReadAt(i)
         /\ \A u : MemberOf(u)' = MemberOf(u)
  BY DEF StateKey, ReadAt, TopicId, MemberOf

LEMMA SameWatches ==
  ASSUME WatchesAgree, UNCHANGED <<source, runs>>, SameOutcomes("watches"),
         mem'.keys = mem.keys, db'.watches = db.watches
  PROVE  WatchesAgree'
  BY SameReported, SameKeys, StagesAre DEF WatchesAgree

LEMMA SameReads ==
  ASSUME ReadsAgree, UNCHANGED <<source, runs>>, SameOutcomes("readState"),
         mem'.latest = mem.latest, db'.reads = db.reads,
         mem'.topics = mem.topics \/ ~\E i : <<"readState", i>> \in DOMAIN log,
         AllRead => AllRead',
         Over("readState")' => DOMAIN mem.latest = {}
  PROVE  ReadsAgree'
<1>0. /\ Rows("readState")' = Rows("readState")
      /\ \A i : StateKey(i)' = StateKey(i) /\ ReadAt(i)' = ReadAt(i)
      /\ \A i : /\ <<"readState", i>> \in DOMAIN log' <=> <<"readState", i>> \in DOMAIN log
                /\ <<"readState", i>> \in DOMAIN log
                      => log'[<<"readState", i>>] = log[<<"readState", i>>]
      /\ ReportedIn("readState")' = ReportedIn("readState")
  BY SameKeys, SameReported, StageRowsFixed, StagesAre DEF SameOutcomes
<1>1. LatestWaits'
  BY <1>0 DEF ReadsAgree, LatestWaits
<1>2. WaitsOrOneOutcome'
  BY <1>0 DEF ReadsAgree, WaitsOrOneOutcome
<1>3. \A key : NewestWritten(key) => NewestWritten(key)'
  BY <1>0 DEF NewestWritten
<1>4. \A i : <<"readState", i>> \in DOMAIN log => (Unusable(i)' <=> Unusable(i))
  BY SameKeys DEF Unusable
<1>5. NewestKept'
  BY <1>0, <1>3, <1>4 DEF ReadsAgree, NewestKept
<1>6. QED
  BY <1>0, <1>1, <1>2, <1>5 DEF ReadsAgree

LEMMA SameBans ==
  ASSUME BansAgree, UNCHANGED <<source, runs>>,
         SameOutcomes("memberBans"), SameOutcomes("ipBans"), db'.bans = db.bans
  PROVE  BansAgree'
  BY SameReported, SameKeys, StagesAre DEF BansAgree

\* Outside the graph of a discussion every reply read is settled.
LEMMA SameReplies ==
  ASSUME RepliesAgree, UNCHANGED <<source, runs>>, SameOutcomes("replies"),
         db'.posts = db.posts, ~InGraph, ~InGraph'
  PROVE  RepliesAgree'
<1>0. /\ RepliesRead' = RepliesRead
      /\ \A r \in RepliesRead : OutcomesOf(r)' = OutcomesOf(r)
      /\ ReportedIn("replies")' = ReportedIn("replies")
      /\ Replies' = Replies
      /\ \A r : /\ Settled(r) /\ Settled(r)' /\ ParentOf(r)' = ParentOf(r)
                /\ DiscussionOf(r)' = DiscussionOf(r) /\ PostId(r)' = PostId(r)
  BY SameReported, StagesAre
     DEF SameOutcomes, RepliesRead, OutcomesOf, Replies, Settled, ParentOf,
         DiscussionOf, PostId
<1>1. ASSUME NEW r \in RepliesRead, Accounted(r)
      PROVE  Accounted(r)'
  <2>1. CASE OutcomesOf(r) \in Single \cup {CaughtLookup}
    BY <1>0, <2>1 DEF Accounted, CaughtLookup, Single
  <2>2. CASE Unrecorded(r)
    <3>1. ParentOf(r) \in RepliesRead
      BY <2>2 DEF Unrecorded, RepliesRead
    <3>2. QED
      BY <1>0, <2>2, <3>1 DEF Accounted, Unrecorded, RepliesRead, CaughtLookup
  <2>3. QED
    BY <1>1, <2>1, <2>2 DEF Accounted
<1>2. DOMAIN db'.posts = {PostId(r) : r \in ReportedIn("replies")}'
  BY <1>0 DEF RepliesAgree
<1>3. (\A r, q \in RepliesRead :
        /\ Settled(r) /\ Settled(q)
        /\ OutcomesOf(r) = <<>> /\ OutcomesOf(q) = <<>>
        /\ ParentOf(r) = ParentOf(q)
        => r = q)'
  BY <1>0 DEF RepliesAgree
<1>4. QED
  BY <1>0, <1>1, <1>2, <1>3 DEF RepliesAgree

\* Settling a row is of its stage only.
LEMMA SettledRow ==
  ASSUME UNCHANGED source, NEW stage \in StageNames, NEW k \in StageRows(stage),
         <<stage, k>> \notin DOMAIN log,
         NEW outcome \in Outcomes, Settle(<<stage, k>>, outcome)
  PROVE  /\ DOMAIN log' = DOMAIN log \cup {<<stage, k>>}
         /\ \A t \in StageNames \ {stage} : SameOutcomes(t)
         /\ OneOutcome(stage) => OneOutcome(stage)'
         /\ ReportedIn(stage)' = IF outcome = "imported"
                                 THEN ReportedIn(stage) \cup {k}
                                 ELSE ReportedIn(stage)
         /\ k \notin ReportedIn(stage)
<1>1. /\ DOMAIN log' = DOMAIN log \cup {<<stage, k>>}
      /\ log'[<<stage, k>>] = <<outcome>>
      /\ \A row \in DOMAIN log : log'[row] = log[row]
  BY DEF Settle, Put
<1>2. \A t \in StageNames \ {stage} : SameOutcomes(t)
  BY <1>1 DEF SameOutcomes
<1>3. OneOutcome(stage) => OneOutcome(stage)'
  BY <1>1 DEF OneOutcome, Single
<1>4. Reported(<<stage, k>>)' <=> outcome = "imported"
  BY <1>1 DEF Reported
<1>5. \A j : j # k => (Reported(<<stage, j>>)' <=> Reported(<<stage, j>>))
  BY <1>1 DEF Reported
<1>6. ~Reported(<<stage, k>>)
  BY DEF Reported
<1>7. QED
  BY <1>1, <1>2, <1>3, <1>4, <1>5, <1>6, StageRowsFixed DEF ReportedIn

-----------------------------------------------------------------------------
(* A run begins, moves from stage to stage, and ends.                      *)

LEMMA CountingPhases ==
  /\ Importing \subseteq Counting /\ "preflight" \notin Counting
  /\ {"idle", "failed"} \cap Counting = {}
  /\ Counting = StageNames \cup {"flush", "completed"}
  BY StagesAre DEF Counting, Importing

LEMMA ControlReport ==
  ASSUME IInvR, Start \/ PreflightFails \/ Abort \/ Crash \/ Wipe
  PROVE  ReportAgrees'
<1>1. \/ phase' = "preflight" /\ log' = Empty
      \/ phase' \in {"idle", "failed"}
  BY DEF Start, PreflightFails, Abort, Crash, Wipe
<1>2. QED
  BY <1>1, CountingPhases DEF ReportAgrees, Empty

LEMMA PreflightPassesReport ==
  ASSUME IInvR, PreflightPasses
  PROVE  ReportAgrees'
<1>0. /\ mem' = EmptyMemory /\ db' = EmptyTarget /\ DOMAIN log' = {}
      /\ phase' = "topics" /\ source' \in Sources /\ UNCHANGED source
  BY DEF IInvR, IInv, Shapes, MemoryMatches, ReportAgrees, PreflightPasses, TargetIsEmpty
<1>1. /\ mem'.cursor = 0 /\ mem'.topics = {} /\ DOMAIN mem'.latest = {}
      /\ mem'.keys = {} /\ db'.topics = {} /\ DOMAIN db'.posts = {}
      /\ db'.watches = {} /\ DOMAIN db'.reads = {} /\ db'.bans = {}
  BY <1>0 DEF EmptyMemory, EmptyTarget, Empty
<1>2. \A stage \in StageNames : RowsRead(stage)' = {}
  <2>1. \A stage \in StageNames : ~Over(stage)'
    BY <1>0, StagesAre DEF Over, Position
  <2>2. \A stage \in StageNames : \A k \in StageRows(stage)' :
           QueryKey(stage, k)' \in Key
    BY <1>0, StageKeys, StageRowsFixed
  <2>3. QED
    BY <1>1, <2>1, <2>2 DEF RowsRead, Key
<1>3. RowsReported'
  BY <1>0, <1>1, <1>2 DEF RowsReported
<1>4. \A stage : ReportedIn(stage)' = {}
  BY <1>0 DEF ReportedIn, Reported
<1>5. TopicsAgree' /\ WatchesAgree' /\ BansAgree'
  BY <1>0, <1>1, <1>4 DEF TopicsAgree, WatchesAgree, BansAgree, OneOutcome
<1>6. RepliesAgree'
  BY <1>0, <1>1, <1>4 DEF RepliesAgree, RepliesRead, InGraph
<1>7. ~Over("readState")'
  BY <1>0 DEF Over, Position
<1>8. ReadsAgree'
  BY <1>0, <1>1, <1>4, <1>7
     DEF ReadsAgree, LatestWaits, WaitsOrOneOutcome, NewestKept
<1>9. QED
  BY <1>0, <1>3, <1>5, <1>6, <1>8 DEF ReportAgrees

\* A stage that ends has read all its rows, and the next one none.
LEMMA EndStageRows ==
  ASSUME IInvR, EndStage
  PROVE  RowsReported' /\ (AllRead => AllRead')
         /\ (Over("readState")' => DOMAIN mem.latest = {})
<1>0. /\ phase \in StageNames /\ Ahead(phase) = {} /\ phase' = NextStage(phase)
      /\ UNCHANGED <<source, log>> /\ mem'.cursor = 0 /\ mem.latest = Empty
      /\ source \in Sources
  BY DEF EndStage, IInvR, IInv, Shapes, MemoryFields
<1>1. RowsReported /\ mem.cursor \in Nat
  BY <1>0, CountingPhases DEF IInvR, ReportAgrees, RowsReported
<1>2. /\ \A stage \in StageNames : Over(stage)' <=> Over(stage) \/ stage = phase
      /\ ~Over(phase) /\ (phase' \in StageNames => ~Over(phase'))
  BY <1>0, NextIsBegun
<1>3. \A stage \in StageNames : /\ StageRows(stage)' = StageRows(stage)
                                /\ \A k : QueryKey(stage, k)' = QueryKey(stage, k)
                                /\ \A k \in StageRows(stage) : QueryKey(stage, k) \in Nat \ {0}
  BY <1>0, StageRowsFixed, StageKeys DEF Key
<1>4. \A k \in StageRows(phase) : QueryKey(phase, k) <= mem.cursor
  <2>1. \A k \in Rows(phase) : ~(k > mem.cursor)
    BY <1>0 DEF Ahead
  <2>2. CASE phase = "replies"
    <3>1. Over("topics")
      BY <2>2 DEF Over, Position
    <3>2. Rows(phase) = DOMAIN source.discussions
      BY <1>1, <2>2, <3>1, DiscussionsRead DEF Rows
    <3>3. \A k \in StageRows(phase) : QueryKey(phase, k) \in Rows(phase)
      BY <1>0, <2>2, <3>2, ReplyIds DEF StageRows, QueryKey
    <3>4. QED
      BY <1>0, <1>1, <1>3, <2>1, <3>3
  <2>3. CASE phase # "replies"
    BY <1>0, <1>1, <1>3, <2>1, <2>3 DEF StageRows, QueryKey
  <2>4. QED
    BY <2>2, <2>3
<1>5. ASSUME NEW stage \in StageNames
      PROVE  RowsRead(stage)' = RowsRead(stage)
  <2>1. CASE stage = phase
    <3>1. RowsRead(stage)' = StageRows(stage)
      BY <1>2, <1>3, <2>1 DEF RowsRead
    <3>2. RowsRead(stage) = StageRows(stage)
      BY <1>4, <2>1 DEF RowsRead
    <3>3. QED
      BY <3>1, <3>2
  <2>2. CASE stage # phase /\ stage = phase'
    <3>1. RowsRead(stage)' = {}
      BY <1>0, <1>2, <1>3, <2>2 DEF RowsRead
    <3>2. RowsRead(stage) = {}
      BY <1>2, <2>2 DEF RowsRead
    <3>3. QED
      BY <3>1, <3>2
  <2>3. CASE stage # phase /\ stage # phase'
    BY <1>2, <1>3, <2>3 DEF RowsRead
  <2>4. QED
    BY <2>1, <2>2, <2>3
<1>6. RowsReported'
  BY <1>0, <1>1, <1>5 DEF RowsReported
<1>7. AllRead => AllRead'
  BY <1>2, StagesAre DEF AllRead
<1>8. QED
  BY <1>0, <1>6, <1>7 DEF Empty

LEMMA EndStageReport ==
  ASSUME IInvR, EndStage
  PROVE  ReportAgrees'
<1>0. /\ phase \in StageNames /\ mem.frames = <<>> /\ phase' = NextStage(phase)
      /\ UNCHANGED <<source, db, log, runs>>
      /\ mem'.topics = mem.topics /\ mem'.latest = mem.latest
      /\ mem'.keys = mem.keys /\ mem'.frames = <<>>
  BY DEF EndStage, IInvR, IInv, Shapes, MemoryFields
<1>1. ~InGraph /\ ~InGraph'
  BY <1>0 DEF InGraph
<1>2. /\ TopicsAgree /\ RepliesAgree /\ WatchesAgree /\ ReadsAgree /\ BansAgree
  BY <1>0, CountingPhases DEF IInvR, ReportAgrees
<1>3. \A stage : SameOutcomes(stage)
  BY <1>0 DEF SameOutcomes
<1>4. phase' # "preflight"
  BY <1>0, NextIsBegun, StagesAre DEF Importing
<1>5. RowsReported' /\ (AllRead => AllRead')
      /\ (Over("readState")' => DOMAIN mem.latest = {})
  BY EndStageRows
<1>6. QED
  BY <1>0, <1>1, <1>2, <1>3, <1>4, <1>5,
     SameTopics, SameReplies, SameWatches, SameReads, SameBans DEF ReportAgrees

LEMMA FlushReport ==
  ASSUME IInvR, Flush
  PROVE  ReportAgrees'
<1>1. CASE phase' = "failed"
  BY <1>1, CountingPhases DEF ReportAgrees
<1>2. CASE phase' = "completed"
  <2>0. phase = "flush" /\ UNCHANGED <<source, db, mem, log, runs>>
    BY DEF Flush
  <2>1. \A stage \in StageNames : Over(stage) /\ Over(stage)'
    BY <1>2, <2>0, StagesAre DEF Over, Position
  <2>2. ~InGraph /\ ~InGraph'
    BY <1>2, <2>0 DEF InGraph
  <2>3. /\ RowsReported /\ TopicsAgree /\ RepliesAgree /\ WatchesAgree
        /\ ReadsAgree /\ BansAgree
    BY <2>0, CountingPhases DEF IInvR, ReportAgrees
  <2>4. RowsReported'
    BY <2>0, <2>1, <2>3, StageRowsFixed DEF RowsReported, RowsRead
  <2>5. \A stage : SameOutcomes(stage)
    BY <2>0 DEF SameOutcomes
  <2>6. AllRead' /\ DOMAIN mem.latest = {}
    BY <2>1, <2>3, StagesAre DEF AllRead, ReadsAgree
  <2>7. QED
    BY <1>2, <2>0, <2>2, <2>3, <2>4, <2>5, <2>6,
       SameTopics, SameReplies, SameWatches, SameReads, SameBans DEF ReportAgrees
<1>3. QED
  BY <1>1, <1>2 DEF Flush

-----------------------------------------------------------------------------
(* Stages that settle each row as they read it.                            *)

LEMMA InStage ==
  ASSUME IInvR, phase \in StageNames
  PROVE  /\ RowsReported /\ TopicsAgree /\ RepliesAgree /\ WatchesAgree
         /\ ReadsAgree /\ BansAgree
         /\ source \in Sources /\ DOMAIN mem = MemoryFields /\ DOMAIN db = TableNames
         /\ phase # "replies" => ~InGraph
  BY CountingPhases DEF IInvR, ReportAgrees, IInv, Shapes, InGraph

\* The read states have all been read, or not, as before a step of another stage.
LEMMA SameAllRead ==
  ASSUME ReadsAgree, UNCHANGED phase, phase # "readState"
  PROVE  /\ AllRead => AllRead'
         /\ Over("readState")' => DOMAIN mem.latest = {}
  BY OverIsFixed DEF AllRead, ReadsAgree

LEMMA ImportTopicReport ==
  ASSUME IInvR, NEW d \in DOMAIN source.discussions, ImportTopic(d)
  PROVE  ReportAgrees'
<1> DEFINE row == <<"topics", d>>
<1>0. /\ phase = "topics" /\ IsNext("topics", d) /\ UNCHANGED <<source, phase, runs>>
      /\ phase \in StageNames
  BY StagesAre DEF ImportTopic, IsNext
<1>1. /\ RowsReported /\ TopicsAgree /\ RepliesAgree /\ WatchesAgree
      /\ ReadsAgree /\ BansAgree
      /\ DOMAIN mem = MemoryFields /\ DOMAIN db = TableNames
      /\ ~InGraph /\ ~InGraph'
  BY <1>0, InStage DEF InGraph
<1>2. PICK outcome \in Outcomes :
         /\ Settle(row, outcome)
         /\ mem'.cursor = d /\ mem'.latest = mem.latest /\ mem'.keys = mem.keys
         /\ db'.posts = db.posts /\ db'.watches = db.watches
         /\ db'.reads = db.reads /\ db'.bans = db.bans
         /\ IF outcome = "imported"
            THEN /\ mem'.topics = mem.topics \cup {d}
                 /\ db'.topics = db.topics \cup {TopicId(d)}
            ELSE mem'.topics = mem.topics /\ db'.topics = db.topics
  <2>1. PICK S : \/ SkippedRow(row) /\ mem' = Pass(d, S)
                 \/ WriteFails(row) /\ mem' = Pass(d, S)
                 \/ /\ Imported(row, [db EXCEPT !.topics = @ \cup {TopicId(d)}])
                    /\ mem' = [Pass(d, S) EXCEPT !.topics = @ \cup {d}]
    BY DEF ImportTopic
  <2>2. /\ Pass(d, S).cursor = d /\ Pass(d, S).latest = mem.latest
        /\ Pass(d, S).keys = mem.keys /\ Pass(d, S).topics = mem.topics
        /\ DOMAIN Pass(d, S) = MemoryFields
    BY <1>1 DEF Pass, MemoryFields
  <2>3. CASE SkippedRow(row) /\ mem' = Pass(d, S)
    BY <2>2, <2>3 DEF SkippedRow, Outcomes
  <2>4. CASE WriteFails(row) /\ mem' = Pass(d, S)
    BY <2>2, <2>4 DEF WriteFails, Outcomes
  <2>5. CASE /\ Imported(row, [db EXCEPT !.topics = @ \cup {TopicId(d)}])
             /\ mem' = [Pass(d, S) EXCEPT !.topics = @ \cup {d}]
    BY <1>1, <2>2, <2>5 DEF Imported, Outcomes, TableNames, MemoryFields
  <2>6. QED
    BY <2>1, <2>3, <2>4, <2>5
<1>3. d \in StageRows("topics") /\ row \notin DOMAIN log
  BY <1>0, <1>1, NextRow DEF IInvR
<1>4. /\ DOMAIN log' = DOMAIN log \cup {row}
      /\ \A t \in StageNames \ {"topics"} : SameOutcomes(t)
      /\ OneOutcome("topics") => OneOutcome("topics")'
      /\ ReportedIn("topics")' = IF outcome = "imported"
                                 THEN ReportedIn("topics") \cup {d}
                                 ELSE ReportedIn("topics")
  BY <1>0, <1>2, <1>3, SettledRow
<1>5. RowsReported'
  BY <1>0, <1>1, <1>2, <1>4, NextRow DEF IInvR
<1>6. TopicsAgree'
  BY <1>0, <1>1, <1>2, <1>4 DEF TopicsAgree, TopicId
<1>7. ~\E i : <<"readState", i>> \in DOMAIN log
  <2>1. RowsRead("readState") = {}
    BY <1>0 DEF RowsRead, Over, Position
  <2>2. QED
    BY <1>1, <2>1 DEF RowsReported
<1>8. ReadsAgree'
  BY <1>0, <1>1, <1>2, <1>4, <1>7, SameReads, SameAllRead, StagesAre
<1>9. RepliesAgree' /\ WatchesAgree' /\ BansAgree'
  BY <1>0, <1>1, <1>2, <1>4, SameReplies, SameWatches, SameBans, StagesAre
<1>10. QED
  BY <1>0, <1>5, <1>6, <1>8, <1>9 DEF ReportAgrees

LEMMA ImportWatchReport ==
  ASSUME IInvR, NEW i, ImportWatch(i)
  PROVE  ReportAgrees'
<1> DEFINE row == <<"watches", i>>
           key == StateKey(i)
<1>0. /\ phase = "watches" /\ IsNext("watches", i) /\ UNCHANGED <<source, phase, runs>>
      /\ phase \in StageNames
  BY StagesAre DEF ImportWatch, IsNext
<1>1. /\ RowsReported /\ TopicsAgree /\ RepliesAgree /\ WatchesAgree
      /\ ReadsAgree /\ BansAgree
      /\ DOMAIN mem = MemoryFields /\ DOMAIN db = TableNames
      /\ ~InGraph /\ ~InGraph'
  BY <1>0, InStage DEF InGraph
<1>2. PICK outcome \in Outcomes :
         /\ Settle(row, outcome)
         /\ mem'.cursor = i /\ mem'.latest = mem.latest /\ mem'.topics = mem.topics
         /\ db'.posts = db.posts /\ db'.topics = db.topics
         /\ db'.reads = db.reads /\ db'.bans = db.bans
         /\ IF outcome = "imported"
            THEN /\ key \notin mem.keys /\ mem'.keys = mem.keys \cup {key}
                 /\ db'.watches = db.watches \cup {key}
            ELSE mem.keys \subseteq mem'.keys /\ db'.watches = db.watches
  <2>1. LET m == Pass(i, MappedBy(i)) IN
        /\ m.cursor = i /\ m.latest = mem.latest /\ m.keys = mem.keys
        /\ m.topics = mem.topics /\ DOMAIN m = MemoryFields
    BY <1>1 DEF Pass, MemoryFields
  <2>2. LET m == [Pass(i, MappedBy(i)) EXCEPT !.keys = @ \cup {key}] IN
        /\ m.cursor = i /\ m.latest = mem.latest /\ m.keys = mem.keys \cup {key}
        /\ m.topics = mem.topics
    BY <2>1 DEF MemoryFields
  <2>3. CASE SkippedRow(row) /\ mem' = Pass(i, MappedBy(i))
    BY <2>1, <2>3 DEF SkippedRow, Outcomes
  <2>4. CASE /\ WriteFails(row)
             /\ mem' = [Pass(i, MappedBy(i)) EXCEPT !.keys = @ \cup {key}]
    BY <2>2, <2>4 DEF WriteFails, Outcomes
  <2>5. CASE /\ Imported(row, [db EXCEPT !.watches = @ \cup {key}])
             /\ mem' = [Pass(i, MappedBy(i)) EXCEPT !.keys = @ \cup {key}]
             /\ key \notin mem.keys
    BY <1>1, <2>2, <2>5 DEF Imported, Outcomes, TableNames
  <2>6. QED
    BY <2>3, <2>4, <2>5 DEF ImportWatch
<1>3. i \in StageRows("watches") /\ row \notin DOMAIN log
  BY <1>0, <1>1, NextRow DEF IInvR
<1>4. /\ DOMAIN log' = DOMAIN log \cup {row}
      /\ \A t \in StageNames \ {"watches"} : SameOutcomes(t)
      /\ OneOutcome("watches") => OneOutcome("watches")'
      /\ ReportedIn("watches")' = IF outcome = "imported"
                                  THEN ReportedIn("watches") \cup {i}
                                  ELSE ReportedIn("watches")
  BY <1>0, <1>2, <1>3, SettledRow
<1>5. RowsReported'
  BY <1>0, <1>1, <1>2, <1>4, NextRow DEF IInvR
<1>6. WatchesAgree'
  <2>1. \A j : StateKey(j)' = StateKey(j)
    BY <1>0, SameKeys
  <2>2. \A j \in ReportedIn("watches") : StateKey(j) \in mem.keys
    BY <1>1 DEF WatchesAgree
  <2>3. CASE outcome = "imported"
    BY <1>1, <1>2, <1>4, <2>1, <2>2, <2>3 DEF WatchesAgree
  <2>4. CASE outcome # "imported"
    BY <1>1, <1>2, <1>4, <2>1, <2>4 DEF WatchesAgree
  <2>5. QED
    BY <2>3, <2>4
<1>7. ReadsAgree'
  BY <1>0, <1>1, <1>2, <1>4, SameReads, SameAllRead, StagesAre
<1>8. TopicsAgree' /\ RepliesAgree' /\ BansAgree'
  BY <1>0, <1>1, <1>2, <1>4, SameTopics, SameReplies, SameBans, StagesAre
<1>9. QED
  BY <1>0, <1>5, <1>6, <1>7, <1>8 DEF ReportAgrees

LEMMA ImportBanReport ==
  ASSUME IInvR, NEW stage \in {"memberBans", "ipBans"}, NEW k,
         IF stage = "memberBans" THEN ImportMemberBan(k) ELSE ImportIpBan(k)
  PROVE  ReportAgrees'
<1> DEFINE row == <<stage, k>>
<1>0. /\ phase = stage /\ IsNext(stage, k) /\ UNCHANGED <<source, phase, runs>>
      /\ stage \in StageNames \ {"topics", "replies", "watches", "readState"}
  BY StagesAre DEF ImportMemberBan, ImportIpBan, IsNext
<1>1. /\ RowsReported /\ TopicsAgree /\ RepliesAgree /\ WatchesAgree
      /\ ReadsAgree /\ BansAgree
      /\ DOMAIN mem = MemoryFields /\ DOMAIN db = TableNames
      /\ ~InGraph /\ ~InGraph'
  BY <1>0, InStage DEF InGraph
<1>2. PICK outcome \in Outcomes :
         /\ Settle(row, outcome)
         /\ db'.posts = db.posts /\ db'.topics = db.topics
         /\ db'.reads = db.reads /\ db'.watches = db.watches
         /\ IF outcome = "imported" /\ stage = "memberBans"
            THEN /\ MemberOf(k) \notin db.bans
                 /\ db'.bans = db.bans \cup {MemberOf(k)}
            ELSE db'.bans = db.bans
  <2>1. CASE stage = "memberBans"
    <3>1. \/ SkippedRow(row) \/ WriteFails(row)
          \/ NoFault /\ Settle(row, "failed") /\ UNCHANGED db
          \/ /\ Imported(row, [db EXCEPT !.bans = @ \cup {MemberOf(k)}])
             /\ MemberOf(k) \notin db.bans
      BY <2>1 DEF ImportMemberBan
    <3>2. CASE SkippedRow(row)
      BY <3>2 DEF SkippedRow, Outcomes
    <3>3. CASE WriteFails(row) \/ (Settle(row, "failed") /\ UNCHANGED db)
      BY <3>3 DEF WriteFails, Outcomes
    <3>4. CASE /\ Imported(row, [db EXCEPT !.bans = @ \cup {MemberOf(k)}])
               /\ MemberOf(k) \notin db.bans
      BY <1>1, <2>1, <3>4 DEF Imported, Outcomes, TableNames
    <3>5. QED
      BY <3>1, <3>2, <3>3, <3>4
  <2>2. CASE stage = "ipBans"
    <3>1. \/ SkippedRow(row) \/ WriteFails(row)
          \/ NoFault /\ Settle(row, "failed") /\ UNCHANGED db
          \/ \E address : Imported(row, [db EXCEPT !.addresses = @ \cup {address}])
      BY <2>2 DEF ImportIpBan
    <3>2. CASE SkippedRow(row)
      BY <3>2, <2>2 DEF SkippedRow, Outcomes
    <3>3. CASE WriteFails(row) \/ (Settle(row, "failed") /\ UNCHANGED db)
      BY <3>3, <2>2 DEF WriteFails, Outcomes
    <3>4. CASE \E address : Imported(row, [db EXCEPT !.addresses = @ \cup {address}])
      BY <1>1, <2>2, <3>4 DEF Imported, Outcomes, TableNames
    <3>5. QED
      BY <3>1, <3>2, <3>3, <3>4
  <2>3. QED
    BY <2>1, <2>2
<1>3. /\ mem'.cursor = k /\ mem'.latest = mem.latest /\ mem'.topics = mem.topics
      /\ mem'.keys = mem.keys
  <2>1. PICK S : mem' = Pass(k, S)
    BY DEF ImportMemberBan, ImportIpBan
  <2>2. QED
    BY <1>1, <2>1 DEF Pass, MemoryFields
<1>4. k \in StageRows(stage) /\ row \notin DOMAIN log
  BY <1>0, <1>1, NextRow DEF IInvR
<1>5. /\ DOMAIN log' = DOMAIN log \cup {row}
      /\ \A t \in StageNames \ {stage} : SameOutcomes(t)
      /\ OneOutcome(stage) => OneOutcome(stage)'
      /\ ReportedIn(stage)' = IF outcome = "imported"
                              THEN ReportedIn(stage) \cup {k}
                              ELSE ReportedIn(stage)
  BY <1>0, <1>2, <1>4, SettledRow
<1>6. RowsReported'
  BY <1>0, <1>1, <1>3, <1>5, NextRow DEF IInvR
<1>7. BansAgree'
  <2>1. \A u : MemberOf(u)' = MemberOf(u)
    BY <1>0, SameKeys
  <2>2. \A t \in StageNames \ {stage} :
           /\ ReportedIn(t)' = ReportedIn(t)
           /\ OneOutcome(t) => OneOutcome(t)'
    BY <1>0, <1>5, SameReported
  <2>3. OneOutcome("memberBans")' /\ OneOutcome("ipBans")'
    BY <1>0, <1>1, <1>5, <2>2, StagesAre DEF BansAgree
  <2>4. CASE stage = "memberBans" /\ outcome = "imported"
    <3>1. \A v \in ReportedIn("memberBans") : MemberOf(v) # MemberOf(k)
      BY <1>1, <1>2, <2>4 DEF BansAgree
    <3>2. QED
      BY <1>1, <1>2, <1>5, <2>1, <2>3, <2>4, <3>1 DEF BansAgree
  <2>5. CASE ~(stage = "memberBans" /\ outcome = "imported")
    <3>1. ReportedIn("memberBans")' = ReportedIn("memberBans")
      BY <1>5, <2>2, <2>5, StagesAre
    <3>2. QED
      BY <1>1, <1>2, <2>1, <2>3, <2>5, <3>1 DEF BansAgree
  <2>6. QED
    BY <2>4, <2>5
<1>8. ReadsAgree'
  BY <1>0, <1>1, <1>2, <1>3, <1>5, SameReads, SameAllRead, StagesAre
<1>9. TopicsAgree' /\ RepliesAgree' /\ WatchesAgree'
  BY <1>0, <1>1, <1>2, <1>3, <1>5, SameTopics, SameReplies, SameWatches, StagesAre
<1>10. QED
  BY <1>0, <1>6, <1>7, <1>8, <1>9 DEF ReportAgrees

-----------------------------------------------------------------------------
(* Read states are collected and then written.                             *)

LEMMA ReadTimes ==
  ASSUME source \in Sources
  PROVE  \A i \in Rows("readState") : ReadAt(i) \in Nat
  BY SourcesAssumption DEF Rows, ReadAt

\* The users of one member agree on what is usable.
LEMMA SameKeySameUse ==
  ASSUME NEW i, NEW j, StateKey(i) = StateKey(j)
  PROVE  Unusable(i) <=> Unusable(j)
  BY DEF StateKey, TopicId, Unusable

\* Before all rows are read nothing is written.
LEMMA NothingWrittenYet ==
  ASSUME IInvR, phase = "readState", Ahead("readState") # {}
  PROVE  /\ ~AllRead /\ DOMAIN db.reads = {} /\ ~Over("readState")
         /\ ReportedIn("readState") = {}
         /\ \A j \in Rows("readState") :
               <<"readState", j>> \in DOMAIN log /\ ~Unusable(j) =>
                  /\ StateKey(j) \in DOMAIN mem.latest
                  /\ ReadAt(j) <= ReadAt(mem.latest[StateKey(j)])
<1>1. ReadsAgree /\ ~Over("readState")
  BY InStage, NotOverYet, StagesAre
<1>2. ~AllRead
  BY <1>1 DEF AllRead
<1>3. QED
  BY <1>1, <1>2 DEF ReadsAgree, NewestKept

LEMMA CollectSkipped ==
  ASSUME IInvR, NEW i, CollectReadState(i),
         Unusable(i) \/ IsSuperseded(i),
         Settle(<<"readState", i>>, "skipped"), mem' = Pass(i, MappedBy(i))
  PROVE  ReadsAgree' /\ RowsReported' /\ \A t \in StageNames \ {"readState"} : SameOutcomes(t)
<1>0. /\ phase = "readState" /\ IsNext("readState", i) /\ Ahead("readState") # {}
      /\ UNCHANGED <<source, db, phase, runs>> /\ phase \in StageNames
      /\ phase \in StageNames \ {"replies"}
  BY StagesAre DEF CollectReadState, IsNext
<1>1. /\ RowsReported /\ ReadsAgree /\ DOMAIN mem = MemoryFields
      /\ LatestWaits /\ WaitsOrOneOutcome
  BY <1>0, InStage DEF ReadsAgree
<1>2. mem'.cursor = i /\ mem'.latest = mem.latest /\ mem'.topics = mem.topics
  BY <1>1 DEF Pass, MemoryFields
<1>3. /\ i \in StageRows("readState") /\ <<"readState", i>> \notin DOMAIN log
      /\ i \in Rows("readState")
  BY <1>0, <1>1, NextRow DEF IInvR, StageRows
<1>4. /\ DOMAIN log' = DOMAIN log \cup {<<"readState", i>>}
      /\ \A t \in StageNames \ {"readState"} : SameOutcomes(t)
      /\ ReportedIn("readState")' = ReportedIn("readState")
  BY <1>0, <1>3, SettledRow DEF Outcomes
<1>5. /\ log'[<<"readState", i>>] = <<"skipped">>
      /\ \A row \in DOMAIN log : log'[row] = log[row]
  BY <1>3 DEF Settle, Put
<1>6. RowsReported'
  BY <1>0, <1>1, <1>2, <1>4, NextRow DEF IInvR
<1>7. /\ \A j : StateKey(j)' = StateKey(j) /\ ReadAt(j)' = ReadAt(j)
      /\ \A j : Unusable(j)' <=> Unusable(j)
      /\ Rows("readState")' = Rows("readState")
      /\ Over("readState")' <=> Over("readState")
  BY <1>0, <1>2, SameKeys, StageRowsFixed, OverIsFixed DEF Unusable
<1>8. LatestWaits'
  BY <1>0, <1>1, <1>2, <1>4, <1>5, <1>7 DEF LatestWaits
<1>9. WaitsOrOneOutcome'
  <2>1. <<"skipped">> \in Single
    BY DEF Single, Outcomes
  <2>2. QED
    BY <1>1, <1>2, <1>4, <1>5, <1>7, <2>1 DEF WaitsOrOneOutcome, Single
<1>10. NewestKept'
  <2>1. ~Unusable(i) => /\ StateKey(i) \in DOMAIN mem.latest
                        /\ ReadAt(i) <= ReadAt(mem.latest[StateKey(i)])
    <3>1. ASSUME ~Unusable(i)
          PROVE  /\ StateKey(i) \in DOMAIN mem.latest
                 /\ ReadAt(mem.latest[StateKey(i)]) >= ReadAt(i)
      BY <3>1 DEF IsSuperseded
    <3>2. QED
      BY <3>1
  <2>2. \A j \in Rows("readState") : <<"readState", j>> \in DOMAIN log' /\ ~Unusable(j) =>
           /\ StateKey(j) \in DOMAIN mem.latest
           /\ ReadAt(j) <= ReadAt(mem.latest[StateKey(j)])
    BY <1>0, <1>4, <2>1, NothingWrittenYet
  <2>3. QED
    BY <1>2, <1>7, <2>2 DEF NewestKept
<1>11. ReadsAgree'
  BY <1>0, <1>1, <1>2, <1>4, <1>7, <1>8, <1>9, <1>10, NothingWrittenYet DEF ReadsAgree
<1>12. QED
  BY <1>4, <1>6, <1>11

LEMMA CollectTaken ==
  ASSUME IInvR, NEW i, CollectReadState(i),
         ~Unusable(i), ~IsSuperseded(i),
         log' = Put(IF StateKey(i) \in DOMAIN mem.latest
                    THEN WithOutcome(<<"readState", mem.latest[StateKey(i)]>>,
                                     "skipped", log)
                    ELSE log,
                    <<"readState", i>>, <<>>),
         mem' = [Pass(i, MappedBy(i)) EXCEPT !.latest = Put(@, StateKey(i), i)]
  PROVE  ReadsAgree' /\ RowsReported' /\ \A t \in StageNames \ {"readState"} : SameOutcomes(t)
<1> DEFINE row == <<"readState", i>>
           key == StateKey(i)
           last == <<"readState", mem.latest[key]>>
<1>0. /\ phase = "readState" /\ IsNext("readState", i) /\ Ahead("readState") # {}
      /\ UNCHANGED <<source, db, phase, runs>> /\ phase \in StageNames
      /\ phase \in StageNames \ {"replies"}
  BY StagesAre DEF CollectReadState, IsNext
<1>1. /\ RowsReported /\ ReadsAgree /\ DOMAIN mem = MemoryFields /\ source \in Sources
      /\ LatestWaits /\ WaitsOrOneOutcome
  BY <1>0, InStage DEF ReadsAgree
<1>2. /\ mem'.cursor = i /\ mem'.latest = Put(mem.latest, key, i)
      /\ mem'.topics = mem.topics
  BY <1>1 DEF Pass, MemoryFields
<1>3. /\ DOMAIN mem'.latest = DOMAIN mem.latest \cup {key} /\ mem'.latest[key] = i
      /\ \A k \in DOMAIN mem.latest \ {key} : mem'.latest[k] = mem.latest[k]
  BY <1>2 DEF Put
<1>4. /\ i \in StageRows("readState") /\ row \notin DOMAIN log
      /\ i \in Rows("readState")
  BY <1>0, <1>1, NextRow DEF IInvR, StageRows
<1>5. key \in DOMAIN mem.latest => /\ last \in DOMAIN log /\ log[last] = <<>>
                                   /\ mem.latest[key] \in Rows("readState")
  BY <1>1 DEF LatestWaits
<1>6. /\ DOMAIN log' = DOMAIN log \cup {row} /\ log'[row] = <<>>
      /\ key \in DOMAIN mem.latest => log'[last] = <<"skipped">>
      /\ \A x \in DOMAIN log :
            ~(key \in DOMAIN mem.latest /\ x = last) => log'[x] = log[x]
  <2>1. CASE key \in DOMAIN mem.latest
    <3>1. Append(<<>>, "skipped") = <<"skipped">>
      OBVIOUS
    <3>2. WithOutcome(last, "skipped", log) =
             [x \in DOMAIN log |-> IF x = last THEN <<"skipped">> ELSE log[x]]
      BY <1>5, <2>1, <3>1 DEF WithOutcome, Put
    <3>3. QED
      BY <1>4, <1>5, <2>1, <3>2 DEF Put
  <2>2. CASE key \notin DOMAIN mem.latest
    BY <1>4, <2>2 DEF Put
  <2>3. QED
    BY <2>1, <2>2
<1>7. \A t \in StageNames \ {"readState"} : SameOutcomes(t)
  BY <1>6 DEF SameOutcomes
<1>8. RowsReported'
  BY <1>0, <1>1, <1>2, <1>6, NextRow DEF IInvR
<1>9. /\ \A j : StateKey(j)' = StateKey(j) /\ ReadAt(j)' = ReadAt(j)
      /\ \A j : Unusable(j)' <=> Unusable(j)
      /\ Rows("readState")' = Rows("readState")
      /\ Over("readState")' <=> Over("readState")
  BY <1>0, <1>2, SameKeys, StageRowsFixed, OverIsFixed DEF Unusable
<1>10. LatestWaits'
  <2>1. ASSUME NEW k \in DOMAIN mem.latest \ {key}
        PROVE  /\ mem.latest[k] \in Rows("readState") /\ StateKey(mem.latest[k]) = k
               /\ <<"readState", mem.latest[k]>> \in DOMAIN log'
               /\ log'[<<"readState", mem.latest[k]>>] = <<>>
    <3>1. /\ mem.latest[k] \in Rows("readState") /\ StateKey(mem.latest[k]) = k
          /\ <<"readState", mem.latest[k]>> \in DOMAIN log
          /\ log[<<"readState", mem.latest[k]>>] = <<>>
      BY <1>1 DEF LatestWaits
    <3>2. key \in DOMAIN mem.latest => StateKey(mem.latest[key]) = key
      BY <1>1 DEF LatestWaits
    <3>3. QED
      BY <1>6, <3>1, <3>2
  <2>2. DOMAIN db'.reads = {}
    BY <1>0, NothingWrittenYet
  <2>3. QED
    BY <1>3, <1>4, <1>6, <1>9, <2>1, <2>2 DEF LatestWaits
<1>11. WaitsOrOneOutcome'
  <2>1. <<"skipped">> \in Single
    BY DEF Single, Outcomes
  <2>2. ASSUME NEW j, <<"readState", j>> \in DOMAIN log'
        PROVE  \/ log'[<<"readState", j>>] \in Single
               \/ /\ log'[<<"readState", j>>] = <<>>
                  /\ StateKey(j) \in DOMAIN mem'.latest /\ mem'.latest[StateKey(j)] = j
    <3>1. CASE j = i
      BY <1>3, <1>6, <3>1
    <3>2. CASE key \in DOMAIN mem.latest /\ <<"readState", j>> = last
      BY <1>6, <2>1, <3>2
    <3>3. CASE j # i /\ ~(key \in DOMAIN mem.latest /\ <<"readState", j>> = last)
      <4>1. /\ <<"readState", j>> \in DOMAIN log
            /\ log'[<<"readState", j>>] = log[<<"readState", j>>]
        BY <1>6, <2>2, <3>3
      <4>2. \/ log[<<"readState", j>>] \in Single
            \/ /\ log[<<"readState", j>>] = <<>>
               /\ StateKey(j) \in DOMAIN mem.latest /\ mem.latest[StateKey(j)] = j
        BY <1>1, <4>1 DEF WaitsOrOneOutcome
      <4>3. QED
        BY <1>3, <3>3, <4>1, <4>2
    <3>4. QED
      BY <3>1, <3>2, <3>3
  <2>3. QED
    BY <1>9, <2>2 DEF WaitsOrOneOutcome, Single
<1>12. NewestKept'
  <2>1. key \in DOMAIN mem.latest => /\ ReadAt(mem.latest[key]) <= ReadAt(i)
                                     /\ ReadAt(mem.latest[key]) \in Nat
    <3>1. ReadAt(i) \in Nat
      BY <1>1, <1>4, ReadTimes
    <3>2. ASSUME key \in DOMAIN mem.latest PROVE ReadAt(mem.latest[key]) \in Nat
      BY <1>1, <1>5, <3>2, ReadTimes
    <3>3. ASSUME key \in DOMAIN mem.latest PROVE ~(ReadAt(mem.latest[key]) >= ReadAt(i))
      BY <3>3 DEF IsSuperseded
    <3>4. QED
      BY <3>1, <3>2, <3>3
  <2>2. ASSUME NEW j \in Rows("readState"), <<"readState", j>> \in DOMAIN log', ~Unusable(j)
        PROVE  /\ StateKey(j) \in DOMAIN mem'.latest
               /\ ReadAt(j) <= ReadAt(mem'.latest[StateKey(j)])
    <3>0. ReadAt(i) \in Nat /\ ReadAt(j) \in Nat
      BY <1>1, <1>4, ReadTimes
    <3>1. CASE j = i
      BY <1>3, <3>0, <3>1
    <3>2. CASE j # i
      <4>1. /\ StateKey(j) \in DOMAIN mem.latest
            /\ ReadAt(j) <= ReadAt(mem.latest[StateKey(j)])
        BY <1>0, <1>6, <2>2, <3>2, NothingWrittenYet
      <4>2. QED
        BY <1>3, <2>1, <3>0, <4>1
    <3>3. QED
      BY <3>1, <3>2
  <2>3. QED
    BY <1>9, <2>2 DEF NewestKept
<1>13. ReportedIn("readState")' = ReportedIn("readState")
  <2>1. ASSUME NEW j
        PROVE  Reported(<<"readState", j>>)' <=> Reported(<<"readState", j>>)
    <3>1. CASE j = i
      BY <1>4, <1>6, <3>1 DEF Reported
    <3>2. CASE key \in DOMAIN mem.latest /\ <<"readState", j>> = last
      BY <1>5, <1>6, <3>2 DEF Reported
    <3>3. CASE j # i /\ ~(key \in DOMAIN mem.latest /\ <<"readState", j>> = last)
      BY <1>6, <3>3 DEF Reported
    <3>4. QED
      BY <3>1, <3>2, <3>3
  <2>2. QED
    BY <1>0, <2>1, StageRowsFixed DEF ReportedIn
<1>14. ReadsAgree'
  BY <1>0, <1>1, <1>9, <1>10, <1>11, <1>12, <1>13, NothingWrittenYet DEF ReadsAgree
<1>15. QED
  BY <1>7, <1>8, <1>14

LEMMA CollectReadStateReport ==
  ASSUME IInvR, NEW i, CollectReadState(i)
  PROVE  ReportAgrees'
<1>0. /\ phase = "readState" /\ UNCHANGED <<source, db, phase, runs>>
      /\ phase \in StageNames
  BY StagesAre DEF CollectReadState, IsNext
<1>1. /\ TopicsAgree /\ RepliesAgree /\ WatchesAgree /\ BansAgree
      /\ DOMAIN mem = MemoryFields /\ ~InGraph /\ ~InGraph'
  BY <1>0, InStage DEF InGraph
<1>2. mem'.topics = mem.topics /\ mem'.keys = mem.keys
  BY <1>1 DEF CollectReadState, Pass, MemoryFields
<1>3. ReadsAgree' /\ RowsReported' /\ \A t \in StageNames \ {"readState"} : SameOutcomes(t)
  BY CollectSkipped, CollectTaken DEF CollectReadState
<1>4. TopicsAgree' /\ RepliesAgree' /\ WatchesAgree' /\ BansAgree'
  BY <1>0, <1>1, <1>2, <1>3, SameTopics, SameReplies, SameWatches, SameBans, StagesAre
<1>5. QED
  BY <1>0, <1>3, <1>4 DEF ReportAgrees

LEMMA WriteReadStateReport ==
  ASSUME IInvR, NEW key \in DOMAIN mem.latest, WriteReadState(key)
  PROVE  ReportAgrees'
<1>. PICK newest : newest = mem.latest[key]
  OBVIOUS
<1> DEFINE row == <<"readState", newest>>
<1>0. /\ phase = "readState" /\ Ahead("readState") = {}
      /\ UNCHANGED <<source, phase, runs>> /\ phase \in StageNames
  BY StagesAre DEF WriteReadState
<1>1. /\ RowsReported /\ TopicsAgree /\ RepliesAgree /\ WatchesAgree
      /\ ReadsAgree /\ BansAgree /\ source \in Sources
      /\ DOMAIN mem = MemoryFields /\ DOMAIN db = TableNames
      /\ ~InGraph /\ ~InGraph' /\ LatestWaits /\ WaitsOrOneOutcome /\ NewestKept
  BY <1>0, InStage DEF InGraph, ReadsAgree
<1>2. /\ newest \in Rows("readState") /\ StateKey(newest) = key
      /\ row \in DOMAIN log /\ log[row] = <<>> /\ key \notin DOMAIN db.reads
  BY <1>1 DEF LatestWaits
<1>3. /\ mem'.cursor = mem.cursor /\ mem'.topics = mem.topics /\ mem'.keys = mem.keys
      /\ mem'.latest = [k \in DOMAIN mem.latest \ {key} |-> mem.latest[k]]
  BY <1>1 DEF WriteReadState, MemoryFields
<1>4. PICK outcome \in {"imported", "failed"} :
         /\ log' = WithOutcome(row, outcome, log)
         /\ db'.topics = db.topics /\ db'.posts = db.posts
         /\ db'.watches = db.watches /\ db'.bans = db.bans
         /\ db'.reads = IF outcome = "imported"
                        THEN Put(db.reads, key, ReadAt(newest)) ELSE db.reads
  BY <1>1 DEF WriteReadState, TableNames
<1>5. /\ DOMAIN log' = DOMAIN log /\ log'[row] = <<outcome>>
      /\ \A x \in DOMAIN log \ {row} : log'[x] = log[x]
  <2>1. Append(<<>>, outcome) = <<outcome>>
    OBVIOUS
  <2>2. QED
    BY <1>2, <1>4, <2>1 DEF WithOutcome, Put
<1>6. \A t \in StageNames \ {"readState"} : SameOutcomes(t)
  BY <1>5 DEF SameOutcomes
<1>7. /\ \A j : StateKey(j)' = StateKey(j) /\ ReadAt(j)' = ReadAt(j)
      /\ \A j : Unusable(j)' <=> Unusable(j)
      /\ Rows("readState")' = Rows("readState")
      /\ Over("readState")' <=> Over("readState")
  BY <1>0, <1>3, SameKeys, StageRowsFixed, OverIsFixed DEF Unusable
<1>8. RowsReported'
  <2>1. \A t \in StageNames : RowsRead(t)' = RowsRead(t)
    BY <1>0, <1>3, StageRowsFixed, OverIsFixed DEF RowsRead
  <2>2. QED
    BY <1>1, <1>3, <1>5, <2>1 DEF RowsReported
<1>9. AllRead /\ AllRead' /\ ~Over("readState")
  <2>1. Ahead("readState")' = Ahead("readState")
    BY <1>3, <1>7 DEF Ahead
  <2>2. QED
    BY <1>0, <2>1, NotOverYet DEF AllRead
<1>10. \A i \in Rows("readState") : <<"readState", i>> \in DOMAIN log
  <2>1. \A i \in Rows("readState") : ~(i > mem.cursor)
    BY <1>0 DEF Ahead
  <2>2. Rows("readState") \subseteq Nat
    BY <1>1, StageKeys, StagesAre DEF StageRows, QueryKey, Key
  <2>3. \A i \in Rows("readState") : i <= mem.cursor
    BY <1>1, <2>1, <2>2 DEF RowsReported
  <2>4. Rows("readState") \subseteq RowsRead("readState")
    BY <1>0, <2>3 DEF RowsRead, StageRows, QueryKey
  <2>5. QED
    BY <1>1, <2>4, StagesAre DEF RowsReported
<1>11. /\ DOMAIN db'.reads = IF outcome = "imported" THEN DOMAIN db.reads \cup {key}
                             ELSE DOMAIN db.reads
       /\ outcome = "imported" => db'.reads[key] = ReadAt(newest)
       /\ \A k \in DOMAIN db.reads : db'.reads[k] = db.reads[k]
  BY <1>2, <1>4 DEF Put
<1>12. LatestWaits'
  <2>1. ASSUME NEW k \in DOMAIN mem.latest \ {key}
        PROVE  /\ mem.latest[k] \in Rows("readState") /\ StateKey(mem.latest[k]) = k
               /\ <<"readState", mem.latest[k]>> \in DOMAIN log'
               /\ log'[<<"readState", mem.latest[k]>>] = <<>>
               /\ k \notin DOMAIN db'.reads
    <3>1. /\ mem.latest[k] \in Rows("readState") /\ StateKey(mem.latest[k]) = k
          /\ <<"readState", mem.latest[k]>> \in DOMAIN log
          /\ log[<<"readState", mem.latest[k]>>] = <<>>
          /\ k \notin DOMAIN db.reads
      BY <1>1 DEF LatestWaits
    <3>2. <<"readState", mem.latest[k]>> # row
      BY <1>2, <3>1
    <3>3. QED
      BY <1>5, <1>11, <3>1, <3>2
  <2>2. QED
    BY <1>3, <1>7, <2>1 DEF LatestWaits
<1>13. WaitsOrOneOutcome'
  <2>1. <<outcome>> \in Single
    BY DEF Single, Outcomes
  <2>2. ASSUME NEW j, <<"readState", j>> \in DOMAIN log'
        PROVE  \/ log'[<<"readState", j>>] \in Single
               \/ /\ log'[<<"readState", j>>] = <<>>
                  /\ StateKey(j) \in DOMAIN mem'.latest /\ mem'.latest[StateKey(j)] = j
    <3>1. CASE j = newest
      BY <1>5, <2>1, <3>1
    <3>2. CASE j # newest
      <4>1. /\ <<"readState", j>> \in DOMAIN log
            /\ log'[<<"readState", j>>] = log[<<"readState", j>>]
        BY <1>5, <2>2, <3>2
      <4>2. \/ log[<<"readState", j>>] \in Single
            \/ /\ log[<<"readState", j>>] = <<>>
               /\ StateKey(j) \in DOMAIN mem.latest /\ mem.latest[StateKey(j)] = j
        BY <1>1, <4>1 DEF WaitsOrOneOutcome
      <4>3. QED
        BY <1>3, <3>2, <4>1, <4>2
    <3>3. QED
      BY <3>1, <3>2
  <2>3. QED
    BY <1>7, <2>2 DEF WaitsOrOneOutcome, Single
<1>14. NewestKept'
  <2>1. ASSUME NEW x \in Rows("readState"), ~Unusable(x), StateKey(x) = key
        PROVE  NewestWritten(key)'
    <3>1. ASSUME NEW i \in Rows("readState"), StateKey(i) = key
          PROVE  ReadAt(i) <= ReadAt(newest)
      <4>1. ~Unusable(i)
        BY <2>1, <3>1, SameKeySameUse
      <4>2. QED
        BY <1>1, <1>10, <3>1, <4>1 DEF NewestKept
    <3>2. IF key \in DOMAIN db'.reads THEN db'.reads[key] = ReadAt(newest)
          ELSE row \in DOMAIN log' /\ log'[row] = <<"failed">>
      BY <1>2, <1>5, <1>11
    <3>3. QED
      BY <1>2, <1>7, <3>1, <3>2 DEF NewestWritten
  <2>2. ASSUME NEW k, k # key, NewestWritten(k)
        PROVE  NewestWritten(k)'
    <3>1. PICK j \in Rows("readState") :
            /\ StateKey(j) = k
            /\ \A i \in Rows("readState") : StateKey(i) = k => ReadAt(i) <= ReadAt(j)
            /\ IF k \in DOMAIN db.reads THEN db.reads[k] = ReadAt(j)
               ELSE /\ <<"readState", j>> \in DOMAIN log
                    /\ log[<<"readState", j>>] = <<"failed">>
      BY <2>2 DEF NewestWritten
    <3>2. <<"readState", j>> # row
      BY <1>2, <2>2, <3>1
    <3>3. IF k \in DOMAIN db'.reads THEN db'.reads[k] = ReadAt(j)
          ELSE /\ <<"readState", j>> \in DOMAIN log'
               /\ log'[<<"readState", j>>] = <<"failed">>
      BY <1>5, <1>11, <2>2, <3>1, <3>2
    <3>4. QED
      BY <1>7, <3>1, <3>3 DEF NewestWritten
  <2>3. ASSUME NEW i \in Rows("readState"), <<"readState", i>> \in DOMAIN log', ~Unusable(i)
        PROVE  IF StateKey(i) \in DOMAIN mem'.latest
               THEN ReadAt(i) <= ReadAt(mem'.latest[StateKey(i)])
               ELSE AllRead' /\ NewestWritten(StateKey(i))'
    <3>1. CASE StateKey(i) = key
      BY <1>3, <1>7, <1>9, <2>1, <2>3, <3>1
    <3>2. CASE StateKey(i) # key
      BY <1>1, <1>3, <1>5, <1>7, <1>9, <2>2, <2>3, <3>2 DEF NewestKept
    <3>3. QED
      BY <3>1, <3>2
  <2>4. QED
    BY <1>7, <2>3 DEF NewestKept
<1>15. ReportedIn("readState")' = IF outcome = "imported"
                                  THEN ReportedIn("readState") \cup {newest}
                                  ELSE ReportedIn("readState")
  <2>1. Reported(row)' <=> outcome = "imported"
    BY <1>2, <1>5 DEF Reported
  <2>2. ~Reported(row)
    BY <1>2 DEF Reported
  <2>3. \A j : j # newest =>
           (Reported(<<"readState", j>>)' <=> Reported(<<"readState", j>>))
    BY <1>5 DEF Reported
  <2>4. StageRows("readState")' = StageRows("readState") /\ newest \in StageRows("readState")
    BY <1>0, <1>2, StageRowsFixed DEF StageRows
  <2>5. QED
    BY <2>1, <2>2, <2>3, <2>4 DEF ReportedIn
<1>16. /\ DOMAIN db'.reads = {StateKey(i)' : i \in ReportedIn("readState")'}
       /\ \A i, j \in ReportedIn("readState")' : StateKey(i)' = StateKey(j)' => i = j
  <2>1. /\ DOMAIN db.reads = {StateKey(i) : i \in ReportedIn("readState")}
        /\ \A i, j \in ReportedIn("readState") : StateKey(i) = StateKey(j) => i = j
    BY <1>1 DEF ReadsAgree
  <2>2. CASE outcome = "imported"
    BY <1>2, <1>7, <1>11, <1>15, <2>1, <2>2
  <2>3. CASE outcome # "imported"
    BY <1>7, <1>11, <1>15, <2>1, <2>3
  <2>4. QED
    BY <2>2, <2>3
<1>17. ReadsAgree'
  BY <1>7, <1>9, <1>12, <1>13, <1>14, <1>16 DEF ReadsAgree
<1>18. TopicsAgree' /\ RepliesAgree' /\ WatchesAgree' /\ BansAgree'
  BY <1>0, <1>1, <1>3, <1>4, <1>6, SameTopics, SameReplies, SameWatches, SameBans, StagesAre
<1>19. QED
  BY <1>0, <1>8, <1>17, <1>18 DEF ReportAgrees

-----------------------------------------------------------------------------
(* The graph of a discussion.                                              *)

\* What no graph touches.
LEMMA OtherStages ==
  ASSUME IInvR, phase = "replies", UNCHANGED <<source, phase, runs>>,
         \A t \in StageNames \ {"replies"} : SameOutcomes(t),
         mem'.topics = mem.topics, mem'.keys = mem.keys, mem'.latest = mem.latest,
         db'.topics = db.topics, db'.watches = db.watches,
         db'.reads = db.reads, db'.bans = db.bans
  PROVE  TopicsAgree' /\ WatchesAgree' /\ ReadsAgree' /\ BansAgree'
<1>1. TopicsAgree /\ WatchesAgree /\ ReadsAgree /\ BansAgree
  BY InStage, StagesAre
<1>2. QED
  BY <1>1, SameTopics, SameWatches, SameReads, SameAllRead, SameBans, StagesAre

LEMMA SameRowsRead ==
  ASSUME RowsReported, UNCHANGED <<source, phase>>, mem'.cursor = mem.cursor,
         DOMAIN log' = DOMAIN log
  PROVE  RowsReported'
<1>1. \A t \in StageNames : RowsRead(t)' = RowsRead(t)
  BY StageRowsFixed, OverIsFixed DEF RowsRead
<1>2. QED
  BY <1>1 DEF RowsReported

\* A reply of the discussion not visited has no outcome.
LEMMA NotVisited ==
  ASSUME IInvR, InGraph, NEW r \in Unvisited
  PROVE  /\ r \in RepliesRead /\ DiscussionOf(r) = mem.cursor
         /\ OutcomesOf(r) = <<>> /\ ~Settled(r)
<1>1. /\ r \in Replies /\ DiscussionOf(r) = mem.cursor /\ r \notin mem.visited
  BY DEF Unvisited, RepliesOf, Replies, DiscussionOf
<1>2. phase = "replies" /\ phase \in StageNames
  BY StagesAre DEF InGraph
<1>3. RowsReported /\ RepliesAgree /\ mem.cursor \in Nat
  BY <1>2, InStage DEF RowsReported
<1>4. r \in RowsRead("replies")
  BY <1>1, <1>2, <1>3 DEF RowsRead, StageRows, QueryKey
<1>5. r \in RepliesRead
  BY <1>1, <1>2, <1>3, <1>4 DEF RowsReported, RepliesRead
<1>6. QED
  BY <1>1, <1>3, <1>5 DEF Settled, RepliesAgree

LEMMA PendingUnvisited ==
  ASSUME IInv, InGraph
  PROVE  Pending \subseteq Unvisited /\ \A r \in Pending : ParentOf(r) = Top.reply
  BY Frames DEF Pending, Unvisited, ChildrenOf

\* The outcomes after Recorded, of a reply not visited and of those skipped.
LEMMA RecordedOutcomes ==
  ASSUME IInvR, InGraph, NEW p \in RepliesRead, NEW outcome, NEW skipped,
         skipped \subseteq Unvisited \ {p},
         log' = Recorded(p, outcome, skipped)
  PROVE  /\ DOMAIN log' = DOMAIN log
         /\ OutcomesOf(p)' = Append(OutcomesOf(p), outcome)
         /\ \A s \in skipped : OutcomesOf(s)' = <<"skipped">>
         /\ \A q \in RepliesRead \ (skipped \cup {p}) : OutcomesOf(q)' = OutcomesOf(q)
         /\ \A t \in StageNames \ {"replies"} : SameOutcomes(t)
<1>1. DOMAIN log' = DOMAIN log
  BY DEF Recorded
<1>2. OutcomesOf(p)' = Append(OutcomesOf(p), outcome)
  BY DEF Recorded, OutcomesOf, RepliesRead
<1>3. ASSUME NEW s \in skipped
      PROVE  OutcomesOf(s)' = <<"skipped">>
  <2>1. s \in RepliesRead /\ OutcomesOf(s) = <<>> /\ s # p
    BY <1>3, NotVisited
  <2>2. OutcomesOf(s)' = Append(OutcomesOf(s), "skipped")
    BY <1>3, <2>1 DEF Recorded, OutcomesOf, RepliesRead
  <2>3. QED
    BY <2>1, <2>2
<1>4. \A q \in RepliesRead \ (skipped \cup {p}) : OutcomesOf(q)' = OutcomesOf(q)
  BY DEF Recorded, OutcomesOf, RepliesRead
<1>5. \A t \in StageNames \ {"replies"} : SameOutcomes(t)
  BY <1>1 DEF Recorded, SameOutcomes
<1>6. QED
  BY <1>1, <1>2, <1>3, <1>4, <1>5

\* A step of the graph settles the replies in done: with one outcome each, but
\* for the reply whose lookup threw, and the parent that caught it.
GraphSettles(done, lost, caught) ==
  /\ done \subseteq Unvisited /\ mem'.visited = mem.visited \cup done
  /\ \A r \in done \ lost : OutcomesOf(r)' \in Single
  /\ \A r \in lost : r \in done /\ OutcomesOf(r)' = <<>> /\ ParentOf(r) \in caught
  /\ \A r, q \in lost : r = q
  /\ \A p \in caught : /\ p \in RepliesRead /\ p \notin Unvisited
                       /\ DiscussionOf(p) = mem.cursor
                       /\ OutcomesOf(p) = <<"imported">>
                       /\ OutcomesOf(p)' = CaughtLookup
  /\ \A r \in RepliesRead \ (done \cup caught) : OutcomesOf(r)' = OutcomesOf(r)

LEMMA GraphAgrees ==
  ASSUME IInvR, InGraph, InGraph', UNCHANGED <<source, phase>>,
         mem'.cursor = mem.cursor, DOMAIN log' = DOMAIN log,
         NEW done, NEW lost, NEW caught, GraphSettles(done, lost, caught)
  PROVE  /\ \A r \in RepliesRead' :
               IF Settled(r)' THEN Accounted(r)' ELSE OutcomesOf(r)' = <<>>
         /\ \A r, q \in RepliesRead' :
               /\ Settled(r)' /\ Settled(q)'
               /\ OutcomesOf(r)' = <<>> /\ OutcomesOf(q)' = <<>>
               /\ ParentOf(r)' = ParentOf(q)'
               => r = q
<1> USE DEF GraphSettles
<1>0. RepliesAgree
  BY InStage, StagesAre DEF InGraph
<1>1. /\ RepliesRead' = RepliesRead /\ Replies' = Replies
      /\ \A r : ParentOf(r)' = ParentOf(r) /\ DiscussionOf(r)' = DiscussionOf(r)
  BY DEF RepliesRead, Replies, ParentOf, DiscussionOf
<1>2. \A r \in done : /\ r \in RepliesRead /\ DiscussionOf(r) = mem.cursor
                      /\ OutcomesOf(r) = <<>> /\ ~Settled(r) /\ Settled(r)'
  BY <1>1, NotVisited DEF Settled
<1>3. \A r : Settled(r)' <=> Settled(r) \/ r \in done
  BY <1>1, <1>2 DEF Settled
<1>4. ASSUME NEW r \in RepliesRead, Unrecorded(r), NEW p, p = ParentOf(r)
      PROVE  p \notin done \cup caught /\ OutcomesOf(p)' = CaughtLookup
  <2>1. p \in RepliesRead /\ OutcomesOf(p) = CaughtLookup
    BY <1>4 DEF Unrecorded, RepliesRead
  <2>2. CaughtLookup # <<>> /\ CaughtLookup # <<"imported">>
    BY DEF CaughtLookup
  <2>3. p \notin done \cup caught
    BY <1>2, <2>1, <2>2
  <2>4. QED
    BY <2>1, <2>3
<1>5. ASSUME NEW r \in RepliesRead
      PROVE  IF Settled(r)' THEN Accounted(r)' ELSE OutcomesOf(r)' = <<>>
  <2>1. CASE r \in done \ lost
    BY <1>2, <2>1 DEF Accounted, Single
  <2>2. CASE r \in lost
    <3>1. PICK p : p = ParentOf(r)
      OBVIOUS
    <3>2. /\ p \in RepliesRead /\ DiscussionOf(p) = DiscussionOf(r)
          /\ OutcomesOf(p)' = CaughtLookup /\ OutcomesOf(r)' = <<>>
      BY <1>2, <2>2, <3>1
    <3>3. Unrecorded(r)'
      BY <1>1, <3>1, <3>2 DEF Unrecorded, RepliesRead
    <3>4. QED
      BY <1>2, <2>2, <3>3 DEF Accounted
  <2>3. CASE r \in caught
    <3>1. Settled(r)' /\ OutcomesOf(r)' = CaughtLookup
      <4>1. r \in mem.visited
        BY <2>3 DEF Unvisited, RepliesOf, RepliesRead, Replies, DiscussionOf
      <4>2. QED
        BY <2>3, <4>1 DEF Settled
    <3>2. QED
      BY <3>1 DEF Accounted, CaughtLookup, Single
  <2>4. CASE r \notin done \cup caught
    <3>1. OutcomesOf(r)' = OutcomesOf(r) /\ (Settled(r)' <=> Settled(r))
      BY <1>3, <2>4
    <3>2. IF Settled(r) THEN Accounted(r) ELSE OutcomesOf(r) = <<>>
      BY <1>0 DEF RepliesAgree
    <3>3. CASE Unrecorded(r)
      <4>1. \A p : p = ParentOf(r) => OutcomesOf(p)' = CaughtLookup
        BY <1>4, <3>3
      <4>2. Unrecorded(r)'
        BY <1>1, <3>1, <3>3, <4>1 DEF Unrecorded
      <4>3. QED
        BY <3>1, <3>3, <4>2 DEF Accounted, Unrecorded
    <3>4. CASE ~Unrecorded(r)
      BY <3>1, <3>2, <3>4 DEF Accounted, CaughtLookup, Single
    <3>5. QED
      BY <3>3, <3>4
  <2>5. QED
    BY <2>1, <2>2, <2>3, <2>4
<1>6. ASSUME NEW r \in RepliesRead, NEW q \in RepliesRead,
             Settled(r)', Settled(q)',
             OutcomesOf(r)' = <<>>, OutcomesOf(q)' = <<>>, ParentOf(r) = ParentOf(q)
      PROVE  r = q
  <2>1. <<>> \notin Single /\ <<>> # CaughtLookup
    BY DEF Single, CaughtLookup
  <2>2. ASSUME NEW x \in RepliesRead, Settled(x)', OutcomesOf(x)' = <<>>
        PROVE  x \in lost \/ (Settled(x) /\ OutcomesOf(x) = <<>> /\ Unrecorded(x))
    <3>1. x \in lost \/ x \notin done \cup caught
      BY <2>1, <2>2
    <3>2. CASE x \notin done \cup caught
      BY <1>0, <1>3, <2>1, <2>2, <3>2 DEF RepliesAgree, Accounted
    <3>3. QED
      BY <3>1, <3>2
  <2>3. CASE r \in lost /\ q \in lost
    BY <2>3
  <2>4. CASE r \in lost /\ q \notin lost
    BY <1>4, <1>6, <2>2, <2>4
  <2>5. CASE r \notin lost /\ q \in lost
    BY <1>4, <1>6, <2>2, <2>5
  <2>6. CASE r \notin lost /\ q \notin lost
    BY <1>0, <1>6, <2>2, <2>6 DEF RepliesAgree
  <2>7. QED
    BY <2>3, <2>4, <2>5, <2>6
<1>7. QED
  BY <1>1, <1>5, <1>6

\* The frames that stay have replies whose outcomes stay.
LEMMA BranchesStay ==
  ASSUME IInvR, InGraph, UNCHANGED <<source, phase>>,
         mem'.cursor = mem.cursor, DOMAIN log' = DOMAIN log,
         mem.visited \subseteq mem'.visited,
         \/ mem'.frames = mem.frames
         \/ mem'.frames = Callers /\ Len(mem.frames) > 1,
         \A r \in RepliesRead \cap mem.visited :
            mem'.frames = mem.frames \/ r # Top.reply => OutcomesOf(r)' = OutcomesOf(r)
  PROVE  BranchesOpen' /\ InGraph'
<1>1. BranchesOpen /\ phase = "replies"
  BY InStage, StagesAre DEF InGraph, RepliesAgree
<1>2. mem.frames \in Seq(FrameSet) /\ Len(mem.frames) \in Nat /\ Len(mem.frames) >= 1
  BY Frames, LenProperties DEF IInvR
<1>3. PICK n \in Nat : n = Len(mem.frames) /\ n >= 1 /\ mem.frames[n] = Top
  BY <1>2 DEF Top
<1>4. /\ Len(mem'.frames) \in Nat /\ Len(mem'.frames) <= n /\ Len(mem'.frames) >= 1
      /\ \A k \in 1..Len(mem'.frames) : mem'.frames[k] = mem.frames[k]
      /\ mem'.frames = mem.frames \/ Len(mem'.frames) < n
  <2>1. CASE mem'.frames = mem.frames
    BY <1>2, <1>3, <2>1
  <2>2. CASE mem'.frames = Callers /\ Len(mem.frames) > 1
    BY <1>2, <1>3, <2>2, SubSeqProperties DEF Callers
  <2>3. QED
    BY <2>1, <2>2
<1>5. mem'.frames # <<>>
  BY <1>4
<1>6. RepliesRead' = RepliesRead /\ \A r : DiscussionOf(r)' = DiscussionOf(r)
  BY DEF RepliesRead, Replies, DiscussionOf
<1>7. ASSUME NEW k \in 2..Len(mem'.frames), NEW r, r = mem'.frames[k].reply
      PROVE  /\ r \in mem'.visited /\ DiscussionOf(r)' = mem'.cursor
             /\ r \in RepliesRead' /\ OutcomesOf(r)' = <<"imported">>
             /\ \A m \in 2..Len(mem'.frames) : mem'.frames[m].reply = r => m = k
  <2>1. k \in 2..n /\ r = mem.frames[k].reply /\ (Len(mem'.frames) < n => k # n /\ n \in 2..n)
    BY <1>4, <1>7
  <2>2. /\ r \in mem.visited /\ DiscussionOf(r) = mem.cursor
        /\ r \in RepliesRead /\ OutcomesOf(r) = <<"imported">>
        /\ \A m \in 2..n : mem.frames[m].reply = r => m = k
    BY <1>1, <1>3, <2>1 DEF BranchesOpen
  <2>3. Len(mem'.frames) < n => r # Top.reply
    BY <1>3, <2>1, <2>2
  <2>4. OutcomesOf(r)' = OutcomesOf(r)
    BY <1>4, <2>2, <2>3
  <2>5. \A m \in 2..Len(mem'.frames) : m \in 2..n /\ mem'.frames[m] = mem.frames[m]
    BY <1>4
  <2>6. \A m \in 2..Len(mem'.frames) : mem'.frames[m].reply = r => m = k
    BY <2>2, <2>5
  <2>7. QED
    BY <1>6, <2>2, <2>4, <2>6
<1>8. BranchesOpen'
  BY <1>7 DEF BranchesOpen
<1>9. QED
  BY <1>1, <1>5, <1>8 DEF InGraph

LEMMA InTheGraph ==
  ASSUME IInvR, InGraph
  PROVE  /\ phase = "replies" /\ RowsReported /\ RepliesAgree
         /\ DOMAIN mem = MemoryFields /\ DOMAIN db = TableNames
         /\ Unvisited \subseteq RepliesRead
         /\ \A r \in Unvisited : r \notin mem.visited /\ ~Reported(<<"replies", r>>)
         /\ CaughtLookup \notin Single /\ <<>> \notin Single
<1>1. phase = "replies" /\ phase \in StageNames
  BY StagesAre DEF InGraph
<1>2. ASSUME NEW r \in Unvisited
      PROVE  ~Reported(<<"replies", r>>)
  <2>1. log[<<"replies", r>>] = <<>>
    BY NotVisited DEF OutcomesOf
  <2>2. QED
    BY <2>1 DEF Reported
<1>3. QED
  BY <1>1, <1>2, InStage, NotVisited DEF Unvisited, CaughtLookup, Single

\* A reply and those below it are settled without being imported.
LEMMA BranchSkipped ==
  ASSUME IInvR, InGraph, UNCHANGED <<source, db, phase, runs>>,
         NEW r \in Unvisited, NEW skipped \in SUBSET (Unvisited \ {r}),
         NEW outcome \in {"skipped", "failed"},
         log' = Recorded(r, outcome, skipped),
         mem'.cursor = mem.cursor, mem'.frames = mem.frames,
         mem'.visited = mem.visited \cup {r} \cup skipped
  PROVE  RepliesAgree' /\ RowsReported' /\ \A t \in StageNames \ {"replies"} : SameOutcomes(t)
<1> DEFINE done == {r} \cup skipped
<1>0. /\ RowsReported /\ RepliesAgree /\ r \in RepliesRead /\ OutcomesOf(r) = <<>>
      /\ \A x \in Unvisited : x \notin mem.visited /\ ~Reported(<<"replies", x>>)
  BY InTheGraph, NotVisited
<1>1. /\ DOMAIN log' = DOMAIN log
      /\ OutcomesOf(r)' = <<outcome>>
      /\ \A s \in skipped : OutcomesOf(s)' = <<"skipped">>
      /\ \A q \in RepliesRead \ done : OutcomesOf(q)' = OutcomesOf(q)
      /\ \A t \in StageNames \ {"replies"} : SameOutcomes(t)
  <2>1. Append(<<>>, outcome) = <<outcome>>
    OBVIOUS
  <2>2. QED
    BY <1>0, <2>1, RecordedOutcomes
<1>2. BranchesOpen' /\ InGraph'
  BY <1>0, <1>1, BranchesStay
<1>3. /\ <<outcome>> \in Single /\ <<"skipped">> \in Single
  BY DEF Single, Outcomes
<1>4. /\ \A x \in RepliesRead' :
            IF Settled(x)' THEN Accounted(x)' ELSE OutcomesOf(x)' = <<>>
      /\ \A x, y \in RepliesRead' :
            /\ Settled(x)' /\ Settled(y)'
            /\ OutcomesOf(x)' = <<>> /\ OutcomesOf(y)' = <<>>
            /\ ParentOf(x)' = ParentOf(y)'
            => x = y
  <2>1. done \subseteq Unvisited /\ mem'.visited = mem.visited \cup done
    OBVIOUS
  <2>2. GraphSettles(done, {}, {})
    BY <1>1, <1>3, <2>1 DEF GraphSettles
  <2> HIDE DEF done
  <2>3. QED
    BY <1>1, <1>2, <2>2, GraphAgrees
<1>5. ReportedIn("replies")' = ReportedIn("replies")
  <2>1. ASSUME NEW x
        PROVE  Reported(<<"replies", x>>)' <=> Reported(<<"replies", x>>)
    <3>1. CASE x \in done
      BY <1>0, <1>1, <3>1 DEF Reported, OutcomesOf
    <3>2. CASE <<"replies", x>> \in DOMAIN log /\ x \notin Replies
      BY <1>0, <3>2, StagesAre DEF RowsReported, RowsRead, StageRows
    <3>3. CASE x \in RepliesRead \ done
      BY <1>1, <3>3 DEF Reported, OutcomesOf
    <3>4. CASE <<"replies", x>> \notin DOMAIN log
      BY <1>1, <3>4 DEF Reported
    <3>5. QED
      BY <3>1, <3>2, <3>3, <3>4 DEF RepliesRead
  <2>2. QED
    BY <2>1, StageRowsFixed, StagesAre DEF ReportedIn
<1>6. RepliesAgree'
  BY <1>0, <1>2, <1>4, <1>5 DEF RepliesAgree, PostId
<1>7. RowsReported'
  BY <1>0, <1>1, SameRowsRead
<1>8. QED
  BY <1>1, <1>6, <1>7

LEMMA SkippedReport ==
  ASSUME IInvR, NEW r \in Replies, SkipReply(r) \/ SweepOrphan(r)
  PROVE  ReportAgrees'
<1>0. /\ InGraph /\ UNCHANGED <<source, db, phase, runs>>
  BY DEF SkipReply, SweepOrphan
<1>1. phase = "replies" /\ DOMAIN mem = MemoryFields
  BY <1>0, InTheGraph
<1>2. PICK skipped : skipped = SkippedBelow(r, Unvisited \ {r})
  OBVIOUS
<1>3. skipped \in SUBSET (Unvisited \ {r}) /\ r \in Unvisited
  BY <1>0, <1>2, SkippedIsFree, PendingUnvisited DEF IInvR, SkipReply, SweepOrphan
<1>4. PICK outcome \in {"skipped", "failed"} : log' = Recorded(r, outcome, skipped)
  BY <1>2 DEF SkipReply, SweepOrphan
<1>5. /\ mem'.cursor = mem.cursor /\ mem'.frames = mem.frames
      /\ mem'.visited = mem.visited \cup {r} \cup skipped
      /\ mem'.topics = mem.topics /\ mem'.keys = mem.keys /\ mem'.latest = mem.latest
  BY <1>1, <1>2 DEF SkipReply, SweepOrphan, Visit, MemoryFields
<1>6. RepliesAgree' /\ RowsReported' /\ \A t \in StageNames \ {"replies"} : SameOutcomes(t)
  BY <1>0, <1>3, <1>4, <1>5, BranchSkipped
<1>7. TopicsAgree' /\ WatchesAgree' /\ ReadsAgree' /\ BansAgree'
  BY <1>0, <1>1, <1>5, <1>6, OtherStages
<1>8. QED
  BY <1>0, <1>1, <1>6, <1>7 DEF ReportAgrees

LEMMA CaughtIsAppended == Append(<<"imported">>, "failed") = CaughtLookup
<1> DEFINE s == Append(<<"imported">>, "failed")
           t == <<"imported", "failed">>
<1>1. <<"imported">> \in Seq(Outcomes) /\ "failed" \in Outcomes
  BY DEF Outcomes
<1>2. /\ s \in Seq(Outcomes) /\ Len(s) = 2
      /\ s[1] = "imported" /\ s[2] = "failed"
  BY <1>1, AppendProperties
<1>3. /\ t \in Seq(Outcomes) /\ Len(t) = 2
      /\ t[1] = "imported" /\ t[2] = "failed"
  BY DEF Outcomes
<1> HIDE DEF s, t
<1>4. \A n \in 1..Len(s) : s[n] = t[n]
  BY <1>2, <1>3
<1>5. s = t
  BY <1>2, <1>3, <1>4, SeqEqual
<1>6. QED
  BY <1>5 DEF s, t, CaughtLookup

LEMMA LookupThrowsReport ==
  ASSUME IInvR, NEW r \in Replies, LookupThrows(r)
  PROVE  ReportAgrees'
<1>0. /\ InGraph /\ UNCHANGED <<source, db, phase, runs>>
      /\ r \in Pending /\ Len(mem.frames) > 1
  BY DEF LookupThrows
<1>1. /\ phase = "replies" /\ DOMAIN mem = MemoryFields
      /\ RowsReported /\ RepliesAgree /\ BranchesOpen
      /\ \A x \in Unvisited : x \notin mem.visited /\ ~Reported(<<"replies", x>>)
  BY <1>0, InTheGraph DEF RepliesAgree
<1>2. PICK skipped, p : skipped = SkippedBelow(Top.reply, Unvisited \ {r}) /\ p = Top.reply
  OBVIOUS
<1> DEFINE done == {r} \cup skipped
<1>3. /\ skipped \subseteq Unvisited \ {r} /\ r \in Unvisited /\ ParentOf(r) = p
      /\ r \in RepliesRead /\ OutcomesOf(r) = <<>>
  BY <1>0, <1>2, SkippedIsFree, PendingUnvisited, NotVisited DEF IInvR
<1>4. /\ p \in mem.visited /\ DiscussionOf(p) = mem.cursor
      /\ p \in RepliesRead /\ OutcomesOf(p) = <<"imported">>
  <2>1. Len(mem.frames) \in Nat
    BY <1>0, Frames, LenProperties DEF IInvR
  <2>2. Len(mem.frames) \in 2..Len(mem.frames)
    BY <1>0, <2>1
  <2>3. QED
    BY <1>1, <1>2, <2>2 DEF BranchesOpen, Top
<1>5. p \notin Unvisited
  BY <1>1, <1>4
<1>6. /\ mem'.cursor = mem.cursor /\ mem'.frames = Callers
      /\ mem'.visited = mem.visited \cup {r} \cup skipped
      /\ mem'.topics = mem.topics /\ mem'.keys = mem.keys /\ mem'.latest = mem.latest
      /\ log' = Recorded(p, "failed", skipped)
  BY <1>1, <1>2 DEF LookupThrows, MemoryFields
<1>7. /\ DOMAIN log' = DOMAIN log
      /\ OutcomesOf(p)' = CaughtLookup
      /\ \A s \in skipped : OutcomesOf(s)' = <<"skipped">>
      /\ \A q \in RepliesRead \ (skipped \cup {p}) : OutcomesOf(q)' = OutcomesOf(q)
      /\ \A t \in StageNames \ {"replies"} : SameOutcomes(t)
  <2>1. Append(<<"imported">>, "failed") = CaughtLookup
    BY CaughtIsAppended
  <2>2. skipped \subseteq Unvisited \ {p}
    BY <1>3, <1>5
  <2>3. QED
    BY <1>0, <1>4, <1>6, <2>1, <2>2, RecordedOutcomes
<1>8. OutcomesOf(r)' = <<>>
  BY <1>3, <1>5, <1>7
<1>9. BranchesOpen' /\ InGraph'
  <2>1. \A x \in RepliesRead \cap mem.visited : x # Top.reply => OutcomesOf(x)' = OutcomesOf(x)
    BY <1>1, <1>2, <1>3, <1>7
  <2>2. mem.frames # Callers
    <3>1. mem.frames \in Seq(FrameSet) /\ Len(mem.frames) \in Nat
      BY <1>0, Frames, LenProperties DEF IInvR
    <3>2. Len(Callers) = Len(mem.frames) - 1
      BY <1>0, <3>1, SubSeqProperties DEF Callers
    <3>3. QED
      BY <3>1, <3>2
  <2>3. QED
    BY <1>0, <1>6, <1>7, <2>1, <2>2, BranchesStay
<1>10. /\ \A x \in RepliesRead' :
             IF Settled(x)' THEN Accounted(x)' ELSE OutcomesOf(x)' = <<>>
       /\ \A x, y \in RepliesRead' :
             /\ Settled(x)' /\ Settled(y)'
             /\ OutcomesOf(x)' = <<>> /\ OutcomesOf(y)' = <<>>
             /\ ParentOf(x)' = ParentOf(y)'
             => x = y
  <2>1. done \subseteq Unvisited /\ mem'.visited = mem.visited \cup done
    BY <1>3, <1>6
  <2>2. \A x \in done \ {r} : OutcomesOf(x)' \in Single
    BY <1>7 DEF Single, Outcomes
  <2>3. \A x \in {r} : x \in done /\ OutcomesOf(x)' = <<>> /\ ParentOf(x) \in {p}
    BY <1>3, <1>8
  <2>4. \A x \in RepliesRead \ (done \cup {p}) : OutcomesOf(x)' = OutcomesOf(x)
    BY <1>7
  <2>5. \A q \in {p} : /\ q \in RepliesRead /\ q \notin Unvisited
                       /\ DiscussionOf(q) = mem.cursor
                       /\ OutcomesOf(q) = <<"imported">>
                       /\ OutcomesOf(q)' = CaughtLookup
    BY <1>4, <1>5, <1>7
  <2> HIDE DEF done
  <2>6. GraphSettles(done, {r}, {p})
    BY <2>1, <2>2, <2>3, <2>4, <2>5 DEF GraphSettles
  <2>7. QED
    BY <1>0, <1>6, <1>7, <1>9, <2>6, GraphAgrees
<1>11. ReportedIn("replies")' = ReportedIn("replies")
  <2>1. ASSUME NEW x \in Replies
        PROVE  Reported(<<"replies", x>>)' <=> Reported(<<"replies", x>>)
    <3>1. CASE x \in done
      BY <1>1, <1>3, <1>7, <1>8, <3>1 DEF Reported, OutcomesOf
    <3>2. CASE x = p
      <4>1. /\ <<"replies", x>> \in DOMAIN log /\ log[<<"replies", x>>] = <<"imported">>
            /\ <<"replies", x>> \in DOMAIN log' /\ log'[<<"replies", x>>] = CaughtLookup
        BY <1>4, <1>7, <3>2 DEF RepliesRead, OutcomesOf
      <4>2. Reported(<<"replies", x>>)
        BY <4>1 DEF Reported
      <4>3. Reported(<<"replies", x>>)'
        <5>1. Len(CaughtLookup) = 2 /\ CaughtLookup[1] = "imported" /\ 1 \in 1..2
          BY DEF CaughtLookup
        <5>2. QED
          BY <4>1, <5>1 DEF Reported
      <4>4. QED
        BY <4>2, <4>3
    <3>3. CASE x \in RepliesRead \ (done \cup {p})
      BY <1>7, <3>3 DEF Reported, OutcomesOf
    <3>4. CASE x \notin RepliesRead
      BY <1>7, <3>4 DEF Reported, RepliesRead
    <3>5. QED
      BY <3>1, <3>2, <3>3, <3>4
  <2>2. QED
    BY <1>0, <2>1, StageRowsFixed, StagesAre DEF ReportedIn, StageRows
<1>12. RepliesAgree'
  BY <1>0, <1>1, <1>9, <1>10, <1>11 DEF RepliesAgree, PostId
<1>13. RowsReported'
  BY <1>0, <1>1, <1>6, <1>7, SameRowsRead
<1>14. TopicsAgree' /\ WatchesAgree' /\ ReadsAgree' /\ BansAgree'
  BY <1>0, <1>1, <1>6, <1>7, OtherStages
<1>15. QED
  BY <1>0, <1>1, <1>12, <1>13, <1>14 DEF ReportAgrees

LEMMA ReturnReport ==
  ASSUME IInvR, ReturnFromBranch
  PROVE  ReportAgrees'
<1>0. /\ InGraph /\ Len(mem.frames) > 1 /\ UNCHANGED <<source, db, phase, log, runs>>
  BY DEF ReturnFromBranch
<1>1. /\ phase = "replies" /\ DOMAIN mem = MemoryFields
      /\ RowsReported /\ RepliesAgree
  BY <1>0, InTheGraph
<1>2. /\ mem'.cursor = mem.cursor /\ mem'.frames = Callers /\ mem'.visited = mem.visited
      /\ mem'.topics = mem.topics /\ mem'.keys = mem.keys /\ mem'.latest = mem.latest
  BY <1>1 DEF ReturnFromBranch, MemoryFields
<1>3. /\ \A t : SameOutcomes(t)
      /\ \A r : OutcomesOf(r)' = OutcomesOf(r)
  BY <1>0 DEF SameOutcomes, OutcomesOf
<1>4. BranchesOpen' /\ InGraph'
  BY <1>0, <1>2, <1>3, BranchesStay
<1>5. GraphSettles({}, {}, {})
  BY <1>2, <1>3 DEF GraphSettles
<1>6. ReportedIn("replies")' = ReportedIn("replies")
  BY <1>0, <1>3, SameReported, StagesAre
<1>7. RepliesAgree'
  <2>1. /\ \A r \in RepliesRead' :
              IF Settled(r)' THEN Accounted(r)' ELSE OutcomesOf(r)' = <<>>
        /\ \A r, q \in RepliesRead' :
              /\ Settled(r)' /\ Settled(q)'
              /\ OutcomesOf(r)' = <<>> /\ OutcomesOf(q)' = <<>>
              /\ ParentOf(r)' = ParentOf(q)'
              => r = q
    BY <1>0, <1>2, <1>4, <1>5, GraphAgrees
  <2>2. QED
    BY <1>0, <1>1, <1>4, <1>6, <2>1 DEF RepliesAgree, PostId
<1>8. RowsReported'
  BY <1>0, <1>1, <1>2, SameRowsRead
<1>9. TopicsAgree' /\ WatchesAgree' /\ ReadsAgree' /\ BansAgree'
  BY <1>0, <1>1, <1>2, <1>3, OtherStages
<1>10. QED
  BY <1>0, <1>1, <1>7, <1>8, <1>9 DEF ReportAgrees

\* The graph ends when all its replies were visited.
LEMMA EndGraphReport ==
  ASSUME IInvR, EndGraph
  PROVE  ReportAgrees'
<1>0. /\ InGraph /\ Unvisited = {} /\ UNCHANGED <<source, db, phase, log, runs>>
  BY DEF EndGraph
<1>1. /\ phase = "replies" /\ DOMAIN mem = MemoryFields
      /\ RowsReported /\ RepliesAgree
  BY <1>0, InTheGraph
<1>2. /\ mem'.cursor = mem.cursor /\ mem'.frames = <<>>
      /\ mem'.topics = mem.topics /\ mem'.keys = mem.keys /\ mem'.latest = mem.latest
  BY <1>1 DEF EndGraph, MemoryFields
<1>3. /\ \A t : SameOutcomes(t)
      /\ \A r : /\ OutcomesOf(r)' = OutcomesOf(r) /\ ParentOf(r)' = ParentOf(r)
                /\ DiscussionOf(r)' = DiscussionOf(r) /\ PostId(r)' = PostId(r)
      /\ Replies' = Replies /\ RepliesRead' = RepliesRead
  BY <1>0 DEF SameOutcomes, OutcomesOf, ParentOf, DiscussionOf, PostId, Replies, RepliesRead
<1>4. ~InGraph'
  BY <1>2 DEF InGraph
<1>5. \A r \in RepliesRead : Settled(r) /\ Settled(r)'
  BY <1>0, <1>4 DEF Settled, Unvisited, RepliesOf, RepliesRead, Replies, DiscussionOf
<1>6. ReportedIn("replies")' = ReportedIn("replies")
  BY <1>0, <1>3, SameReported, StagesAre
<1>7. RepliesAgree'
  <2>1. ASSUME NEW r \in RepliesRead
        PROVE  Accounted(r)'
    <3>1. Accounted(r)
      BY <1>1, <1>5 DEF RepliesAgree
    <3>2. QED
      BY <1>0, <1>3, <3>1 DEF Accounted, Unrecorded, OutcomesOf, ParentOf, DiscussionOf,
                              CaughtLookup, Single
  <2>2. \A r, q \in RepliesRead :
           OutcomesOf(r) = <<>> /\ OutcomesOf(q) = <<>> /\ ParentOf(r) = ParentOf(q) => r = q
    BY <1>1, <1>5 DEF RepliesAgree
  <2>3. DOMAIN db'.posts = {PostId(r) : r \in ReportedIn("replies")}
    BY <1>0, <1>1 DEF RepliesAgree
  <2>4. QED
    BY <1>3, <1>4, <1>5, <1>6, <2>1, <2>2, <2>3 DEF RepliesAgree
<1>8. RowsReported'
  BY <1>0, <1>1, <1>2, SameRowsRead
<1>9. TopicsAgree' /\ WatchesAgree' /\ ReadsAgree' /\ BansAgree'
  BY <1>0, <1>1, <1>2, <1>3, OtherStages
<1>10. QED
  BY <1>0, <1>1, <1>7, <1>8, <1>9 DEF ReportAgrees

LEMMA ImportReplyReport ==
  ASSUME IInvR, NEW r \in Replies, ImportReply(r)
  PROVE  ReportAgrees'
<1>0. /\ InGraph /\ r \in Pending /\ UNCHANGED <<source, phase, runs>>
      /\ log' = Recorded(r, "imported", {})
  BY DEF ImportReply
<1>1. /\ phase = "replies" /\ DOMAIN mem = MemoryFields /\ DOMAIN db = TableNames
      /\ RowsReported /\ RepliesAgree /\ BranchesOpen
      /\ \A x \in Unvisited : x \notin mem.visited /\ ~Reported(<<"replies", x>>)
  BY <1>0, InTheGraph DEF RepliesAgree
<1>2. /\ r \in Unvisited /\ r \in RepliesRead /\ OutcomesOf(r) = <<>>
      /\ DiscussionOf(r) = mem.cursor
  BY <1>0, PendingUnvisited, NotVisited DEF IInvR
<1>3. /\ mem'.cursor = mem.cursor /\ mem'.visited = mem.visited \cup {r}
      /\ mem'.frames = Append(mem.frames, Frame(mem.cursor, r))
      /\ mem'.topics = mem.topics /\ mem'.keys = mem.keys /\ mem'.latest = mem.latest
  BY <1>1 DEF ImportReply, Visit, MemoryFields
<1>4. /\ db'.topics = db.topics /\ db'.watches = db.watches
      /\ db'.reads = db.reads /\ db'.bans = db.bans
      /\ db'.posts = Put(db.posts, PostId(r), ParentId)
  BY <1>1 DEF ImportReply, TableNames
<1>5. /\ DOMAIN log' = DOMAIN log
      /\ OutcomesOf(r)' = <<"imported">>
      /\ \A q \in RepliesRead \ {r} : OutcomesOf(q)' = OutcomesOf(q)
      /\ \A t \in StageNames \ {"replies"} : SameOutcomes(t)
  <2>1. Append(<<>>, "imported") = <<"imported">>
    OBVIOUS
  <2>2. PICK none : none = {}
    OBVIOUS
  <2>3. none \subseteq Unvisited \ {r} /\ log' = Recorded(r, "imported", none)
    BY <1>0, <2>2
  <2>4. /\ DOMAIN log' = DOMAIN log
        /\ OutcomesOf(r)' = Append(OutcomesOf(r), "imported")
        /\ \A q \in RepliesRead \ (none \cup {r}) : OutcomesOf(q)' = OutcomesOf(q)
        /\ \A t \in StageNames \ {"replies"} : SameOutcomes(t)
    BY <1>0, <1>2, <2>3, RecordedOutcomes
  <2>5. QED
    BY <1>2, <2>1, <2>2, <2>4
<1>6. PICK n \in Nat : n = Len(mem.frames) /\ n >= 1
  BY <1>0, Frames, LenProperties DEF IInvR
<1>7. /\ mem'.frames # <<>> /\ Len(mem'.frames) = n + 1
      /\ \A k \in 1..n : mem'.frames[k] = mem.frames[k]
      /\ mem'.frames[n + 1].reply = r
  <2>1. Frame(mem.cursor, r) \in FrameSet
    <3>1. ChildrenOf(mem.cursor, r) \subseteq Key /\ r \in Key
      BY ReplyIds, ChildrenAreReplies DEF IInvR, IInv, Shapes
    <3>2. QED
      BY <3>1 DEF Frame, FrameSet
  <2>2. mem.frames \in Seq(FrameSet)
    BY <1>0, Frames DEF IInvR
  <2>3. mem'.frames[n + 1] = Frame(mem.cursor, r)
    BY <1>3, <1>6, <2>1, <2>2, AppendProperties
  <2>4. QED
    BY <1>3, <1>6, <2>1, <2>2, <2>3, AppendProperties DEF Frame
<1>8. InGraph'
  BY <1>0, <1>1, <1>7 DEF InGraph
<1>9. /\ RepliesRead' = RepliesRead
      /\ \A x : DiscussionOf(x)' = DiscussionOf(x) /\ PostId(x)' = PostId(x)
  BY <1>0, <1>5 DEF RepliesRead, Replies, DiscussionOf, PostId
<1>10. BranchesOpen'
  <2>1. ASSUME NEW k \in 2..n
        PROVE  /\ mem'.frames[k].reply = mem.frames[k].reply
               /\ mem.frames[k].reply \in mem.visited /\ mem.frames[k].reply # r
               /\ \A m \in 2..n : mem.frames[m].reply = mem.frames[k].reply => m = k
    <3>1. k \in 1..n
      BY <1>6
    <3>2. /\ mem.frames[k].reply \in mem.visited
          /\ \A m \in 2..n : mem.frames[m].reply = mem.frames[k].reply => m = k
      BY <1>1, <1>6 DEF BranchesOpen
    <3>3. r \notin mem.visited
      BY <1>1, <1>2
    <3>4. QED
      BY <1>7, <3>1, <3>2, <3>3
  <2>2. \A k \in 2..(n + 1) : k \in 2..n \/ k = n + 1
    BY <1>6
  <2>3. ASSUME NEW k \in 2..(n + 1), NEW x, x = mem'.frames[k].reply
        PROVE  /\ x \in mem'.visited /\ DiscussionOf(x) = mem.cursor
               /\ x \in RepliesRead /\ OutcomesOf(x)' = <<"imported">>
               /\ \A m \in 2..(n + 1) : mem'.frames[m].reply = x => m = k
    <3>1. CASE k = n + 1
      BY <1>2, <1>3, <1>5, <1>7, <2>1, <2>2, <2>3, <3>1
    <3>2. CASE k \in 2..n
      <4>1. x = mem.frames[k].reply /\ x # r
        BY <2>1, <2>3, <3>2
      <4>2. /\ x \in mem.visited /\ DiscussionOf(x) = mem.cursor
            /\ x \in RepliesRead /\ OutcomesOf(x) = <<"imported">>
        BY <1>1, <1>6, <3>2, <4>1 DEF BranchesOpen
      <4>3. \A m \in 2..(n + 1) : mem'.frames[m].reply = x => m = k
        BY <1>7, <2>1, <2>2, <3>2, <4>1
      <4>4. QED
        BY <1>3, <1>5, <4>1, <4>2, <4>3
    <3>3. QED
      BY <2>2, <3>1, <3>2
  <2>4. QED
    BY <1>3, <1>7, <1>9, <2>3 DEF BranchesOpen
<1>11. GraphSettles({r}, {}, {})
  BY <1>2, <1>3, <1>5 DEF GraphSettles, Single, Outcomes
<1>12. ReportedIn("replies")' = ReportedIn("replies") \cup {r}
  <2>1. Reported(<<"replies", r>>)'
    <3>1. /\ <<"replies", r>> \in DOMAIN log' /\ log'[<<"replies", r>>] = <<"imported">>
      BY <1>2, <1>5 DEF RepliesRead, OutcomesOf
    <3>2. QED
      BY <3>1 DEF Reported
  <2>2. ASSUME NEW x \in Replies \ {r}
        PROVE  Reported(<<"replies", x>>)' <=> Reported(<<"replies", x>>)
    <3>1. CASE x \in RepliesRead
      BY <1>5, <2>2, <3>1 DEF Reported, OutcomesOf
    <3>2. CASE x \notin RepliesRead
      BY <1>5, <2>2, <3>2 DEF Reported, RepliesRead
    <3>3. QED
      BY <3>1, <3>2
  <2>3. StageRows("replies")' = Replies /\ StageRows("replies") = Replies
    BY <1>0, StageRowsFixed, StagesAre DEF StageRows
  <2>4. QED
    BY <2>1, <2>2, <2>3 DEF ReportedIn
<1>13. RepliesAgree'
  <2>1. /\ \A x \in RepliesRead' :
              IF Settled(x)' THEN Accounted(x)' ELSE OutcomesOf(x)' = <<>>
        /\ \A x, y \in RepliesRead' :
              /\ Settled(x)' /\ Settled(y)'
              /\ OutcomesOf(x)' = <<>> /\ OutcomesOf(y)' = <<>>
              /\ ParentOf(x)' = ParentOf(y)'
              => x = y
    BY <1>0, <1>3, <1>5, <1>8, <1>11, GraphAgrees
  <2>2. DOMAIN db'.posts = {PostId(x)' : x \in ReportedIn("replies")'}
    BY <1>1, <1>4, <1>9, <1>12 DEF RepliesAgree, Put
  <2>3. QED
    BY <1>10, <2>1, <2>2 DEF RepliesAgree
<1>14. RowsReported'
  BY <1>0, <1>1, <1>3, <1>5, SameRowsRead
<1>15. TopicsAgree' /\ WatchesAgree' /\ ReadsAgree' /\ BansAgree'
  BY <1>0, <1>1, <1>3, <1>4, <1>5, OtherStages
<1>16. QED
  BY <1>0, <1>1, <1>13, <1>14, <1>15 DEF ReportAgrees

\* The replies of the next discussion join the report.
LEMMA ScanReport ==
  ASSUME IInvR, NEW d \in ReadDiscussions, ScanDiscussion(d)
  PROVE  ReportAgrees'
<1>0. /\ phase = "replies" /\ IsNext("replies", d) /\ mem.frames = <<>>
      /\ UNCHANGED <<source, db, phase, runs>> /\ phase \in StageNames
  BY StagesAre DEF ScanDiscussion, IsNext
<1>1. /\ RowsReported /\ RepliesAgree /\ DOMAIN mem = MemoryFields
      /\ source \in Sources /\ ~InGraph /\ mem.cursor \in Nat
  BY <1>0, InStage DEF InGraph, RowsReported
<1>2. PICK start, new :
         /\ new = RepliesOf(d)
         /\ start = IF d \in mem.topics THEN <<>> ELSE <<"skipped">>
         /\ DOMAIN log' = DOMAIN log \cup {<<"replies", r>> : r \in new}
         /\ \A r \in new : log'[<<"replies", r>>] = start
         /\ \A row \in DOMAIN log : row \notin {<<"replies", r>> : r \in new}
                                       => log'[row] = log[row]
  BY DEF ScanDiscussion
<1>3. /\ mem'.cursor = d /\ mem'.visited = {}
      /\ mem'.frames = IF d \in mem.topics THEN <<Frame(d, Root)>> ELSE <<>>
      /\ mem'.topics = mem.topics /\ mem'.keys = mem.keys /\ mem'.latest = mem.latest
  BY <1>1 DEF ScanDiscussion, MemoryFields
<1>4. /\ new \subseteq Replies /\ \A r \in Replies : r \in new <=> DiscussionOf(r) = d
  BY <1>2 DEF RepliesOf, Replies, DiscussionOf
<1>5. /\ d \in Nat \ {0} /\ d > mem.cursor
      /\ \A r \in Replies : /\ DiscussionOf(r) \in Nat
                            /\ DiscussionOf(r) <= d
                                  <=> DiscussionOf(r) <= mem.cursor \/ DiscussionOf(r) = d
  <2>1. Over("topics")
    BY <1>0 DEF Over, Position
  <2>2. Rows("replies") = DOMAIN source.discussions
    BY <1>1, <2>1, DiscussionsRead DEF Rows
  <2>3. Rows("replies") \subseteq Nat \ {0}
    BY <1>1, <2>2, ReplyIds DEF Key
  <2>4. /\ d \in Rows("replies") /\ d > mem.cursor
        /\ \A j \in Rows("replies") : j > mem.cursor => d <= j
    BY <1>0 DEF IsNext, Ahead
  <2>5. \A r \in Replies : DiscussionOf(r) \in Rows("replies")
    BY <1>1, <2>2, ReplyIds
  <2>6. ASSUME NEW j \in Rows("replies")
        PROVE  j <= d <=> j <= mem.cursor \/ j = d
    BY <1>1, <2>3, <2>4
  <2>7. QED
    BY <2>3, <2>4, <2>5, <2>6
<1>6. \A t \in StageNames \ {"replies"} : SameOutcomes(t)
  BY <1>2 DEF SameOutcomes
<1>7. RowsReported'
  <2>1. \A t \in StageNames \ {"replies"} : RowsRead(t)' = RowsRead(t)
    BY <1>0, StageRowsFixed, OverIsFixed DEF RowsRead
  <2>2. RowsRead("replies") = {r \in Replies : DiscussionOf(r) <= mem.cursor}
    BY <1>0, NotOverYet DEF RowsRead, StageRows, QueryKey
  <2>3. RowsRead("replies")' = {r \in Replies : DiscussionOf(r) <= d}
    <3>1. /\ StageRows("replies")' = Replies /\ ~Over("replies")'
          /\ \A r : QueryKey("replies", r)' = DiscussionOf(r)
      BY <1>0, StageRowsFixed, OverIsFixed, NotOverYet DEF StageRows, QueryKey
    <3>2. QED
      BY <1>0, <1>3, <3>1 DEF RowsRead
  <2>4. RowsRead("replies")' = RowsRead("replies") \cup new
    BY <1>4, <1>5, <2>2, <2>3
  <2>5. QED
    BY <1>0, <1>1, <1>2, <1>3, <1>5, <2>1, <2>4 DEF RowsReported
<1>8. \A r \in RepliesRead : r \notin new /\ r \in Replies
  <2>1. ASSUME NEW r \in RepliesRead PROVE r \in RowsRead("replies")
    BY <1>1, <2>1 DEF RowsReported, RepliesRead
  <2>2. \A r \in RowsRead("replies") : r \in Replies /\ DiscussionOf(r) <= mem.cursor
    BY <1>0, NotOverYet DEF RowsRead, StageRows, QueryKey
  <2>3. QED
    BY <1>1, <1>4, <1>5, <2>1, <2>2
<1>9. /\ RepliesRead' = RepliesRead \cup new
      /\ \A r \in RepliesRead : OutcomesOf(r)' = OutcomesOf(r)
      /\ \A r \in new : OutcomesOf(r)' = start
  <2>1. Replies' = Replies
    BY <1>0, StageRowsFixed
  <2>2. RepliesRead' = RepliesRead \cup new
    BY <1>2, <1>4, <2>1 DEF RepliesRead
  <2>3. QED
    BY <1>2, <1>8, <2>2 DEF RepliesRead, OutcomesOf
<1>10. /\ \A r : ParentOf(r)' = ParentOf(r) /\ DiscussionOf(r)' = DiscussionOf(r)
       /\ Replies' = Replies
  BY <1>0 DEF ParentOf, DiscussionOf, Replies
<1>11. /\ InGraph' <=> d \in mem.topics
       /\ \A r \in RepliesRead : Settled(r) /\ Settled(r)'
       /\ \A r \in new : Settled(r)' <=> d \notin mem.topics
  <2>1. InGraph' <=> d \in mem.topics
    BY <1>0, <1>3 DEF InGraph
  <2>2. QED
    BY <1>1, <1>3, <1>4, <1>8, <1>10, <2>1 DEF Settled
<1>12. ASSUME NEW r \in RepliesRead
       PROVE  Accounted(r)'
  <2>1. Accounted(r)
    BY <1>1, <1>11 DEF RepliesAgree
  <2>2. CASE Unrecorded(r)
    <3>1. PICK p : p = ParentOf(r)
      OBVIOUS
    <3>2. p \in RepliesRead /\ DiscussionOf(p) = DiscussionOf(r)
          /\ OutcomesOf(p) = CaughtLookup
      BY <2>2, <3>1 DEF Unrecorded, RepliesRead
    <3>3. OutcomesOf(p)' = CaughtLookup /\ p \in RepliesRead'
      BY <1>9, <3>2
    <3>4. Unrecorded(r)'
      BY <1>9, <1>10, <2>2, <3>1, <3>2, <3>3 DEF Unrecorded, RepliesRead
    <3>5. QED
      BY <3>4 DEF Accounted
  <2>3. CASE ~Unrecorded(r)
    BY <1>9, <2>1, <2>3 DEF Accounted, CaughtLookup, Single
  <2>4. QED
    BY <2>2, <2>3
<1>13. ASSUME NEW r \in new
       PROVE  IF Settled(r)' THEN Accounted(r)' /\ OutcomesOf(r)' # <<>>
                             ELSE OutcomesOf(r)' = <<>>
  <2>1. <<"skipped">> \in Single /\ <<"skipped">> # <<>>
    BY DEF Single, Outcomes
  <2>2. QED
    BY <1>2, <1>9, <1>11, <2>1 DEF Accounted, Single
<1>14. ReportedIn("replies")' = ReportedIn("replies")
  <2>1. ASSUME NEW r \in Replies
        PROVE  Reported(<<"replies", r>>)' <=> Reported(<<"replies", r>>)
    <3>1. CASE r \in new
      <4>1. r \notin RepliesRead
        BY <1>8, <3>1
      <4>2. ~Reported(<<"replies", r>>)
        BY <4>1 DEF Reported, RepliesRead
      <4>3. log'[<<"replies", r>>] \in {<<>>, <<"skipped">>}
        BY <1>2, <3>1
      <4>4. ~Reported(<<"replies", r>>)'
        BY <4>3 DEF Reported
      <4>5. QED
        BY <4>2, <4>4
    <3>2. CASE r \in RepliesRead
      BY <1>9, <3>2 DEF Reported, OutcomesOf, RepliesRead
    <3>3. CASE r \notin RepliesRead \cup new
      BY <1>9, <1>10, <3>3 DEF Reported, RepliesRead
    <3>4. QED
      BY <3>1, <3>2, <3>3
  <2>2. StageRows("replies")' = Replies /\ StageRows("replies") = Replies
    BY <1>0, StageRowsFixed, StagesAre DEF StageRows
  <2>3. QED
    BY <2>1, <2>2 DEF ReportedIn
<1>15. RepliesAgree'
  <2>1. DOMAIN db'.posts = {PostId(r) : r \in ReportedIn("replies")}'
    BY <1>0, <1>1, <1>14 DEF RepliesAgree, PostId
  <2>2. \A r, q \in RepliesRead' :
           /\ Settled(r)' /\ Settled(q)'
           /\ OutcomesOf(r)' = <<>> /\ OutcomesOf(q)' = <<>>
           /\ ParentOf(r)' = ParentOf(q)'
           => r = q
    <3>1. \A r, q \in RepliesRead :
             OutcomesOf(r) = <<>> /\ OutcomesOf(q) = <<>> /\ ParentOf(r) = ParentOf(q) => r = q
      BY <1>1, <1>11 DEF RepliesAgree
    <3>2. QED
      BY <1>9, <1>10, <1>13, <3>1
  <2>3. InGraph' => BranchesOpen'
    <3>1. ASSUME InGraph' PROVE Len(mem'.frames) = 1
      BY <1>3, <1>11, <3>1
    <3>2. 2..1 = {}
      OBVIOUS
    <3>3. QED
      BY <3>1, <3>2 DEF BranchesOpen
  <2>4. \A r \in RepliesRead' : IF Settled(r)' THEN Accounted(r)' ELSE OutcomesOf(r)' = <<>>
    BY <1>9, <1>11, <1>12, <1>13
  <2>5. QED
    BY <2>1, <2>2, <2>3, <2>4 DEF RepliesAgree
<1>16. TopicsAgree' /\ WatchesAgree' /\ ReadsAgree' /\ BansAgree'
  BY <1>0, <1>3, <1>6, OtherStages
<1>17. QED
  BY <1>0, <1>7, <1>15, <1>16 DEF ReportAgrees

-----------------------------------------------------------------------------
(* The invariant of the report, and what it implies when a run completes.  *)

LEMMA NextReport == IInvR /\ [Next]_vars => ReportAgrees'
<1> SUFFICES ASSUME IInvR, [Next]_vars PROVE ReportAgrees'
  OBVIOUS
<1>1. CASE Start \/ PreflightFails \/ Abort \/ Crash \/ Wipe
  BY <1>1, ControlReport
<1>2. CASE PreflightPasses
  BY <1>2, PreflightPassesReport
<1>3. CASE EndStage
  BY <1>3, EndStageReport
<1>4. CASE Flush
  BY <1>4, FlushReport
<1>5. CASE \E d \in DOMAIN source.discussions : ImportTopic(d)
  BY <1>5, ImportTopicReport
<1>6. CASE ReplyStep
  BY <1>6, ScanReport, ImportReplyReport, SkippedReport, LookupThrowsReport,
     ReturnReport, EndGraphReport DEF ReplyStep, Replies
<1>7. CASE StateStep
  BY <1>7, ImportWatchReport, CollectReadStateReport, WriteReadStateReport DEF StateStep
<1>8. CASE (\E u \in source.banned : ImportMemberBan(u))
           \/ (\E b \in DOMAIN source.rules : ImportIpBan(b))
  BY <1>8, ImportBanReport
<1>9. CASE UNCHANGED vars
  <2>1. UNCHANGED <<source, db, phase, mem, log, runs, faults>>
    BY <1>9 DEF vars
  <2>2. CASE phase \notin Counting
    BY <2>1, <2>2 DEF IInvR, ReportAgrees
  <2>3. CASE phase \in Counting
    <3>1. /\ RowsReported /\ TopicsAgree /\ RepliesAgree /\ WatchesAgree
          /\ ReadsAgree /\ BansAgree
      BY <2>3 DEF IInvR, ReportAgrees
    <3>2. RowsReported'
      BY <2>1, <3>1, SameRowsRead
    <3>3. \A t : SameOutcomes(t)
      BY <2>1 DEF SameOutcomes
    <3>4. TopicsAgree' /\ WatchesAgree' /\ BansAgree'
      BY <2>1, <3>1, <3>3, SameTopics, SameWatches, SameBans
    <3>5. ReadsAgree'
      <4>1. Over("readState")' => DOMAIN mem.latest = {}
        BY <2>1, <3>1, OverIsFixed DEF ReadsAgree
      <4>2. AllRead => AllRead'
        BY <2>1, OverIsFixed, StageRowsFixed DEF AllRead, Ahead
      <4>3. QED
        BY <2>1, <3>1, <3>3, <4>1, <4>2, SameReads
    <3>6. RepliesAgree'
      <4>1. CASE ~InGraph
        BY <2>1, <3>1, <3>3, <4>1, SameReplies DEF InGraph
      <4>2. CASE InGraph
        <5>1. /\ \A r : OutcomesOf(r)' = OutcomesOf(r)
              /\ mem'.cursor = mem.cursor /\ mem'.visited = mem.visited
              /\ mem'.frames = mem.frames /\ DOMAIN log' = DOMAIN log
          BY <2>1 DEF OutcomesOf
        <5>2. BranchesOpen' /\ InGraph'
          BY <2>1, <4>2, <5>1, BranchesStay
        <5>3. GraphSettles({}, {}, {})
          BY <5>1 DEF GraphSettles
        <5>4. /\ \A r \in RepliesRead' :
                    IF Settled(r)' THEN Accounted(r)' ELSE OutcomesOf(r)' = <<>>
              /\ \A r, q \in RepliesRead' :
                    /\ Settled(r)' /\ Settled(q)'
                    /\ OutcomesOf(r)' = <<>> /\ OutcomesOf(q)' = <<>>
                    /\ ParentOf(r)' = ParentOf(q)'
                    => r = q
          BY <2>1, <4>2, <5>1, <5>2, <5>3, GraphAgrees
        <5>5. ReportedIn("replies")' = ReportedIn("replies")
          BY <2>1, <3>3, SameReported, StagesAre
        <5>6. QED
          BY <2>1, <3>1, <5>2, <5>4, <5>5 DEF RepliesAgree, PostId
      <4>3. QED
        BY <4>1, <4>2
    <3>7. QED
      BY <2>1, <2>3, <3>2, <3>4, <3>5, <3>6, CountingPhases DEF ReportAgrees
  <2>4. QED
    BY <2>2, <2>3
<1>10. QED
  BY <1>1, <1>2, <1>3, <1>4, <1>5, <1>6, <1>7, <1>8, <1>9 DEF Next, RunStep

LEMMA ReportInvariance == Spec => []IInvR
<1>1. Init => ReportAgrees
  BY CountingPhases, StagesAre DEF Init, ReportAgrees, Counting, Importing
<1>2. Init => IInvR
  BY <1>1, InitIInv DEF IInvR
<1>3. IInvR /\ [Next]_vars => IInvR'
  BY NextIInv, NextReport DEF IInvR
<1>4. QED
  BY <1>2, <1>3, PTL DEF Spec

\* A completed run has read every row of every stage.
LEMMA CompletedRun ==
  ASSUME IInvR, phase = "completed"
  PROVE  /\ RowsReported /\ TopicsAgree /\ RepliesAgree /\ WatchesAgree
         /\ ReadsAgree /\ BansAgree /\ source \in Sources
         /\ \A stage \in StageNames : RowsRead(stage) = StageRows(stage)
         /\ DOMAIN mem.latest = {} /\ RepliesRead = Replies
         /\ \A r : Settled(r)
<1>1. /\ RowsReported /\ TopicsAgree /\ RepliesAgree /\ WatchesAgree
      /\ ReadsAgree /\ BansAgree /\ source \in Sources
  BY CountingPhases DEF IInvR, ReportAgrees, IInv, Shapes
<1>2. \A stage \in StageNames : Over(stage)
  BY StagesAre DEF Over, Position
<1>3. \A stage \in StageNames : RowsRead(stage) = StageRows(stage)
  BY <1>2 DEF RowsRead
<1>4. RepliesRead = Replies
  BY <1>1, <1>3, StagesAre DEF RowsReported, RepliesRead, StageRows
<1>5. QED
  BY <1>1, <1>2, <1>3, <1>4, StagesAre DEF ReadsAgree, Settled, InGraph

\* A completed run read every row of the source and gave it one outcome; only
\* a lookup that threw below a reply leaves that reply with two and one of its
\* children with none (the recording of VanillaImportReportService).
THEOREM RowsAreCounted == Spec => []EachRowCountedOnce
<1>1. ASSUME IInvR, phase = "completed"
      PROVE  EachRowCountedOnce
  <2>0. /\ RowsReported /\ TopicsAgree /\ RepliesAgree /\ WatchesAgree
        /\ ReadsAgree /\ BansAgree /\ DOMAIN mem.latest = {} /\ RepliesRead = Replies
        /\ \A r : Settled(r)
        /\ \A stage \in StageNames : RowsRead(stage) = StageRows(stage)
    BY <1>1, CompletedRun
  <2>1. /\ StageRows("topics") = DOMAIN source.discussions
        /\ StageRows("replies") = Replies
        /\ StageRows("watches") = Rows("watches")
        /\ StageRows("readState") = Rows("readState")
        /\ StageRows("memberBans") = source.banned
        /\ StageRows("ipBans") = DOMAIN source.rules
    BY DEF StageRows, Rows
  <2>2. \A row \in DOMAIN log :
           \E stage \in StageNames : \E k \in StageRows(stage) : row = <<stage, k>>
    BY <2>0 DEF RowsReported
  <2>3. DOMAIN log = RowsToCount
    <3>1. \A row \in DOMAIN log : row \in RowsToCount
      BY <2>1, <2>2, StagesAre DEF RowsToCount
    <3>2. \A stage \in StageNames : \A k \in StageRows(stage) : <<stage, k>> \in DOMAIN log
      BY <2>0 DEF RowsReported
    <3>3. \A row \in RowsToCount : row \in DOMAIN log
      BY <2>1, <3>2, StagesAre DEF RowsToCount
    <3>4. QED
      BY <3>1, <3>3
  <2>4. ASSUME NEW s \in Single
        PROVE  Len(s) = 1
    BY DEF Single
  <2>5. ASSUME NEW row \in DOMAIN log
        PROVE  \/ Len(log[row]) = 1
               \/ row[1] = "replies" /\ log[row] = CaughtLookup
               \/ /\ row[1] = "replies" /\ log[row] = <<>>
                  /\ log[<<"replies", ParentOf(row[2])>>] = CaughtLookup
    <3>0. PICK stage \in StageNames : \E k \in StageRows(stage) : row = <<stage, k>>
      BY <2>2
    <3>1. PICK k \in StageRows(stage) : row = <<stage, k>>
      BY <3>0
    <3>2. CASE stage \in {"topics", "watches", "memberBans", "ipBans"}
      <4>1. OneOutcome(stage)
        BY <2>0, <3>2 DEF TopicsAgree, WatchesAgree, BansAgree
      <4>2. log[row] \in Single
        BY <2>5, <3>1, <4>1 DEF OneOutcome
      <4>3. QED
        BY <2>4, <4>2
    <3>3. CASE stage = "readState"
      <4>1. log[row] \in Single
        BY <2>0, <2>5, <3>1, <3>3 DEF ReadsAgree, WaitsOrOneOutcome
      <4>2. QED
        BY <2>4, <4>1
    <3>4. CASE stage = "replies"
      <4>1. row = <<"replies", k>> /\ row[1] = "replies" /\ row[2] = k /\ k \in RepliesRead
        BY <2>0, <2>1, <3>1, <3>4
      <4>2. Accounted(k)
        BY <2>0, <4>1 DEF RepliesAgree
      <4>3. QED
        BY <2>4, <4>1, <4>2 DEF Accounted, Unrecorded, OutcomesOf
    <3>5. QED
      BY <3>2, <3>3, <3>4, StagesAre
  <2>6. \A r, q \in Replies :
           /\ log[<<"replies", r>>] = <<>> /\ log[<<"replies", q>>] = <<>>
           /\ ParentOf(r) = ParentOf(q)
           => r = q
    BY <2>0 DEF RepliesAgree, OutcomesOf
  <2>7. QED
    BY <2>3, <2>5, <2>6 DEF EachRowCountedOnce
<1>2. IInvR => EachRowCountedOnce
  BY <1>1 DEF EachRowCountedOnce
<1>3. QED
  BY <1>2, ReportInvariance, PTL

\* A set and its image under an injective function count the same.
LEMMA SameCount ==
  ASSUME NEW S, IsFiniteSet(S), NEW f, f = [x \in S |-> f[x]],
         \A x, y \in S : f[x] = f[y] => x = y
  PROVE  Cardinality({f[x] : x \in S}) = Cardinality(S)
<1> DEFINE T == {f[x] : x \in S}
<1>1. f \in Bijection(S, T)
  <2>1. f \in [S -> T]
    OBVIOUS
  <2>2. f \in Surjection(S, T)
    BY <2>1 DEF Surjection
  <2>3. f \in Injection(S, T)
    BY <2>1 DEF Injection, IsInjective
  <2>4. QED
    BY <2>2, <2>3 DEF Bijection
<1>2. ExistsBijection(S, T)
  BY <1>1 DEF ExistsBijection
<1>3. QED
  BY <1>2, FS_Bijection

\* What the report of a completed run lists as imported is what the target
\* holds, row for row (VanillaImportService and the five importers).
THEOREM ReportIsTrue == Spec => []ReportMatchesTarget
<1>1. ASSUME IInvR, phase = "completed"
      PROVE  ReportMatchesTarget
  <2> DEFINE W == {i \in Rows("watches") : Reported(<<"watches", i>>)}
             R == {i \in Rows("readState") : Reported(<<"readState", i>>)}
             B == {u \in source.banned : Reported(<<"memberBans", u>>)}
  <2>0. /\ TopicsAgree /\ RepliesAgree /\ WatchesAgree /\ ReadsAgree /\ BansAgree
        /\ source \in Sources
    BY <1>1, CompletedRun
  <2>1. /\ W = ReportedIn("watches") /\ R = ReportedIn("readState")
        /\ B = ReportedIn("memberBans")
        /\ ReportedIn("replies") = {r \in Replies : Reported(<<"replies", r>>)}
        /\ ReportedIn("topics") = {d \in DOMAIN source.discussions : Reported(<<"topics", d>>)}
    BY DEF ReportedIn, StageRows, Rows
  <2>2. IsFiniteSet(W) /\ IsFiniteSet(R) /\ IsFiniteSet(B)
    <3>1. \A stage \in StageNames : /\ IsFiniteSet(StageRows(stage))
                                    /\ ReportedIn(stage) \subseteq StageRows(stage)
      BY <2>0, StageKeys DEF ReportedIn
    <3>2. \A stage \in StageNames : IsFiniteSet(ReportedIn(stage))
      BY <3>1, FS_Subset
    <3>3. QED
      BY <2>1, <3>2, StagesAre
  <2>3. /\ db.topics = {TopicId(d) : d \in {x \in DOMAIN source.discussions :
                                              Reported(<<"topics", x>>)}}
        /\ DOMAIN db.posts = {PostId(r) : r \in {x \in Replies :
                                              Reported(<<"replies", x>>)}}
    BY <2>0, <2>1 DEF TopicsAgree, RepliesAgree
  <2>4. /\ db.watches = {StateKey(i) : i \in W}
        /\ DOMAIN db.reads = {StateKey(i) : i \in R}
        /\ db.bans = {MemberOf(u) : u \in B}
        /\ \A i, j \in W : StateKey(i) = StateKey(j) => i = j
        /\ \A i, j \in R : StateKey(i) = StateKey(j) => i = j
        /\ \A u, v \in B : MemberOf(u) = MemberOf(v) => u = v
    BY <2>0, <2>1 DEF WatchesAgree, ReadsAgree, BansAgree
  <2> HIDE DEF W, R, B
  <2>5. Cardinality(db.watches) = Cardinality(W)
    <3>1. PICK f : f = [i \in W |-> StateKey(i)]
      OBVIOUS
    <3>2. db.watches = {f[i] : i \in W} /\ \A i, j \in W : f[i] = f[j] => i = j
      BY <2>4, <3>1
    <3>3. QED
      BY <2>2, <3>1, <3>2, SameCount
  <2>6. Cardinality(DOMAIN db.reads) = Cardinality(R)
    <3>1. PICK f : f = [i \in R |-> StateKey(i)]
      OBVIOUS
    <3>2. DOMAIN db.reads = {f[i] : i \in R} /\ \A i, j \in R : f[i] = f[j] => i = j
      BY <2>4, <3>1
    <3>3. QED
      BY <2>2, <3>1, <3>2, SameCount
  <2>7. Cardinality(db.bans) = Cardinality(B)
    <3>1. PICK f : f = [u \in B |-> MemberOf(u)]
      OBVIOUS
    <3>2. db.bans = {f[u] : u \in B} /\ \A u, v \in B : f[u] = f[v] => u = v
      BY <2>4, <3>1
    <3>3. QED
      BY <2>2, <3>1, <3>2, SameCount
  <2>8. QED
    BY <2>3, <2>4, <2>5, <2>6, <2>7 DEF ReportMatchesTarget, W, R, B
<1>2. IInvR => ReportMatchesTarget
  BY <1>1 DEF ReportMatchesTarget
<1>3. QED
  BY <1>2, ReportInvariance, PTL

\* In whatever order the rows come and whichever writes fail, what is stored
\* for a topic and member is the latest time one of the member's legacy users
\* viewed the discussion (VanillaReadStateImportService).
THEOREM LatestIsStored == Spec => []LatestReadStateWins
<1>1. ASSUME IInvR, phase = "completed"
      PROVE  LatestReadStateWins
  <2>0. /\ ReadsAgree /\ RowsReported /\ DOMAIN mem.latest = {} /\ source \in Sources
        /\ RowsRead("readState") = Rows("readState")
    BY <1>1, CompletedRun, StagesAre DEF StageRows
  <2>1. ASSUME NEW i \in Rows("readState"), ~Unusable(i), NEW same, NEW newest,
               same = {j \in Rows("readState") : StateKey(j) = StateKey(i)},
               newest = CHOOSE t \in {ReadAt(j) : j \in same} :
                           \A j \in same : ReadAt(j) <= t
        PROVE  IF StateKey(i) \in DOMAIN db.reads
               THEN db.reads[StateKey(i)] = newest
               ELSE \E j \in same : ReadAt(j) = newest
                                    /\ log[<<"readState", j>>] = <<"failed">>
    <3>1. <<"readState", i>> \in DOMAIN log
      BY <2>0, StagesAre DEF RowsReported
    <3>2. NewestWritten(StateKey(i))
      BY <2>0, <2>1, <3>1 DEF ReadsAgree, NewestKept
    <3>3. PICK j \in same :
            /\ \A x \in same : ReadAt(x) <= ReadAt(j)
            /\ IF StateKey(i) \in DOMAIN db.reads
               THEN db.reads[StateKey(i)] = ReadAt(j)
               ELSE log[<<"readState", j>>] = <<"failed">>
      BY <2>1, <3>2 DEF NewestWritten
    <3>4. \A x \in same : ReadAt(x) \in Nat
      BY <2>0, <2>1, ReadTimes
    <3>5. /\ newest \in {ReadAt(x) : x \in same}
          /\ \A x \in same : ReadAt(x) <= newest
      BY <2>1, <3>3
    <3>6. newest = ReadAt(j)
      BY <3>3, <3>4, <3>5
    <3>7. QED
      BY <3>3, <3>6
  <2>2. QED
    BY <2>1 DEF LatestReadStateWins
<1>2. IInvR => LatestReadStateWins
  BY <1>1 DEF LatestReadStateWins
<1>3. QED
  BY <1>2, ReportInvariance, PTL
================================================================================
