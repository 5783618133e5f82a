-------------------------- MODULE WatchNotification --------------------------
(***************************************************************************)
(* Topic watches (TopicWatch), forum preferences (ChallengeForumWatch) and *)
(* the best-effort notification that follows the commit of a post.  The    *)
(* notification reads, each time after another await,                      *)
(*                                                                         *)
(*   the watch rows of the topic and its ancestors        ReadWatches      *)
(*   the forum preferences and the resource defaults      ReadPreferences  *)
(*   the email addresses of the candidates                LookUpMembers    *)
(*                                                                         *)
(* and then a bounded pool of workers, sharing one index, asks of every    *)
(* candidate whether it is banned and may see the topic.  Meanwhile        *)
(* members change their choices and moderators ban and unban.  What one    *)
(* notification reads, no other changes: one job at a time is enough.      *)
(*                                                                         *)
(* Topics and ancestors, resources, identity roles and addresses are       *)
(* constants; module ActiveBans says what a ban is.  A member stands for   *)
(* its address, and the challenge name and URL of the email are left out.  *)
(***************************************************************************)
EXTENDS ForumsPolicy, Integers, Sequences, FiniteSets, SequencesExt

CONSTANTS Members, Topics, Challenges,
          Chain,         \* topic -> itself and its ancestors
          Default,       \* challenge -> its submitters and copilots
          HasEmail,      \* members with a usable address
          Principal,     \* member -> its principal
          Restriction,   \* topic -> its effective restrictions
          Acl,           \* topic -> the category rules that govern it
          Facts,         \* [member, challenge] -> what the lookups return
          Concurrency,   \* RECIPIENT_AUTHORIZATION_CONCURRENCY
          Posting,       \* topics that receive a post: an instance's bound
          Authors,       \* authors of the posts; None is the system author
          Commands,      \* <<member, watch command>> issued: a bound
          Bannable       \* members a moderator bans: a bound

\* A watch command
Request == [op: {"watch", "unwatch"}, of: Topics]
             \cup [op: {"follow", "unfollow"}, of: Challenges]

ASSUME NotificationAssumption ==
  /\ None \notin Members \cup Topics \cup Challenges
  /\ Concurrency \in Nat \ {0}
  /\ Chain \in [Topics -> SUBSET Topics] /\ \A t \in Topics : t \in Chain[t]
  /\ \A t \in Topics : Restriction[t].challenge \in Challenges \cup {None}
  /\ Default \in [Challenges -> SUBSET Members]
  /\ HasEmail \subseteq Members /\ Commands \subseteq Members \X Request
  /\ Bannable \subseteq Members
  /\ Posting \subseteq Topics /\ Authors \subseteq Members \cup {None}
  /\ IsFiniteSet(Members)

VARIABLES watch,        \* the TopicWatch table: [topic, member] -> `watching'
          preference,   \* ChallengeForumWatch: [challenge, member] -> `watching'
          banned,       \* members with an active ban
          request,      \* member -> the watch command that passed its checks
          job,          \* the notification
          worker,       \* worker of the pool -> what it does
          touched       \* history: whose choices and bans moved since Begin

vars == <<watch, preference, banned, request, job, worker, touched>>

Workers == 1..Concurrency

\* The `watching' column, or None where there is no row
Choice == BOOLEAN \cup {None}

\* What the pool has found out of a candidate
Results == {"pending", "refused", "failed", "mail"}

Job == [pc: {"watches", "preferences", "members", "pool", "done"},
        topic: Topics, author: Members \cup {None},
        watching: SUBSET Members, muted: SUBSET Members,
        queue: Seq(Members), next: Nat, result: Seq(Results),
        sent: SUBSET Members, failed: SUBSET Members]

Idle == [pc |-> "idle"]

Worker == [pc: {"bans", "roles"}, at: Nat]

TypeOK ==
  /\ watch \in [Topics \X Members -> Choice]
  /\ preference \in [Challenges \X Members -> Choice]
  /\ banned \subseteq Members
  /\ request \in [Members -> Request \cup {None}]
  /\ job \in Job \cup {Idle}
  /\ worker \in [Workers -> Worker \cup {Idle}]
  /\ \A w \in Workers : worker[w] # Idle =>
       job.pc = "pool" /\ worker[w].at \in 1..Len(job.queue)
  /\ touched \subseteq Members \X {"choices", "ban"}

-----------------------------------------------------------------------------
(* Watching                                                                *)

ChallengeOf(t) == Restriction[t].challenge

MaySee(m, t) ==
  CanView(Principal[m], TRUE, Acl[t], Restriction[t], Facts[m, ChallengeOf(t)])

MayFollow(m, c) ==
  Sees(Principal[m], [challenge |-> c, role |-> None, conflict |-> FALSE],
       Facts[m, c])

\* isWatching: the saved preference, else the resource-based default
IsWatching(c, m) ==
  IF preference[c, m] = None THEN m \in Default[c] ELSE preference[c, m]

\* The `watching' flag that topic detail and the lists show a member
ShownWatching(t, m) ==
  IF watch[t, m] # None THEN watch[t, m]
  ELSE ChallengeOf(t) # None /\ IsWatching(ChallengeOf(t), m)

\* getWatcherMemberIds: the defaults, corrected by the saved preferences
Followers(c) ==
  (Default[c] \cup {m \in Members : preference[c, m] = TRUE})
    \ {m \in Members : preference[c, m] = FALSE}

-----------------------------------------------------------------------------
(* Members choose and moderators ban                                       *)

Touch(m, what) == touched' = touched \cup {<<m, what>>}

\* The checks of addTopicWatch, removeTopicWatch and watchState
BeginCommand(m, q) ==
  /\ request[m] = None
  /\ m \notin banned
  /\ IF q.op \in {"watch", "unwatch"} THEN MaySee(m, q.of)
                                      ELSE MayFollow(m, q.of)
  /\ request' = [request EXCEPT ![m] = q]
  /\ UNCHANGED <<watch, preference, banned, job, worker, touched>>

\* Only challenge topics have a forum preference that an opt-out must outlive;
\* on general topics the row is deleted.
CommitWatch(m) ==
  LET q == request[m]
  IN /\ q # None /\ q.op \in {"watch", "unwatch"}
     /\ watch' = [watch EXCEPT ![<<q.of, m>>] =
          CASE q.op = "watch" -> TRUE
            [] q.op = "unwatch" /\ ChallengeOf(q.of) # None -> FALSE
            [] OTHER -> None]
     /\ Touch(m, "choices")
     /\ request' = [request EXCEPT ![m] = None]
     /\ UNCHANGED <<preference, banned, job, worker>>

CommitPreference(m) ==
  LET q == request[m]
  IN /\ q # None /\ q.op \in {"follow", "unfollow"}
     /\ preference' = [preference EXCEPT ![<<q.of, m>>] = (q.op = "follow")]
     /\ Touch(m, "choices")
     /\ request' = [request EXCEPT ![m] = None]
     /\ UNCHANGED <<watch, banned, job, worker>>

Ban(m) ==
  /\ m \notin banned
  /\ banned' = banned \cup {m}
  /\ Touch(m, "ban")
  /\ UNCHANGED <<watch, preference, request, job, worker>>

Unban(m) ==
  /\ m \in banned
  /\ banned' = banned \ {m}
  /\ Touch(m, "ban")
  /\ UNCHANGED <<watch, preference, request, job, worker>>

-----------------------------------------------------------------------------
(* The notification                                                        *)

Outside == <<watch, preference, banned, request>>

\* A post was committed; the command now publishes.
Begin(t, author) ==
  /\ job.pc \in {"idle", "done"}
  /\ job' = [pc |-> "watches", topic |-> t, author |-> author,
             watching |-> {}, muted |-> {}, queue |-> <<>>, next |-> 1,
             result |-> <<>>, sent |-> {}, failed |-> {}]
  /\ touched' = {}
  /\ UNCHANGED <<Outside, worker>>

ReadWatches ==
  /\ job.pc = "watches"
  /\ job' = [job EXCEPT
       !.pc = "preferences",
       !.watching = {m \in Members : \E t \in Chain[job.topic] :
                       watch[t, m] = TRUE},
       !.muted = {m \in Members : watch[job.topic, m] = FALSE}]
  /\ UNCHANGED <<Outside, worker, touched>>

\* Mutant of Candidates: an opt-out cancels topic watches only.
CandidatesFollowing(followers) ==
  ((job.watching \ job.muted) \cup followers) \ {job.author}

\* resolveWatcherMemberIds: opt-outs on the topic also cancel the forum's.
Candidates(followers) ==
  (job.watching \cup followers) \ (job.muted \cup {job.author})

ReadPreferences ==
  LET c == ChallengeOf(job.topic)
      found == Candidates(IF c = None THEN {} ELSE Followers(c))
  IN /\ job.pc = "preferences"
     /\ job' = [job EXCEPT !.pc = IF found = {} THEN "done" ELSE "members",
                           !.watching = found, !.muted = {}]
     /\ UNCHANGED <<Outside, worker, touched>>

LookUpMembers ==
  LET queue == SetToSeq(job.watching \cap HasEmail)
  IN /\ job.pc = "members"
     /\ job' = [job EXCEPT !.pc = "pool", !.queue = queue, !.watching = {},
                           !.result = [i \in 1..Len(queue) |-> "pending"]]
     /\ UNCHANGED <<Outside, worker, touched>>

\* Mutant of Take: the shared index is advanced after the await only.
TakeWithoutAdvance(w) ==
  /\ job.pc = "pool" /\ worker[w] = Idle
  /\ w <= Len(job.queue)
  /\ job.next <= Len(job.queue)
  /\ worker' = [worker EXCEPT ![w] = [pc |-> "bans", at |-> job.next]]
  /\ UNCHANGED <<Outside, job, touched>>

\* Mutant of Take: the comparison is off by one.
TakePastEnd(w) ==
  /\ job.pc = "pool" /\ worker[w] = Idle
  /\ w <= Len(job.queue)
  /\ job.next <= Len(job.queue) + 1
  /\ worker' = [worker EXCEPT ![w] = [pc |-> "bans", at |-> job.next]]
  /\ job' = [job EXCEPT !.next = @ + 1]
  /\ UNCHANGED <<Outside, touched>>

\* mapWithBoundedConcurrency: at most as many workers as items; comparing and
\* advancing the shared index happen without an await in between.
Take(w) ==
  /\ job.pc = "pool" /\ worker[w] = Idle
  /\ w <= Len(job.queue)
  /\ job.next <= Len(job.queue)
  /\ worker' = [worker EXCEPT ![w] = [pc |-> "bans", at |-> job.next]]
  /\ job' = [job EXCEPT !.next = @ + 1]
  /\ UNCHANGED <<Outside, touched>>

Answer(w, r) ==
  /\ job' = [job EXCEPT !.result[worker[w].at] = r]
  /\ worker' = [worker EXCEPT ![w] = Idle]

Candidate(w) == job.queue[worker[w].at]

CheckBan(w) ==
  /\ worker[w].pc = "bans"
  /\ IF Candidate(w) \in banned
     THEN Answer(w, "refused")
     ELSE worker' = [worker EXCEPT ![w].pc = "roles"] /\ UNCHANGED job
  /\ UNCHANGED <<Outside, touched>>

CheckRoles(w) ==
  /\ worker[w].pc = "roles"
  /\ Answer(w, IF MaySee(Candidate(w), job.topic) THEN "mail" ELSE "refused")
  /\ UNCHANGED <<Outside, touched>>

\* Mutant of LookupFails: the candidate is asked about again.
LookupRetries(w) ==
  /\ worker[w] # Idle
  /\ worker' = [worker EXCEPT ![w].pc = "bans"]
  /\ UNCHANGED <<Outside, job, touched>>

\* One candidate's lookup throws: the candidate is skipped.
LookupFails(w) ==
  /\ worker[w] # Idle
  /\ Answer(w, "failed")
  /\ UNCHANGED <<Outside, touched>>

With(r) == {job.queue[i] : i \in {j \in 1..Len(job.queue) :
                                 job.result[j] = r}}

\* All workers have returned; nobody to mail is not published.
Publish ==
  /\ job.pc = "pool"
  /\ job.next > Len(job.queue) /\ \A w \in Workers : worker[w] = Idle
  /\ job' = [job EXCEPT !.pc = "done", !.queue = <<>>, !.next = 1,
                        !.result = <<>>,
                        !.sent = With("mail"), !.failed = With("failed")]
  /\ UNCHANGED <<Outside, worker, touched>>

\* A read outside the pool or the event bus fails, or the process dies: the
\* command has committed already, logs the error and does not retry.
Abandon ==
  /\ job.pc \notin {"idle", "done"}
  /\ job' = Idle
  /\ worker' = [w \in Workers |-> Idle]
  /\ UNCHANGED <<Outside, touched>>

-----------------------------------------------------------------------------
Init ==
  /\ watch = [x \in Topics \X Members |-> None]
  /\ preference = [x \in Challenges \X Members |-> None]
  /\ banned = {}
  /\ request = [m \in Members |-> None]
  /\ job = Idle
  /\ worker = [w \in Workers |-> Idle]
  /\ touched = {}

JobStep == ReadWatches \/ ReadPreferences \/ LookUpMembers \/ Publish

WorkerStep(w) == Take(w) \/ CheckBan(w) \/ CheckRoles(w)

Next ==
  \/ \E c \in Commands : BeginCommand(c[1], c[2])
  \/ \E m \in Members : CommitWatch(m)
  \/ \E m \in Members : CommitPreference(m)
  \/ \E m \in Bannable : Ban(m)
  \/ \E m \in Bannable : Unban(m)
  \/ \E t \in Posting, author \in Authors : Begin(t, author)
  \/ JobStep
  \/ \E w \in Workers : WorkerStep(w)
  \/ \E w \in Workers : LookupFails(w)
  \/ Abandon

Spec == Init /\ [][Next]_vars

\* Every awaited call of the notification returns or throws.  Nothing is
\* assumed of members and moderators.
FairSpec ==
  /\ Spec
  /\ WF_vars(JobStep)
  /\ \A w \in Workers : WF_vars(WorkerStep(w))

-----------------------------------------------------------------------------
(* Properties                                                              *)

Busy(w) == worker[w] # Idle

\* The pool asks of every candidate once: no two workers hold one item, an item
\* that was taken is held or answered, and no other is.
PoolTakesEachOnce ==
  job.pc = "pool" =>
    \A i \in 1..Len(job.queue) :
      LET holders == {w \in Workers : Busy(w) /\ worker[w].at = i}
      IN /\ Cardinality(holders) <= 1
         /\ job.result[i] = "pending" <=> i >= job.next \/ holders # {}

\* Topic detail shows m as watching, or m watches an ancestor; an opt-out on
\* the topic itself overrides both.
Watches(m, t) ==
  /\ watch[t, m] # FALSE
  /\ ShownWatching(t, m) \/ \E a \in Chain[t] : watch[a, m] = TRUE

\* The email goes to whom the members' choices say, although they are read one
\* table after the other: whoever changed no choice meanwhile is mailed only
\* while watching, whoever was banned throughout is not mailed, and whoever
\* changed nothing, is not banned, sees the topic, has an address and suffered
\* no failed lookup is mailed.
RecipientsAreRight ==
  job.pc = "done" =>
    \A m \in Members :
      LET chosen == m # job.author /\ Watches(m, job.topic)
          able == m \in HasEmail /\ MaySee(m, job.topic)
      IN /\ m \in job.sent =>
              /\ able /\ m # job.author
              /\ <<m, "choices">> \notin touched => chosen
              /\ <<m, "ban">> \notin touched => m \notin banned
         /\ /\ <<m, "choices">> \notin touched /\ <<m, "ban">> \notin touched
            /\ chosen /\ able /\ m \notin banned /\ m \notin job.failed
            => m \in job.sent

\* Every notification ends, whatever members and moderators do meanwhile.
EveryNotificationEnds ==
  job.pc \in {"watches", "preferences", "members", "pool"} ~>
    job.pc \in {"idle", "done"}
=============================================================================
