----------------------- MODULE WatchNotificationProofs -----------------------
(***************************************************************************)
(* Proofs about WatchNotification, for any members, topics and challenges, *)
(* any number of workers and any commands.                                 *)
(***************************************************************************)
EXTENDS WatchNotification, FiniteSetTheorems, TLAPS

\* Who has changed no choice, and whose bans have not moved, since Begin
Settled(m) == <<m, "choices">> \notin touched
Unmoved(m) == <<m, "ban">> \notin touched

Chosen(m) == m # job.author /\ Watches(m, job.topic)

\* What the notification knows at each of its reads of a member who is settled
\* (the two tables may be from different times for the others)
ReadsInv ==
  /\ job.pc \in {"watches", "preferences", "members"} =>
       job.sent = {} /\ job.next = 1
  /\ job.pc = "preferences" =>
       \A m \in Members : Settled(m) =>
         /\ m \in job.watching <=> \E a \in Chain[job.topic] : watch[a, m] = TRUE
         /\ m \in job.muted <=> watch[job.topic, m] = FALSE
  /\ job.pc = "members" =>
       \A m \in Members :
         /\ m \in job.watching => m # job.author
         /\ Settled(m) => (m \in job.watching <=> Chosen(m))

\* The queue holds who is to be asked about.
QueueInv ==
  job.pc = "pool" =>
    /\ job.next \in 1..(Len(job.queue) + 1)
    /\ Len(job.result) = Len(job.queue)
    /\ \A i \in 1..Len(job.queue) :
         job.queue[i] \in HasEmail /\ job.queue[i] # job.author
    /\ \A m \in HasEmail : Settled(m) =>
         ((\E i \in 1..Len(job.queue) : job.queue[i] = m) <=> Chosen(m))

\* The workers hold different items below the shared index, and what they do
\* not hold below it is answered.
PoolInv ==
  job.pc = "pool" =>
    /\ \A w \in Workers : Busy(w) => worker[w].at < job.next
    /\ \A v, w \in Workers :
         Busy(v) /\ Busy(w) /\ worker[v].at = worker[w].at => v = w
    /\ \A i \in 1..Len(job.queue) :
         job.result[i] = "pending" <=>
           i >= job.next \/ \E w \in Workers : Busy(w) /\ worker[w].at = i

\* What an answer says of its candidate
AnswerInv ==
  job.pc = "pool" =>
    /\ \A i \in 1..Len(job.queue) :
         LET m == job.queue[i]
         IN /\ job.result[i] = "mail" =>
                 MaySee(m, job.topic) /\ (Unmoved(m) => m \notin banned)
            /\ job.result[i] = "refused" =>
                 ~MaySee(m, job.topic) \/ (Unmoved(m) => m \in banned)
    /\ \A w \in Workers :
         worker[w].pc = "roles" /\ Unmoved(Candidate(w)) =>
           Candidate(w) \notin banned

IInv ==
  TypeOK /\ ReadsInv /\ QueueInv /\ PoolInv /\ AnswerInv /\ RecipientsAreRight

LEMMA SetToSeqFact ==
  ASSUME NEW S, IsFiniteSet(S)
  PROVE  /\ SetToSeq(S) \in Seq(S)
         /\ \A x \in S : \E i \in 1..Len(SetToSeq(S)) : SetToSeq(S)[i] = x
<1> DEFINE n == Cardinality(S)
           s == SetToSeq(S)
<1>1. n \in Nat /\ ExistsBijection(1..n, S)
  BY FS_CardinalityType
<1>2. \E f \in [1..n -> S] : IsInjective(f)
  BY <1>1 DEF ExistsBijection, Bijection, Injection
<1>3. s \in [1..n -> S] /\ IsInjective(s)
  BY <1>2 DEF SetToSeq
<1>4. s \in Injection(1..n, S)
  BY <1>3 DEF Injection
<1>5. Cardinality(1..n) = n
  BY <1>1, FS_Interval
<1>6. s \in Surjection(1..n, S)
  BY <1>4, <1>5, FS_Injection
<1>7. s \in Seq(S) /\ Len(s) = n
  BY <1>1, <1>3
<1> HIDE DEF s, n
<1>8. \A x \in S : \E i \in 1..n : s[i] = x
  BY <1>6 DEF Surjection
<1> QED
  BY <1>7, <1>8 DEF s

LEMMA InitIInv == Init => IInv
<1> SUFFICES ASSUME Init PROVE IInv
  OBVIOUS
<1> USE DEF Init, Idle
<1>1. TypeOK
  BY NotificationAssumption DEF TypeOK, Choice, Workers
<1>2. ReadsInv /\ QueueInv /\ PoolInv /\ AnswerInv /\ RecipientsAreRight
  BY DEF ReadsInv, QueueInv, PoolInv, AnswerInv, RecipientsAreRight
<1> QED
  BY <1>1, <1>2 DEF IInv

\* What members and moderators do while a notification is under way
Chooses ==
  \/ \E c \in Commands : BeginCommand(c[1], c[2])
  \/ \E m \in Members : CommitWatch(m)
  \/ \E m \in Members : CommitPreference(m)
  \/ \E m \in Bannable : Ban(m)
  \/ \E m \in Bannable : Unban(m)

\* They change no choice of a settled member and no ban of an unmoved one.
SameForTheSettled ==
  /\ job' = job /\ worker' = worker
  /\ \A m \in Members : Settled(m)' =>
       /\ Settled(m)
       /\ \A t \in Topics : watch'[t, m] = watch[t, m]
       /\ \A c \in Challenges : preference'[c, m] = preference[c, m]
  /\ \A m \in Members : Unmoved(m)' =>
       Unmoved(m) /\ (m \in banned' <=> m \in banned)

LEMMA ChoosesType == TypeOK /\ Chooses => TypeOK' /\ SameForTheSettled
<1> SUFFICES ASSUME TypeOK, Chooses PROVE TypeOK' /\ SameForTheSettled
  OBVIOUS
<1> USE NotificationAssumption DEF TypeOK
<1> USE DEF SameForTheSettled, Settled, Unmoved
<1>1. ASSUME NEW c \in Commands, BeginCommand(c[1], c[2])
      PROVE  TypeOK' /\ SameForTheSettled
  BY <1>1 DEF BeginCommand
<1>2. ASSUME NEW m \in Members, CommitWatch(m)
      PROVE  TypeOK' /\ SameForTheSettled
  <2>1. request[m] \in Request /\ request[m].of \in Topics
    BY <1>2 DEF CommitWatch, Request
  <2>2. watch' \in [Topics \X Members -> Choice]
    BY <1>2, <2>1 DEF CommitWatch, Choice
  <2>3. \A x \in Topics \X Members : x[2] # m => watch'[x] = watch[x]
    BY <1>2, <2>1 DEF CommitWatch
  <2>4. request' = [request EXCEPT ![m] = None]
    BY <1>2 DEF CommitWatch
  <2>5. /\ touched' = touched \cup {<<m, "choices">>}
        /\ UNCHANGED <<preference, banned, job, worker>>
    BY <1>2 DEF CommitWatch, Touch
  <2>6. \A n \in Members : Settled(n)' => Settled(n) /\ n # m
    BY <2>5
  <2>7. TypeOK'
    BY <2>2, <2>4, <2>5
  <2> HIDE DEF TypeOK
  <2> QED
    BY <2>3, <2>5, <2>6, <2>7
<1>3. ASSUME NEW m \in Members, CommitPreference(m)
      PROVE  TypeOK' /\ SameForTheSettled
  <2>1. request[m] \in Request /\ request[m].of \in Challenges
    BY <1>3 DEF CommitPreference, Request
  <2>2. preference' \in [Challenges \X Members -> Choice]
    BY <1>3, <2>1 DEF CommitPreference, Choice
  <2>3. \A x \in Challenges \X Members : x[2] # m => preference'[x] = preference[x]
    BY <1>3, <2>1 DEF CommitPreference
  <2>4. request' = [request EXCEPT ![m] = None]
    BY <1>3 DEF CommitPreference
  <2>5. /\ touched' = touched \cup {<<m, "choices">>}
        /\ UNCHANGED <<watch, banned, job, worker>>
    BY <1>3 DEF CommitPreference, Touch
  <2>6. \A n \in Members : Settled(n)' => Settled(n) /\ n # m
    BY <2>5
  <2>7. TypeOK'
    BY <2>2, <2>4, <2>5
  <2> HIDE DEF TypeOK
  <2> QED
    BY <2>3, <2>5, <2>6, <2>7
<1>4. ASSUME NEW m \in Bannable, Ban(m) PROVE TypeOK' /\ SameForTheSettled
  BY <1>4 DEF Ban, Touch
<1>5. ASSUME NEW m \in Bannable, Unban(m) PROVE TypeOK' /\ SameForTheSettled
  BY <1>5 DEF Unban, Touch
<1> QED
  BY <1>1, <1>2, <1>3, <1>4, <1>5 DEF Chooses

\* Whom a settled member watches does not move either.
LEMMA SettledWatches ==
  ASSUME TypeOK, SameForTheSettled,
         NEW m \in Members, Settled(m)', NEW t \in Topics
  PROVE  Watches(m, t)' <=> Watches(m, t)
<1>1. \A a \in Topics : watch'[a, m] = watch[a, m]
  BY DEF SameForTheSettled
<1>2. ChallengeOf(t) # None =>
        preference'[ChallengeOf(t), m] = preference[ChallengeOf(t), m]
  BY NotificationAssumption DEF SameForTheSettled, ChallengeOf
<1>3. Chain[t] \subseteq Topics
  BY NotificationAssumption
<1> QED
  BY <1>1, <1>2, <1>3 DEF Watches, ShownWatching, IsWatching, ChallengeOf

\* A notification that is under way has all its fields.
LEMMA JobShape == ASSUME TypeOK, job.pc # "idle" PROVE job \in Job
BY DEF TypeOK, Idle

LEMMA ChoosesIInv == IInv /\ Chooses => IInv'
<1> SUFFICES ASSUME IInv, Chooses PROVE IInv'
  OBVIOUS
<1>1. TypeOK /\ TypeOK' /\ SameForTheSettled
  BY ChoosesType DEF IInv
<1>2. job' = job /\ worker' = worker
  BY <1>1 DEF SameForTheSettled
<1>3. \A m \in Members : Settled(m)' =>
        Settled(m) /\ \A t \in Topics : watch'[t, m] = watch[t, m]
  BY <1>1 DEF SameForTheSettled
<1>4. \A m \in Members : Unmoved(m)' =>
        Unmoved(m) /\ (m \in banned' <=> m \in banned)
  BY <1>1 DEF SameForTheSettled
<1>5. \A m \in Members : \A t \in Topics :
        Settled(m)' => (Watches(m, t)' <=> Watches(m, t))
  BY <1>1, SettledWatches
<1>6. job.pc # "idle" => job.topic \in Topics /\ Chain[job.topic] \subseteq Topics
  BY <1>1, JobShape, NotificationAssumption DEF Job
<1>7. ReadsInv'
  BY <1>2, <1>3, <1>5, <1>6 DEF IInv, ReadsInv, Chosen
<1>8. QueueInv'
  BY <1>2, <1>3, <1>5, <1>6, NotificationAssumption DEF IInv, QueueInv, Chosen
<1>9. PoolInv'
  BY <1>2 DEF IInv, PoolInv, Busy
<1>10. AnswerInv'
  <2>1. ASSUME job.pc = "pool", NEW i \in 1..Len(job.queue)
        PROVE  job.queue[i] \in Members
    BY <2>1, <1>1, JobShape DEF Job
  <2>2. ASSUME job.pc = "pool", NEW w \in Workers, worker[w].pc = "roles"
        PROVE  Candidate(w) \in Members
    BY <2>1, <2>2, <1>1 DEF Candidate, TypeOK, Idle
  <2> QED
    BY <2>1, <2>2, <1>2, <1>4 DEF IInv, AnswerInv, Candidate
<1>11. RecipientsAreRight'
  BY <1>2, <1>3, <1>4, <1>5, <1>6 DEF IInv, RecipientsAreRight, Settled, Unmoved
<1> QED
  BY <1>1, <1>7, <1>8, <1>9, <1>10, <1>11 DEF IInv

LEMMA BeginIInv ==
  ASSUME IInv, NEW t \in Posting, NEW author \in Authors, Begin(t, author)
  PROVE  IInv'
<1>1. /\ job' \in Job /\ job'.pc = "watches" /\ job'.sent = {} /\ job'.next = 1
      /\ touched' = {} /\ UNCHANGED <<Outside, worker>>
  BY NotificationAssumption DEF Begin, Job
<1>2. \A w \in Workers : worker[w] = Idle
  BY DEF Begin, IInv, TypeOK
<1>3. TypeOK'
  BY <1>1, <1>2 DEF IInv, TypeOK, Outside
<1>4. ReadsInv' /\ QueueInv' /\ PoolInv' /\ AnswerInv' /\ RecipientsAreRight'
  BY <1>1 DEF ReadsInv, QueueInv, PoolInv, AnswerInv, RecipientsAreRight
<1> QED
  BY <1>3, <1>4 DEF IInv

LEMMA AbandonIInv == IInv /\ Abandon => IInv'
<1> SUFFICES ASSUME IInv, Abandon PROVE IInv'
  OBVIOUS
<1>1. job' = Idle /\ UNCHANGED <<Outside, touched>>
  BY DEF Abandon
<1>2. worker' = [w \in Workers |-> Idle]
  BY DEF Abandon
<1>3. TypeOK'
  BY <1>1, <1>2 DEF IInv, TypeOK, Outside
<1>4. ReadsInv' /\ QueueInv' /\ PoolInv' /\ AnswerInv' /\ RecipientsAreRight'
  BY <1>1 DEF Idle, ReadsInv, QueueInv, PoolInv, AnswerInv, RecipientsAreRight
<1> QED
  BY <1>3, <1>4 DEF IInv

LEMMA ReadWatchesIInv == IInv /\ ReadWatches => IInv'
<1> SUFFICES ASSUME IInv, ReadWatches PROVE IInv'
  OBVIOUS
<1>1. job.pc = "watches" /\ UNCHANGED <<Outside, worker, touched>>
  BY DEF ReadWatches
<1>2. job \in Job /\ job.sent = {} /\ job.next = 1
  BY <1>1, JobShape DEF IInv, ReadsInv
<1>3. /\ job' \in Job /\ job'.pc = "preferences" /\ job'.sent = {}
      /\ job'.next = 1 /\ job'.topic = job.topic
      /\ job'.watching = {m \in Members : \E a \in Chain[job.topic] :
                            watch[a, m] = TRUE}
      /\ job'.muted = {m \in Members : watch[job.topic, m] = FALSE}
  BY <1>2 DEF ReadWatches, Job
<1>4. TypeOK'
  BY <1>1, <1>3 DEF IInv, TypeOK, Outside
<1>5. ReadsInv'
  BY <1>1, <1>3 DEF ReadsInv, Outside
<1>6. QueueInv' /\ PoolInv' /\ AnswerInv' /\ RecipientsAreRight'
  BY <1>3 DEF QueueInv, PoolInv, AnswerInv, RecipientsAreRight
<1> QED
  BY <1>4, <1>5, <1>6 DEF IInv

\* The candidates are who the choices name when both tables are read at once.
LEMMA CandidatesAreChosen ==
  ASSUME TypeOK, NEW t \in Topics, NEW m \in Members
  PROVE  Watches(m, t) <=>
           /\ watch[t, m] # FALSE
           /\ \/ \E a \in Chain[t] : watch[a, m] = TRUE
              \/ ChallengeOf(t) # None /\ m \in Followers(ChallengeOf(t))
<1>1. t \in Chain[t] /\ watch[t, m] \in Choice
  BY NotificationAssumption DEF TypeOK
<1>2. ASSUME ChallengeOf(t) # None
      PROVE  preference[ChallengeOf(t), m] \in Choice
  BY <1>2, NotificationAssumption DEF TypeOK, ChallengeOf
<1> QED
  BY <1>1, <1>2 DEF Watches, ShownWatching, IsWatching, Followers, Choice

LEMMA ReadPreferencesIInv == IInv /\ ReadPreferences => IInv'
<1> SUFFICES ASSUME IInv, ReadPreferences PROVE IInv'
  OBVIOUS
<1> DEFINE c == ChallengeOf(job.topic)
           found == Candidates(IF c = None THEN {} ELSE Followers(c))
<1>1. job.pc = "preferences" /\ UNCHANGED <<Outside, worker, touched>>
  BY DEF ReadPreferences
<1>2. TypeOK /\ job \in Job /\ job.sent = {} /\ job.next = 1
  BY <1>1, JobShape DEF IInv, ReadsInv
<1>3. job.topic \in Topics
  BY <1>2 DEF Job
<1>4. found \subseteq Members
  <2>1. c # None => Default[c] \subseteq Members
    BY <1>3, NotificationAssumption DEF ChallengeOf
  <2>2. job.watching \subseteq Members
    BY <1>2 DEF Job
  <2> QED
    BY <2>1, <2>2 DEF Candidates, Followers
<1>5. \A m \in Members :
        /\ m \in found => m # job.author
        /\ Settled(m) => (m \in found <=> Chosen(m))
  <2>1. ASSUME NEW m \in Members, Settled(m)
        PROVE  m \in found <=> Chosen(m)
    <3>1. m \in job.watching <=> \E a \in Chain[job.topic] : watch[a, m] = TRUE
      BY <1>1, <2>1 DEF IInv, ReadsInv
    <3>2. m \in job.muted <=> watch[job.topic, m] = FALSE
      BY <1>1, <2>1 DEF IInv, ReadsInv
    <3> QED
      BY <1>2, <1>3, <3>1, <3>2, CandidatesAreChosen DEF Candidates, Chosen
  <2> QED
    BY <2>1 DEF Candidates
<1> HIDE DEF c, found
<1>6. job' = [job EXCEPT !.pc = IF found = {} THEN "done" ELSE "members",
                         !.watching = found, !.muted = {}]
  BY DEF ReadPreferences, found, c
<1>7. /\ job' \in Job /\ job'.pc \in {"done", "members"} /\ job'.sent = {}
      /\ job'.next = 1 /\ job'.topic = job.topic /\ job'.author = job.author
      /\ job'.watching = found /\ (job'.pc = "done" => found = {})
  BY <1>2, <1>4, <1>6 DEF Job
<1>8. TypeOK'
  BY <1>1, <1>2, <1>7 DEF TypeOK, Outside
<1>9. \A m \in Members : Watches(m, job.topic)' <=> Watches(m, job.topic)
  BY <1>1, <1>7 DEF Outside, Watches, ShownWatching, IsWatching
<1>10. \A m \in Members : Settled(m)' <=> Settled(m)
  BY <1>1 DEF Settled
<1>11. ReadsInv'
  BY <1>5, <1>7, <1>9, <1>10 DEF ReadsInv, Chosen
<1>12. RecipientsAreRight'
  BY <1>5, <1>7, <1>9, <1>10 DEF RecipientsAreRight, Chosen, Settled
<1>13. QueueInv' /\ PoolInv' /\ AnswerInv'
  BY <1>7 DEF QueueInv, PoolInv, AnswerInv
<1> QED
  BY <1>8, <1>11, <1>12, <1>13 DEF IInv

LEMMA LookUpMembersIInv == IInv /\ LookUpMembers => IInv'
<1> SUFFICES ASSUME IInv, LookUpMembers PROVE IInv'
  OBVIOUS
<1> DEFINE asked == job.watching \cap HasEmail
           queue == SetToSeq(asked)
<1>1. job.pc = "members" /\ UNCHANGED <<Outside, worker, touched>>
  BY DEF LookUpMembers
<1>2. TypeOK /\ job \in Job /\ job.next = 1
  BY <1>1, JobShape DEF IInv, ReadsInv
<1>3. asked \subseteq Members /\ IsFiniteSet(asked)
  <2>1. asked \in SUBSET Members
    BY <1>2 DEF Job
  <2> QED
    BY <2>1, NotificationAssumption, FS_Subset
<1>4. /\ queue \in Seq(asked)
      /\ \A m \in asked : \E i \in 1..Len(queue) : queue[i] = m
  BY <1>3, SetToSeqFact
<1> HIDE DEF queue
<1>5. job' = [job EXCEPT !.pc = "pool", !.queue = queue, !.watching = {},
                         !.result = [i \in 1..Len(queue) |-> "pending"]]
  BY DEF LookUpMembers, queue
<1>6. queue \in Seq(Members) /\ Len(queue) \in Nat
  BY <1>3, <1>4
<1>7. [i \in 1..Len(queue) |-> "pending"] \in Seq(Results)
  BY <1>6 DEF Results
<1>8. /\ job' \in Job /\ job'.pc = "pool" /\ job'.queue = queue
      /\ job'.topic = job.topic /\ job'.author = job.author
      /\ job'.next = 1 /\ job'.result = [i \in 1..Len(queue) |-> "pending"]
  BY <1>2, <1>6, <1>7, <1>5 DEF Job
<1>9. \A w \in Workers : worker[w] = Idle
  BY <1>1, <1>2 DEF TypeOK
<1>10. TypeOK'
  BY <1>1, <1>2, <1>8, <1>9 DEF TypeOK, Outside
<1>11. \A i \in 1..Len(queue) :
         queue[i] \in job.watching /\ queue[i] \in HasEmail
  BY <1>4 DEF asked
<1>12. \A m \in HasEmail : Settled(m) =>
         ((\E i \in 1..Len(queue) : queue[i] = m) <=> Chosen(m))
  <2>1. HasEmail \subseteq Members
    BY NotificationAssumption
  <2>2. \A m \in HasEmail : Settled(m) => (m \in job.watching <=> Chosen(m))
    BY <1>1, <2>1 DEF IInv, ReadsInv
  <2>3. \A m \in HasEmail :
          (\E i \in 1..Len(queue) : queue[i] = m) <=> m \in job.watching
    BY <1>4, <1>11
  <2> QED
    BY <2>2, <2>3
<1>13. \A m \in HasEmail : /\ Chosen(m)' <=> Chosen(m)
                           /\ Settled(m)' <=> Settled(m)
  BY <1>1, <1>8 DEF Chosen, Settled, Outside, Watches, ShownWatching, IsWatching
<1>14. QueueInv'
  <2>1. Len(job'.result) = Len(job'.queue)
    BY <1>6, <1>8
  <2>2. \A i \in 1..Len(queue) : queue[i] # job.author
    BY <1>1, <1>2, <1>11 DEF IInv, ReadsInv, Job
  <2> QED
    BY <2>1, <2>2, <1>6, <1>8, <1>11, <1>12, <1>13 DEF QueueInv
<1>15. PoolInv' /\ AnswerInv'
  BY <1>1, <1>6, <1>8, <1>9 DEF PoolInv, AnswerInv, Busy, Idle
<1>16. ReadsInv' /\ RecipientsAreRight'
  BY <1>8 DEF ReadsInv, RecipientsAreRight
<1> QED
  BY <1>10, <1>14, <1>15, <1>16 DEF IInv

\* What a busy worker holds
LEMMA WorkerShape ==
  ASSUME TypeOK, NEW w \in Workers, worker[w] # Idle
  PROVE  /\ job.pc = "pool" /\ job \in Job /\ worker[w] \in Worker
         /\ worker[w].at \in 1..Len(job.queue) /\ Candidate(w) \in Members
<1>1. job.pc = "pool" /\ worker[w] \in Worker
      /\ worker[w].at \in 1..Len(job.queue)
  BY DEF TypeOK
<1>2. job \in Job
  BY <1>1, JobShape
<1>3. job.queue \in Seq(Members)
  BY <1>2 DEF Job
<1> QED
  BY <1>1, <1>2, <1>3 DEF Candidate

LEMMA TakeIInv == ASSUME IInv, NEW w \in Workers, Take(w) PROVE IInv'
<1> DEFINE held == [pc |-> "bans", at |-> job.next]
<1>1. job.pc = "pool" /\ worker[w] = Idle /\ job.next <= Len(job.queue)
      /\ UNCHANGED <<Outside, touched>>
  BY DEF Take
<1>2. TypeOK /\ job \in Job
  BY <1>1, JobShape DEF IInv
<1>3. /\ job.next \in 1..Len(job.queue) /\ Len(job.queue) \in Nat
      /\ Len(job.result) = Len(job.queue)
  BY <1>1, <1>2 DEF IInv, QueueInv, Job
<1>4. job' = [job EXCEPT !.next = @ + 1]
      /\ worker' = [worker EXCEPT ![w] = held]
  BY DEF Take
<1>5. /\ job' \in Job /\ job'.pc = "pool" /\ job'.queue = job.queue
      /\ job'.topic = job.topic /\ job'.author = job.author
      /\ job'.next = job.next + 1 /\ job'.result = job.result
  <2>1. \A n \in Nat : [job EXCEPT !.next = n] \in Job
    BY <1>2 DEF Job
  <2>2. job.next + 1 \in Nat /\ job' = [job EXCEPT !.next = job.next + 1]
    BY <1>3, <1>4
  <2>3. job' \in Job
    BY <2>1, <2>2
  <2> QED
    BY <1>1, <1>2, <2>2, <2>3 DEF Job
<1>6. /\ worker' \in [Workers -> Worker \cup {Idle}] /\ worker'[w] = held
      /\ \A v \in Workers : v # w => worker'[v] = worker[v]
  BY <1>2, <1>3, <1>4 DEF TypeOK, Worker
<1>7. TypeOK'
  BY <1>1, <1>2, <1>3, <1>5, <1>6 DEF TypeOK, Outside
<1>8. \A m \in Members : /\ Watches(m, job.topic)' <=> Watches(m, job.topic)
                         /\ Settled(m)' <=> Settled(m)
                         /\ Unmoved(m)' <=> Unmoved(m)
  BY <1>1, <1>5
     DEF Settled, Unmoved, Outside, Watches, ShownWatching, IsWatching
<1>9. QueueInv'
  BY <1>1, <1>3, <1>5, <1>8, NotificationAssumption
     DEF IInv, QueueInv, Chosen
<1>10. PoolInv'
  <2>1. \A v \in Workers : worker[v] # Idle => worker[v].at \in Nat
    BY <1>2, WorkerShape DEF Worker
  <2>2. held # Idle /\ held.at = job.next
    BY DEF Idle
  <2>3. \A v \in Workers : Busy(v)' => worker'[v].at < job'.next
    BY <1>1, <1>3, <1>5, <1>6, <2>1, <2>2 DEF IInv, PoolInv, Busy
  <2>4. \A u, v \in Workers :
          Busy(u)' /\ Busy(v)' /\ worker'[u].at = worker'[v].at => u = v
    BY <1>1, <1>3, <1>6, <2>1, <2>2 DEF IInv, PoolInv, Busy
  <2>5. ASSUME NEW i \in 1..Len(job.queue)
        PROVE  job'.result[i] = "pending" <=>
                 i >= job'.next \/ \E v \in Workers : Busy(v)' /\ worker'[v].at = i
    BY <1>1, <1>3, <1>5, <1>6, <2>1, <2>2 DEF IInv, PoolInv, Busy
  <2> QED
    BY <1>5, <2>3, <2>4, <2>5 DEF PoolInv
<1>11. AnswerInv'
  <2>1. \A v \in Workers : worker'[v].pc = "roles" =>
          worker[v].pc = "roles" /\ worker'[v] = worker[v]
    BY <1>6
  <2>2. \A v \in Workers : worker[v].pc = "roles" => Candidate(v) \in Members
    BY <1>2, WorkerShape DEF Idle
  <2> QED
    BY <1>1, <1>5, <2>1, <2>2 DEF IInv, AnswerInv, Candidate, Unmoved, Outside
<1>12. ReadsInv' /\ RecipientsAreRight'
  BY <1>5 DEF ReadsInv, RecipientsAreRight
<1> QED
  BY <1>7, <1>9, <1>10, <1>11, <1>12 DEF IInv

\* A worker answers, and the answer is true of its candidate.
LEMMA AnswerIInv ==
  ASSUME IInv, NEW w \in Workers, worker[w] # Idle,
         NEW r \in {"mail", "refused", "failed"}, Answer(w, r),
         UNCHANGED <<Outside, touched>>,
         r = "mail" => /\ MaySee(Candidate(w), job.topic)
                       /\ Unmoved(Candidate(w)) => Candidate(w) \notin banned,
         r = "refused" => \/ ~MaySee(Candidate(w), job.topic)
                          \/ Unmoved(Candidate(w)) => Candidate(w) \in banned
  PROVE  IInv'
<1> DEFINE i == worker[w].at
           result == [job.result EXCEPT ![i] = r]
<1>1. TypeOK /\ job.pc = "pool" /\ job \in Job /\ i \in 1..Len(job.queue)
  BY WorkerShape DEF IInv
<1>2. /\ Len(job.queue) \in Nat /\ job.next \in 1..(Len(job.queue) + 1)
      /\ Len(job.result) = Len(job.queue) /\ job.result \in Seq(Results)
  BY <1>1 DEF IInv, QueueInv, Job
<1>3. /\ result \in Seq(Results) /\ Len(result) = Len(job.queue) /\ result[i] = r
      /\ \A j \in 1..Len(job.queue) : j # i => result[j] = job.result[j]
  BY <1>1, <1>2 DEF Results
<1>4. job' = [job EXCEPT !.result = result] /\ worker' = [worker EXCEPT ![w] = Idle]
  BY DEF Answer
<1> HIDE DEF result, i
<1>5. /\ job' \in Job /\ job'.pc = "pool" /\ job'.queue = job.queue
      /\ job'.topic = job.topic /\ job'.author = job.author
      /\ job'.next = job.next /\ job'.result = result
  BY <1>1, <1>3, <1>4 DEF Job
<1>6. /\ worker' \in [Workers -> Worker \cup {Idle}] /\ worker'[w] = Idle
      /\ \A v \in Workers : v # w => worker'[v] = worker[v]
  BY <1>1, <1>4 DEF TypeOK
<1>7. TypeOK'
  BY <1>1, <1>5, <1>6 DEF TypeOK, Outside
<1>8. \A m \in Members : /\ Watches(m, job.topic)' <=> Watches(m, job.topic)
                         /\ Settled(m)' <=> Settled(m)
                         /\ Unmoved(m)' <=> Unmoved(m)
  BY <1>5
     DEF Settled, Unmoved, Outside, Watches, ShownWatching, IsWatching
<1>9. QueueInv'
  BY <1>1, <1>2, <1>3, <1>5, <1>8, NotificationAssumption
     DEF IInv, QueueInv, Chosen
<1>10. PoolInv'
  <2>1. \A v \in Workers : Busy(v)' => Busy(v) /\ v # w /\ worker'[v] = worker[v]
    BY <1>6 DEF Busy
  <2>2. ASSUME NEW j \in 1..Len(job.queue), j # i
        PROVE  job'.result[j] = "pending" <=>
                 j >= job.next \/ \E v \in Workers : Busy(v)' /\ worker'[v].at = j
    <3>1. (\E v \in Workers : Busy(v)' /\ worker'[v].at = j) <=>
            \E v \in Workers : Busy(v) /\ worker[v].at = j
      BY <1>6, <2>1, <2>2 DEF Busy, i
    <3> QED
      BY <3>1, <1>1, <1>3, <1>5, <2>2 DEF IInv, PoolInv
  <2>3. i < job.next /\ \A v \in Workers : Busy(v)' => worker'[v].at # i
    BY <1>1, <2>1 DEF IInv, PoolInv, Busy, i
  <2>4. ~(i >= job.next)
    BY <2>3, <1>1, <1>2
  <2>5. \A j \in 1..Len(job.queue) :
          job'.result[j] = "pending" <=>
            j >= job'.next \/ \E v \in Workers : Busy(v)' /\ worker'[v].at = j
    BY <1>3, <1>5, <2>2, <2>3, <2>4
  <2>6. /\ \A v \in Workers : Busy(v)' => worker'[v].at < job'.next
        /\ \A u, v \in Workers :
             Busy(u)' /\ Busy(v)' /\ worker'[u].at = worker'[v].at => u = v
    BY <1>1, <1>5, <2>1 DEF IInv, PoolInv
  <2> QED
    BY <1>5, <2>5, <2>6 DEF PoolInv
<1>11. AnswerInv'
  <2>1. \A v \in Workers : worker'[v].pc = "roles" =>
          worker[v].pc = "roles" /\ worker'[v] = worker[v]
    BY <1>6 DEF Idle
  <2>2. \A v \in Workers : worker[v].pc = "roles" => Candidate(v) \in Members
    BY <1>1, WorkerShape DEF Idle
  <2>3. \A v \in Workers : worker'[v].pc = "roles" /\ Unmoved(Candidate(v))' =>
          Candidate(v)' \notin banned'
    BY <1>1, <1>5, <2>1, <2>2
       DEF IInv, AnswerInv, Candidate, Unmoved, Outside
  <2>4. ASSUME NEW j \in 1..Len(job.queue)
        PROVE  LET m == job.queue[j]
               IN /\ job'.result[j] = "mail" =>
                       MaySee(m, job.topic) /\ (Unmoved(m)' => m \notin banned')
                  /\ job'.result[j] = "refused" =>
                       \/ ~MaySee(m, job.topic)
                       \/ Unmoved(m)' => m \in banned'
    <3>1. CASE j # i
      BY <3>1, <1>1, <1>3, <1>5 DEF IInv, AnswerInv, Unmoved, Outside
    <3>2. CASE j = i
      BY <3>2, <1>3, <1>5 DEF Candidate, Unmoved, Outside, i
    <3> QED
      BY <3>1, <3>2
  <2> QED
    BY <1>5, <2>3, <2>4 DEF AnswerInv
<1>12. ReadsInv' /\ RecipientsAreRight'
  BY <1>5 DEF ReadsInv, RecipientsAreRight
<1> QED
  BY <1>7, <1>9, <1>10, <1>11, <1>12 DEF IInv

LEMMA CheckBanIInv == ASSUME IInv, NEW w \in Workers, CheckBan(w) PROVE IInv'
<1>1. worker[w].pc = "bans" /\ worker[w] # Idle
      /\ UNCHANGED <<Outside, touched>>
  BY DEF CheckBan, Idle
<1>2. CASE Candidate(w) \in banned
  <2>1. Answer(w, "refused")
    BY <1>2 DEF CheckBan
  <2> QED
    BY <1>1, <1>2, <2>1, AnswerIInv
<1>3. CASE Candidate(w) \notin banned
  <2>1. TypeOK /\ job.pc = "pool" /\ worker[w] \in Worker
        /\ worker[w].at \in 1..Len(job.queue)
    BY <1>1, WorkerShape DEF IInv
  <2>2. job' = job /\ worker' = [worker EXCEPT ![w].pc = "roles"]
    BY <1>3 DEF CheckBan
  <2>3. /\ worker' \in [Workers -> Worker \cup {Idle}]
        /\ worker'[w].at = worker[w].at /\ worker'[w].pc = "roles"
        /\ \A v \in Workers : v # w => worker'[v] = worker[v]
    BY <2>1, <2>2 DEF TypeOK, Worker
  <2>4. \A v \in Workers : worker'[v] # Idle =>
          worker[v] # Idle /\ worker'[v].at = worker[v].at
    BY <1>1, <2>3
  <2>5. \A v \in Workers : worker[v] # Idle => worker'[v] # Idle
    BY <2>3 DEF Idle
  <2>6. TypeOK'
    BY <1>1, <2>1, <2>2, <2>3, <2>4 DEF TypeOK, Outside
  <2>7. \A m \in Members : /\ Watches(m, job.topic)' <=> Watches(m, job.topic)
                           /\ Settled(m)' <=> Settled(m)
    BY <1>1, <2>2 DEF Settled, Outside, Watches, ShownWatching, IsWatching
  <2>8. QueueInv'
    BY <2>1, <2>2, <2>7, NotificationAssumption DEF IInv, QueueInv, Chosen
  <2>9. PoolInv'
    BY <2>1, <2>2, <2>4, <2>5 DEF IInv, PoolInv, Busy
  <2>10. AnswerInv'
    <3>1. \A v \in Workers : worker'[v].pc = "roles" =>
            Candidate(v)' = Candidate(v) /\ (v = w \/ worker[v].pc = "roles")
      BY <2>2, <2>3 DEF Candidate
    <3> QED
      BY <1>1, <1>3, <2>1, <2>2, <3>1
         DEF IInv, AnswerInv, Unmoved, Outside
  <2>11. ReadsInv' /\ RecipientsAreRight'
    BY <2>1, <2>2 DEF ReadsInv, RecipientsAreRight
  <2> QED
    BY <2>6, <2>8, <2>9, <2>10, <2>11 DEF IInv
<1> QED
  BY <1>2, <1>3

LEMMA CheckRolesIInv == ASSUME IInv, NEW w \in Workers, CheckRoles(w) PROVE IInv'
<1>1. worker[w].pc = "roles" /\ worker[w] # Idle
      /\ UNCHANGED <<Outside, touched>>
  BY DEF CheckRoles, Idle
<1>2. Unmoved(Candidate(w)) => Candidate(w) \notin banned
  <2>1. job.pc = "pool"
    BY <1>1, WorkerShape DEF IInv
  <2> QED
    BY <1>1, <2>1 DEF IInv, AnswerInv
<1>3. CASE MaySee(Candidate(w), job.topic)
  <2>1. Answer(w, "mail")
    BY <1>3 DEF CheckRoles
  <2> QED
    BY <1>1, <1>2, <1>3, <2>1, AnswerIInv
<1>4. CASE ~MaySee(Candidate(w), job.topic)
  <2>1. Answer(w, "refused")
    BY <1>4 DEF CheckRoles
  <2> QED
    BY <1>1, <1>4, <2>1, AnswerIInv
<1> QED
  BY <1>3, <1>4

LEMMA LookupFailsIInv == ASSUME IInv, NEW w \in Workers, LookupFails(w) PROVE IInv'
BY AnswerIInv DEF LookupFails

LEMMA PublishIInv == IInv /\ Publish => IInv'
<1> SUFFICES ASSUME IInv, Publish PROVE IInv'
  OBVIOUS
<1>1. /\ job.pc = "pool" /\ job.next > Len(job.queue)
      /\ \A w \in Workers : worker[w] = Idle
      /\ UNCHANGED <<Outside, worker, touched>>
  BY DEF Publish
<1>2. TypeOK /\ job \in Job
  BY <1>1, JobShape DEF IInv
<1>3. /\ Len(job.queue) \in Nat /\ job.next \in Nat
      /\ Len(job.result) = Len(job.queue)
      /\ \A i \in 1..Len(job.queue) : job.queue[i] \in Members
      /\ \A i \in 1..Len(job.queue) : job.result[i] \in Results
  BY <1>1, <1>2 DEF IInv, QueueInv, Job
<1>4. With("mail") \subseteq Members /\ With("failed") \subseteq Members
  BY <1>3 DEF With
<1>5. job' = [job EXCEPT !.pc = "done", !.queue = <<>>, !.next = 1,
                        !.result = <<>>,
                        !.sent = With("mail"), !.failed = With("failed")]
  BY DEF Publish
<1>6. job' \in Job
  <2>1. <<>> \in Seq(Members) /\ <<>> \in Seq(Results)
    OBVIOUS
  <2> QED
    BY <1>2, <1>4, <1>5, <2>1 DEF Job
<1>7. /\ job'.pc = "done" /\ job'.topic = job.topic /\ job'.author = job.author
      /\ job'.sent = With("mail") /\ job'.failed = With("failed")
  BY <1>2, <1>5 DEF Job
<1>8. TypeOK'
  BY <1>1, <1>2, <1>6 DEF TypeOK, Outside
<1>9. \A i \in 1..Len(job.queue) : job.result[i] # "pending"
  BY <1>1, <1>3 DEF IInv, PoolInv, Busy
<1>10. \A m \in Members : Watches(m, job.topic)' <=> Watches(m, job.topic)
  BY <1>1, <1>7 DEF Outside, Watches, ShownWatching, IsWatching
<1>11. ASSUME NEW m \in Members, m \in With("mail")
       PROVE  /\ m \in HasEmail /\ MaySee(m, job.topic) /\ m # job.author
              /\ Settled(m) => Chosen(m)
              /\ Unmoved(m) => m \notin banned
  <2>1. PICK i \in 1..Len(job.queue) : job.queue[i] = m /\ job.result[i] = "mail"
    BY <1>11 DEF With
  <2> QED
    BY <1>1, <2>1 DEF IInv, QueueInv, AnswerInv
<1>12. ASSUME NEW m \in Members, Settled(m), Unmoved(m), Chosen(m),
              m \in HasEmail, MaySee(m, job.topic), m \notin banned,
              m \notin With("failed")
       PROVE  m \in With("mail")
  <2>1. PICK i \in 1..Len(job.queue) : job.queue[i] = m
    BY <1>1, <1>12 DEF IInv, QueueInv
  <2>2. job.result[i] # "failed"
    BY <1>12, <2>1 DEF With
  <2>3. job.result[i] # "refused"
    BY <1>1, <1>12, <2>1 DEF IInv, AnswerInv
  <2>4. job.result[i] = "mail"
    BY <1>3, <1>9, <2>2, <2>3 DEF Results
  <2> QED
    BY <2>1, <2>4 DEF With
<1>13. RecipientsAreRight'
  BY <1>1, <1>7, <1>10, <1>11, <1>12
     DEF RecipientsAreRight, Chosen, Settled, Unmoved, Outside
<1>14. ReadsInv' /\ QueueInv' /\ PoolInv' /\ AnswerInv'
  BY <1>7 DEF ReadsInv, QueueInv, PoolInv, AnswerInv
<1> QED
  BY <1>8, <1>13, <1>14 DEF IInv

LEMMA StutterIInv == IInv /\ UNCHANGED vars => IInv'
<1> SUFFICES ASSUME IInv, UNCHANGED vars PROVE IInv'
  OBVIOUS
<1> USE DEF vars
<1>1. TypeOK' /\ RecipientsAreRight'
  BY DEF IInv, TypeOK, RecipientsAreRight, Watches, ShownWatching, IsWatching
<1>2. ReadsInv' /\ QueueInv'
  BY DEF IInv, ReadsInv, QueueInv, Chosen, Settled, Watches, ShownWatching,
         IsWatching
<1>3. PoolInv' /\ AnswerInv'
  BY DEF IInv, PoolInv, AnswerInv, Busy, Candidate, Unmoved
<1> QED
  BY <1>1, <1>2, <1>3 DEF IInv

LEMMA NextIInv == IInv /\ [Next]_vars => IInv'
<1> SUFFICES ASSUME IInv, [Next]_vars PROVE IInv'
  OBVIOUS
<1>1. CASE Chooses
  BY <1>1, ChoosesIInv
<1>2. ASSUME NEW t \in Posting, NEW author \in Authors, Begin(t, author)
      PROVE  IInv'
  BY <1>2, BeginIInv
<1>3. CASE JobStep
  BY <1>3, ReadWatchesIInv, ReadPreferencesIInv, LookUpMembersIInv, PublishIInv
     DEF JobStep
<1>4. ASSUME NEW w \in Workers, WorkerStep(w) PROVE IInv'
  BY <1>4, TakeIInv, CheckBanIInv, CheckRolesIInv DEF WorkerStep
<1>5. ASSUME NEW w \in Workers, LookupFails(w) PROVE IInv'
  BY <1>5, LookupFailsIInv
<1>6. CASE Abandon
  BY <1>6, AbandonIInv
<1>7. CASE UNCHANGED vars
  BY <1>7, StutterIInv
<1> QED
  BY <1>1, <1>2, <1>3, <1>4, <1>5, <1>6, <1>7 DEF Next, Chooses

LEMMA Invariance == Spec => []IInv
<1>1. Init => IInv
  BY InitIInv
<1>2. IInv /\ [Next]_vars => IInv'
  BY NextIInv
<1> QED
  BY <1>1, <1>2, PTL DEF Spec

\* At most one worker holds an item, counted.
LEMMA PoolInvCounts == IInv => PoolTakesEachOnce
<1> SUFFICES ASSUME IInv, job.pc = "pool", NEW i \in 1..Len(job.queue)
             PROVE  LET holders == {w \in Workers : Busy(w) /\ worker[w].at = i}
                    IN /\ Cardinality(holders) <= 1
                       /\ job.result[i] = "pending" <=>
                            i >= job.next \/ holders # {}
  BY DEF PoolTakesEachOnce
<1> DEFINE holders == {w \in Workers : Busy(w) /\ worker[w].at = i}
<1>1. \A v, w \in holders : v = w
  BY DEF IInv, PoolInv
<1> HIDE DEF holders
<1>2. Cardinality(holders) <= 1
  <2>1. holders = {} \/ \E w : holders = {w}
    BY <1>1
  <2>2. Cardinality(holders) \in {0, 1}
    BY <2>1, FS_EmptySet, FS_Singleton, Zenon
  <2> QED
    BY <2>2
<1>3. job.result[i] = "pending" <=> i >= job.next \/ holders # {}
  BY DEF IInv, PoolInv, holders
<1> QED
  BY <1>2, <1>3 DEF holders

\* Every notification, worker and choice is of its type in every reachable state
\* (addTopicWatch, watchState and publishTopicPostCreatedNotification).
THEOREM TypeCorrect == Spec => []TypeOK
<1>1. IInv => TypeOK
  BY DEF IInv
<1> QED
  BY <1>1, Invariance, PTL

\* However many workers share the index of mapWithBoundedConcurrency, and
\* whatever fails, each candidate is asked about once and none is left out.
THEOREM PoolIsExact == Spec => []PoolTakesEachOnce
  BY Invariance, PoolInvCounts, PTL

\* The recipients of an email are the members whose choices, bans and access
\* say so, for any interleaving of their commands with the notification's reads.
THEOREM RecipientsCorrect == Spec => []RecipientsAreRight
<1>1. IInv => RecipientsAreRight
  BY DEF IInv
<1> QED
  BY <1>1, Invariance, PTL
=============================================================================
