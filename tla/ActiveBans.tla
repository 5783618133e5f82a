----------------------------- MODULE ActiveBans -----------------------------
(***************************************************************************)
(* The MemberBan and IpBan tables: banMember, banIpAddress, unbanMember,   *)
(* unbanIpAddress, and the ban check every command and read starts with.   *)
(*                                                                         *)
(* Both tables are the same algorithm, so one table holds the rows of all  *)
(* subjects, members and addresses.  None of the methods opens a           *)
(* transaction: each database call is a step, and calls of other requests  *)
(* come between.  What keeps a subject from having two active rows is the  *)
(* partial unique index on the rows that are not removed.                  *)
(*                                                                         *)
(* The audit columns are left out.  wasBanned and wasFree are history      *)
(* variables: the subjects that were banned, or were not, at some moment   *)
(* since a request started.  No action reads them.                         *)
(***************************************************************************)
EXTENDS Naturals, Sequences

CONSTANTS Members,     \* member ids
          Addresses,   \* exact bare client addresses
          None,        \* no member (a guest), or no trusted client address
          Requests,    \* requests in flight at once
          MaxRows      \* bound of the model: rows ever written

Subjects == Members \cup Addresses

ASSUME SubjectAssumption == None \notin Subjects

VARIABLES ban,         \* the rows, oldest first
          request,     \* request -> what it asks and where it is
          wasBanned,   \* request -> subjects banned since it started
          wasFree      \* request -> subjects not banned since it started

vars == <<ban, request, wasBanned, wasFree>>

Row == [subject: Subjects, removed: BOOLEAN]

\* "find" is the read every operation starts with, "address" the second read
\* of a check, "create", "reread", "remove" and "latest" the later calls.
Request == [pc: {"find", "address", "create", "reread", "remove", "latest",
                 "done"},
            op: {"ban", "unban", "check"},
            subject: Subjects \cup {None},
            address: Addresses \cup {None},
            row: Nat,
            answer: {"none", "banned", "unbanned", "notFound", "conflict",
                     "allowed", "denied"}]

Idle == [pc |-> "idle"]

\* The rows are rows, a request is idle or at one of its steps, and a removal
\* holds the row of its subject it is about to update.
TypeOK ==
  /\ ban \in Seq(Row)
  /\ request \in [Requests -> Request \cup {Idle}]
  /\ \A r \in Requests : request[r].pc = "remove" =>
       /\ request[r].row \in DOMAIN ban
       /\ ban[request[r].row].subject = request[r].subject
  /\ wasBanned \in [Requests -> SUBSET Subjects]
  /\ wasFree \in [Requests -> SUBSET Subjects]

-----------------------------------------------------------------------------
ActiveRow(s, i) ==
  i \in DOMAIN ban /\ ban[i].subject = s /\ ~ban[i].removed

\* findActiveMemberBan, findActiveIpBan, hasActiveMemberBan, hasActiveIpBan
IsBanned(s) == \E i \in DOMAIN ban : ActiveRow(s, i)

Banned == {s \in Subjects : IsBanned(s)}

RowsOf(s) == {i \in DOMAIN ban : ban[i].subject = s}

\* findLatestMemberBan, findLatestIpBan
IsLatest(s, i) == i \in RowsOf(s) /\ \A j \in RowsOf(s) : j <= i

Running(r) == request[r] # Idle /\ request[r].pc # "done"

\* History: every running request witnesses the table as this step leaves it.
Observe ==
  /\ wasBanned' = [r \in Requests |->
       IF Running(r) THEN wasBanned[r] \cup Banned' ELSE wasBanned[r]]
  /\ wasFree' = [r \in Requests |->
       IF Running(r) THEN wasFree[r] \cup (Subjects \ Banned') ELSE wasFree[r]]

Goto(r, pc) == request' = [request EXCEPT ![r].pc = pc]

Answer(r, answer) ==
  request' = [request EXCEPT ![r].pc = "done", ![r].answer = answer]

-----------------------------------------------------------------------------
Init ==
  /\ ban = <<>>
  /\ request = [r \in Requests |-> Idle]
  /\ wasBanned = [r \in Requests |-> {}]
  /\ wasFree = [r \in Requests |-> {}]

Begin(r, op, subject, address) ==
  /\ request[r] = Idle
  /\ op # "check" => subject # None /\ address = None
  /\ request' = [request EXCEPT ![r] =
       [pc |-> IF subject = None THEN "address" ELSE "find", op |-> op,
        subject |-> subject, address |-> address, row |-> 0,
        answer |-> "none"]]
  /\ wasBanned' = [wasBanned EXCEPT ![r] = Banned]
  /\ wasFree' = [wasFree EXCEPT ![r] = Subjects \ Banned]
  /\ UNCHANGED ban

\* Mutant of CheckMember: only the address of a caller is looked up.
CheckAddressOnly(r) ==
  LET q == request[r]
  IN /\ q.pc = "find" /\ q.op = "check"
     /\ Goto(r, "address")
     /\ UNCHANGED ban /\ Observe

\* A check names the member of a human caller or the target of an on-behalf
\* machine, and the trusted address of a caller that is no machine.
BeginCheck(r, member, address) ==
  /\ member \in Members \cup {None}
  /\ Begin(r, "check", member, address)

\* banMember, banIpAddress: a repeated ban answers with the row that is there.
BanFindActive(r) ==
  LET q == request[r]
  IN /\ q.pc = "find" /\ q.op = "ban"
     /\ IF IsBanned(q.subject) THEN Answer(r, "banned") ELSE Goto(r, "create")
     /\ UNCHANGED ban /\ Observe

\* Mutant of Create: the unique index covers nothing.
CreateUnguarded(r) ==
  LET q == request[r]
  IN /\ q.pc = "create"
     /\ Len(ban) < MaxRows
     /\ ban' = Append(ban, [subject |-> q.subject, removed |-> FALSE])
     /\ Answer(r, "banned")
     /\ Observe

\* The insert, refused by the partial unique index while a row is active.
Create(r) ==
  LET q == request[r]
  IN /\ q.pc = "create" /\ ~IsBanned(q.subject)
     /\ Len(ban) < MaxRows
     /\ ban' = Append(ban, [subject |-> q.subject, removed |-> FALSE])
     /\ Answer(r, "banned")
     /\ Observe

CreateConflict(r) ==
  LET q == request[r]
  IN /\ q.pc = "create" /\ IsBanned(q.subject)
     /\ Goto(r, "reread")
     /\ UNCHANGED ban /\ Observe

\* The conflicting row may be removed again by now: the error is rethrown.
Reread(r) ==
  LET q == request[r]
  IN /\ q.pc = "reread"
     /\ Answer(r, IF IsBanned(q.subject) THEN "banned" ELSE "conflict")
     /\ UNCHANGED ban /\ Observe

\* unbanMember, unbanIpAddress
UnbanFindActive(r) ==
  LET q == request[r]
  IN /\ q.pc = "find" /\ q.op = "unban"
     /\ IF IsBanned(q.subject)
        THEN \E i \in DOMAIN ban :
               /\ ActiveRow(q.subject, i)
               /\ request' = [request EXCEPT ![r].pc = "remove", ![r].row = i]
        ELSE Goto(r, "latest")
     /\ UNCHANGED ban /\ Observe

\* Mutant of Remove: the removal mark is toggled.
RemoveToggles(r) ==
  LET q == request[r]
  IN /\ q.pc = "remove"
     /\ ban' = [ban EXCEPT ![q.row].removed = ~@]
     /\ Answer(r, "unbanned")
     /\ Observe

\* An update by id, whoever has removed the row meanwhile.
Remove(r) ==
  LET q == request[r]
  IN /\ q.pc = "remove"
     /\ ban' = [ban EXCEPT ![q.row].removed = TRUE]
     /\ Answer(r, "unbanned")
     /\ Observe

\* The newest row is reported as it is: a ban may have come meanwhile.
FindLatest(r) ==
  LET q == request[r]
  IN /\ q.pc = "latest"
     /\ \/ RowsOf(q.subject) = {} /\ Answer(r, "notFound")
        \/ \E i \in RowsOf(q.subject) :
             /\ IsLatest(q.subject, i)
             /\ Answer(r, IF ban[i].removed THEN "unbanned" ELSE "banned")
     /\ UNCHANGED ban /\ Observe

\* decideForRequestActorBan, decideForTargetMemberBan
CheckMember(r) ==
  LET q == request[r]
  IN /\ q.pc = "find" /\ q.op = "check"
     /\ IF IsBanned(q.subject) THEN Answer(r, "denied") ELSE Goto(r, "address")
     /\ UNCHANGED ban /\ Observe

CheckAddress(r) ==
  LET q == request[r]
  IN /\ q.pc = "address"
     /\ Answer(r, IF q.address # None /\ IsBanned(q.address)
                  THEN "denied" ELSE "allowed")
     /\ UNCHANGED ban /\ Observe

\* The answer was delivered, or the request failed or was lost before it.
End(r) ==
  /\ request[r] # Idle
  /\ request' = [request EXCEPT ![r] = Idle]
  /\ wasBanned' = [wasBanned EXCEPT ![r] = {}]
  /\ wasFree' = [wasFree EXCEPT ![r] = {}]
  /\ UNCHANGED ban

Next ==
  \/ \E r \in Requests, op \in {"ban", "unban"}, s \in Subjects :
       Begin(r, op, s, None)
  \/ \E r \in Requests, m \in Members \cup {None}, a \in Addresses \cup {None} :
       BeginCheck(r, m, a)
  \/ \E r \in Requests :
       \/ BanFindActive(r) \/ Create(r) \/ CreateConflict(r) \/ Reread(r)
       \/ UnbanFindActive(r) \/ Remove(r) \/ FindLatest(r)
       \/ CheckMember(r) \/ CheckAddress(r)
       \/ End(r)

Spec == Init /\ [][Next]_vars

-----------------------------------------------------------------------------
(* Properties                                                              *)

\* At no time has a member or an address two active ban rows, so that removing
\* one row always lifts the ban.
OneActiveRow ==
  \A i, j \in DOMAIN ban :
    /\ ban[i].subject = ban[j].subject
    /\ ~ban[i].removed /\ ~ban[j].removed
    => i = j

SubjectsOf(q) == {q.subject, q.address} \ {None}

\* What an answer says of its subjects S, when those in B were seen banned
\* and those in F were seen free.
AnswerHolds(answer, S, B, F) ==
  /\ answer \in {"banned", "conflict"} => S \subseteq B
  /\ answer \in {"unbanned", "notFound", "conflict", "allowed"} => S \subseteq F
  /\ answer = "denied" => S \cap B # {}

\* Answers are true of some moment while the request ran, although the methods
\* read, write and recover from conflicts without a transaction: a ban answers
\* with a ban that was in force, an unban that reports the ban lifted saw it
\* lifted (by itself or by another request that removed the same row), a ban
\* fails only when a ban and an unban of others raced with it, and a command
\* passes only if its member and its address were both free of bans while it
\* ran, and is denied only if one was not.
AnswersHold ==
  \A r \in Requests : request[r].pc = "done" =>
    AnswerHolds(request[r].answer, SubjectsOf(request[r]),
                wasBanned[r], wasFree[r])

\* The tables implement the register: every step is a step of one call, and
\* only a call asked to changes what is banned.
Register == INSTANCE BanRegister WITH
  Calls <- Requests,
  banned <- Banned,
  call <- [r \in Requests |->
    IF request[r] = Idle THEN [op |-> "none"]
    ELSE [op |-> request[r].op, subjects |-> SubjectsOf(request[r]),
          answer |-> request[r].answer,
          wasBanned |-> wasBanned[r], wasFree |-> wasFree[r]]]

ImplementsRegister == Register!Spec
=============================================================================
