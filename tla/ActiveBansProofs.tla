-------------------------- MODULE ActiveBansProofs --------------------------
(***************************************************************************)
(* Proofs about ActiveBans, for any members, addresses and requests, and   *)
(* any bound on the rows.                                                  *)
(*                                                                         *)
(* The inductive invariant says what a request has witnessed by the time   *)
(* it reaches a step.  The delicate case is a removal by id: the row it    *)
(* holds may have been removed by another request and the subject banned   *)
(* again, so the invariant records that a row found removed was seen       *)
(* lifted.  That needs OneActiveRow: the subject was free at the moment    *)
(* its only active row went.                                               *)
(*                                                                         *)
(* The last section shows that the tables implement BanRegister.           *)
(***************************************************************************)
EXTENDS ActiveBans, SequenceTheorems, TLAPS

\* What the witnesses of a request hold at each of its steps.
Witnessed(r) ==
  LET q == request[r] IN
  q # Idle =>
    /\ q.op = "check" \/ (q.subject \in Subjects /\ q.address = None)
    /\ q.pc = "find" => q.subject \in Subjects
    /\ q.pc # "done" => /\ Banned \subseteq wasBanned[r]
                        /\ Subjects \ Banned \subseteq wasFree[r]
    /\ q.pc \in {"create", "reread"} => q.op = "ban"
    /\ q.pc \in {"remove", "latest"} => q.op = "unban"
    /\ q.pc = "address" => q.op = "check"
    /\ q.pc \in {"create", "reread", "latest"} => q.subject \in wasFree[r]
    /\ q.pc = "reread" => q.subject \in wasBanned[r]
    /\ q.pc = "address" /\ q.subject # None => q.subject \in wasFree[r]
    /\ q.pc = "remove" /\ ban[q.row].removed => q.subject \in wasFree[r]
    /\ q.pc # "done" => q.answer = "none"
    /\ q.pc = "done" => q.answer # "none"

IInv == /\ TypeOK /\ OneActiveRow /\ AnswersHold
        /\ \A r \in Requests : Witnessed(r)

LEMMA InitIInv == Init => IInv
<1> SUFFICES ASSUME Init
             PROVE  IInv
  OBVIOUS
<1> USE DEF Init, Idle
<1>1. TypeOK
  BY DEF TypeOK
<1>2. OneActiveRow
  BY DEF OneActiveRow
<1>3. AnswersHold
  BY DEF AnswersHold
<1>4. \A r \in Requests : Witnessed(r)
  BY DEF Witnessed
<1>5. QED BY <1>1, <1>2, <1>3, <1>4 DEF IInv

-----------------------------------------------------------------------------
(* Steps of one request                                                    *)

\* A row that is removed lifts the ban of its subject, if it was active.
LEMMA RemovalLifts ==
  ASSUME OneActiveRow, ban \in Seq(Row), NEW i \in DOMAIN ban,
         ban' = [ban EXCEPT ![i].removed = TRUE]
  PROVE  /\ ban' \in Seq(Row) /\ OneActiveRow'
         /\ DOMAIN ban' = DOMAIN ban
         /\ \A j \in DOMAIN ban : /\ ban'[j].subject = ban[j].subject
                                  /\ ban[j].removed => ban'[j].removed
                                  /\ j # i => ban'[j] = ban[j]
         /\ Banned' \subseteq Banned
         /\ \A j \in DOMAIN ban :
              ~ban[j].removed /\ ban'[j].removed => ban[j].subject \notin Banned'
         /\ ban[i].subject \in Banned' => ban[i].removed
<1>1. /\ ban' \in Seq(Row) /\ DOMAIN ban' = DOMAIN ban
      /\ ban'[i] = [ban[i] EXCEPT !.removed = TRUE]
      /\ \A j \in DOMAIN ban : ban[j] \in Row /\ (j # i => ban'[j] = ban[j])
  <2>1. /\ DOMAIN ban = 1..Len(ban)
        /\ \A j \in DOMAIN ban : ban[j] \in Row
    BY LenProperties, ElementOfSeq
  <2> DEFINE row == [ban[i] EXCEPT !.removed = TRUE]
  <2>2. row \in Row
    BY <2>1 DEF Row
  <2>3. ban' = [ban EXCEPT ![i] = row]
    OBVIOUS
  <2> HIDE DEF row
  <2>4. /\ ban' \in Seq(Row) /\ Len(ban') = Len(ban)
        /\ \A j \in 1..Len(ban) : ban'[j] = IF j = i THEN row ELSE ban[j]
    <3>1. i \in 1..Len(ban)
      BY <2>1
    <3>2. /\ [ban EXCEPT ![i] = row] \in Seq(Row)
          /\ Len([ban EXCEPT ![i] = row]) = Len(ban)
          /\ \A j \in 1..Len(ban) :
               [ban EXCEPT ![i] = row][j] = IF j = i THEN row ELSE ban[j]
      BY <2>2, <3>1, ExceptSeq
    <3>3. QED BY <2>3, <3>2
  <2>5. DOMAIN ban' = 1..Len(ban')
    BY <2>4, LenProperties
  <2>6. QED BY <2>1, <2>4, <2>5 DEF row
<1>2. ban'[i].removed /\ ban'[i].subject = ban[i].subject
  BY <1>1 DEF Row
<1>3. \A j \in DOMAIN ban : /\ ban'[j].subject = ban[j].subject
                            /\ ban[j].removed => ban'[j].removed
  BY <1>1, <1>2
<1>4. OneActiveRow'
  BY <1>1, <1>3 DEF OneActiveRow
<1>5. Banned' \subseteq Banned
  BY <1>1, <1>3 DEF Banned, IsBanned, ActiveRow
<1>6. ASSUME NEW j \in DOMAIN ban, ~ban[j].removed, ban'[j].removed,
             ban[j].subject \in Banned'
      PROVE  FALSE
  <2>1. PICK k \in DOMAIN ban : ban'[k].subject = ban[j].subject /\ ~ban'[k].removed
    BY <1>1, <1>6 DEF Banned, IsBanned, ActiveRow
  <2>2. k = j
    BY <1>3, <1>6, <2>1 DEF OneActiveRow
  <2>3. QED BY <1>6, <2>1, <2>2
<1>7. ban[i].subject \in Banned' => ban[i].removed
  BY <1>2, <1>6
<1>8. QED BY <1>1, <1>3, <1>4, <1>5, <1>6, <1>7

\* An insert, which the partial unique index lets through.
LEMMA InsertBans ==
  ASSUME OneActiveRow, ban \in Seq(Row), NEW s \in Subjects, ~IsBanned(s),
         ban' = Append(ban, [subject |-> s, removed |-> FALSE])
  PROVE  /\ ban' \in Seq(Row) /\ OneActiveRow'
         /\ \A j \in DOMAIN ban : j \in DOMAIN ban' /\ ban'[j] = ban[j]
         /\ Banned' = Banned \cup {s}
<1> DEFINE row == [subject |-> s, removed |-> FALSE]
<1>1. row \in Row
  BY DEF Row
<1>2. row.subject = s /\ ~row.removed
  OBVIOUS
<1> HIDE DEF row
<1>3. ban' = Append(ban, row)
  BY DEF row
<1>4. /\ ban' \in Seq(Row)
      /\ Len(ban) \in Nat /\ DOMAIN ban = 1..Len(ban)
      /\ DOMAIN ban' = 1..(Len(ban) + 1)
      /\ ban'[Len(ban) + 1] = row
      /\ \A j \in 1..Len(ban) : ban'[j] = ban[j]
  BY <1>1, <1>3
<1>5. \A j \in DOMAIN ban : j \in DOMAIN ban' /\ ban'[j] = ban[j]
  BY <1>4
<1>6. \A j \in DOMAIN ban' : j \in DOMAIN ban \/ j = Len(ban) + 1
  BY <1>4
<1>7. \A j \in DOMAIN ban : ban[j].subject = s => ban[j].removed
  BY DEF IsBanned, ActiveRow
<1>8. OneActiveRow'
  BY <1>2, <1>4, <1>5, <1>6, <1>7 DEF OneActiveRow
<1>9. \A u \in Subjects : IsBanned(u)' <=> IsBanned(u) \/ u = s
  <2> TAKE u \in Subjects
  <2>1. IsBanned(u) => IsBanned(u)'
    BY <1>5 DEF IsBanned, ActiveRow
  <2>2. IsBanned(s)'
    <3>1. Len(ban) + 1 \in DOMAIN ban'
      BY <1>4
    <3>2. QED BY <1>2, <1>4, <3>1 DEF IsBanned, ActiveRow
  <2>3. IsBanned(u)' => IsBanned(u) \/ u = s
    BY <1>2, <1>4, <1>5, <1>6 DEF IsBanned, ActiveRow
  <2>4. QED BY <2>1, <2>2, <2>3
<1>10. Banned' = Banned \cup {s}
  BY <1>9 DEF Banned
<1>11. QED BY <1>4, <1>5, <1>8, <1>10

\* The parts of TypeOK and AnswersHold that speak of one request.
HoldsRow(r) ==
  request[r].pc = "remove" =>
    /\ request[r].row \in DOMAIN ban
    /\ ban[request[r].row].subject = request[r].subject

Answered(r) ==
  request[r].pc = "done" =>
    AnswerHolds(request[r].answer, SubjectsOf(request[r]),
                wasBanned[r], wasFree[r])

\* What the writes above have in common.
RowsPersist ==
  \A j \in DOMAIN ban :
    /\ j \in DOMAIN ban' /\ ban'[j].subject = ban[j].subject
    /\ ~ban[j].removed /\ ban'[j].removed => ban[j].subject \notin Banned'

\* A step of another request keeps what request x knows.
LEMMA OthersKeep ==
  ASSUME IInv, NEW x \in Requests, request'[x] = request[x],
         RowsPersist, Observe
  PROVE  Witnessed(x)' /\ HoldsRow(x)' /\ Answered(x)'
<1>1. Witnessed(x) /\ HoldsRow(x) /\ Answered(x)
  BY DEF IInv, TypeOK, AnswersHold, HoldsRow, Answered
<1>2. request[x] # Idle => request[x] \in Request
  BY DEF IInv, TypeOK
<1>3. HoldsRow(x)'
  BY <1>1 DEF HoldsRow, RowsPersist
<1>4. CASE ~Running(x)
  <2>1. wasBanned'[x] = wasBanned[x] /\ wasFree'[x] = wasFree[x]
    BY <1>4 DEF Observe
  <2>2. Answered(x)'
    BY <1>1, <2>1 DEF Answered, SubjectsOf
  <2>3. request[x] # Idle => request[x].pc = "done"
    BY <1>4 DEF Running
  <2>4. Witnessed(x)'
    BY <1>1, <2>3 DEF Witnessed, Idle
  <2>5. QED BY <1>3, <2>2, <2>4
<1>5. CASE Running(x)
  <2>1. /\ wasBanned'[x] = wasBanned[x] \cup Banned'
        /\ wasFree'[x] = wasFree[x] \cup (Subjects \ Banned')
        /\ request[x].pc # "done" /\ request[x] # Idle
    BY <1>5 DEF Observe, Running
  <2>2. Answered(x)'
    BY <2>1 DEF Answered, AnswerHolds
  <2>3. request[x].pc = "remove" /\ ban'[request[x].row].removed =>
          request[x].subject \in wasFree'[x]
    BY <1>1, <2>1 DEF Witnessed, HoldsRow, RowsPersist
  <2>4. Witnessed(x)'
    BY <1>1, <2>1, <2>3 DEF Witnessed
  <2>5. QED BY <1>3, <2>2, <2>4
<1>6. QED BY <1>4, <1>5

\* A step of request r, from its effect on r alone.
LEMMA StepKeepsIInv ==
  ASSUME IInv, NEW r \in Requests, NEW q \in Request,
         request' = [request EXCEPT ![r] = q],
         ban' \in Seq(Row), OneActiveRow', RowsPersist, Observe,
         Witnessed(r)', HoldsRow(r)', Answered(r)'
  PROVE  IInv'
<1>1. /\ request \in [Requests -> Request \cup {Idle}]
      /\ wasBanned \in [Requests -> SUBSET Subjects]
      /\ wasFree \in [Requests -> SUBSET Subjects]
  BY DEF IInv, TypeOK
<1>2. \A x \in Requests : x # r => request'[x] = request[x]
  BY <1>1
<1>3. \A x \in Requests : Witnessed(x)' /\ HoldsRow(x)' /\ Answered(x)'
  BY <1>2, OthersKeep
<1>4. request' \in [Requests -> Request \cup {Idle}]
  BY <1>1
<1>5. /\ wasBanned' \in [Requests -> SUBSET Subjects]
      /\ wasFree' \in [Requests -> SUBSET Subjects]
  BY <1>1 DEF Observe, Banned
<1>6. TypeOK'
  BY <1>3, <1>4, <1>5 DEF TypeOK, HoldsRow
<1>7. AnswersHold'
  BY <1>3 DEF AnswersHold, Answered
<1>8. QED BY <1>3, <1>6, <1>7 DEF IInv

\* The same for a step that only reads.
LEMMA ReadKeepsIInv ==
  ASSUME IInv, NEW r \in Requests, NEW q \in Request,
         request' = [request EXCEPT ![r] = q], UNCHANGED ban, Observe,
         Witnessed(r)', HoldsRow(r)', Answered(r)'
  PROVE  IInv'
<1>1. ban' \in Seq(Row) /\ OneActiveRow'
  BY DEF IInv, TypeOK, OneActiveRow
<1>2. RowsPersist
  BY DEF RowsPersist
<1>3. QED BY <1>1, <1>2, StepKeepsIInv

-----------------------------------------------------------------------------
LEMMA NextIInv == IInv /\ [Next]_vars => IInv'
<1> SUFFICES ASSUME IInv, [Next]_vars
             PROVE  IInv'
  OBVIOUS
<1>1. /\ ban \in Seq(Row)
      /\ request \in [Requests -> Request \cup {Idle}]
      /\ wasBanned \in [Requests -> SUBSET Subjects]
      /\ wasFree \in [Requests -> SUBSET Subjects]
  BY DEF IInv, TypeOK
<1>2. \A r \in Requests : /\ Witnessed(r) /\ HoldsRow(r) /\ Answered(r)
                          /\ request[r] # Idle => request[r] \in Request
  BY <1>1 DEF IInv, TypeOK, AnswersHold, HoldsRow, Answered
<1>3. \A s \in Subjects : s \in Banned <=> IsBanned(s)
  BY DEF Banned
\* A running request that moves to pc, or answers, without writing a row.
<1>4. ASSUME NEW r \in Requests, Running(r), UNCHANGED ban, Observe,
             NEW pc \in {"address", "create", "reread", "latest"},
             request' = [request EXCEPT ![r].pc = pc],
             Witnessed(r)'
      PROVE  IInv'
  <2> DEFINE q == [request[r] EXCEPT !.pc = pc]
  <2>1. request[r] \in Request
    BY <1>2, <1>4 DEF Running
  <2>2. q \in Request /\ q.pc = pc /\ request' = [request EXCEPT ![r] = q]
    BY <1>4, <2>1 DEF Request
  <2>3. request'[r] = q
    BY <1>1, <2>2
  <2> HIDE DEF q
  <2>4. HoldsRow(r)' /\ Answered(r)'
    BY <1>4, <2>2, <2>3 DEF HoldsRow, Answered
  <2>5. QED BY <1>4, <2>2, <2>4, ReadKeepsIInv
<1>5. ASSUME NEW r \in Requests, Running(r), Observe,
             NEW answer \in {"banned", "unbanned", "notFound", "conflict",
                             "allowed", "denied"},
             Answer(r, answer),
             ban' \in Seq(Row), OneActiveRow', RowsPersist,
             Answered(r)'
      PROVE  IInv'
  <2> DEFINE q == [request[r] EXCEPT !.pc = "done", !.answer = answer]
  <2>1. request[r] \in Request
    BY <1>2, <1>5 DEF Running
  <2>2. /\ q \in Request /\ q.pc = "done" /\ q.answer = answer
        /\ q.op = request[r].op /\ q.subject = request[r].subject
        /\ q.address = request[r].address
        /\ request' = [request EXCEPT ![r] = q]
    BY <1>5, <2>1 DEF Request, Answer
  <2>3. request'[r] = q
    BY <1>1, <2>2
  <2> HIDE DEF q
  <2>4. HoldsRow(r)'
    BY <2>2, <2>3 DEF HoldsRow
  <2>5. Witnessed(r)'
    BY <1>2, <1>5, <2>2, <2>3 DEF Witnessed, Running
  <2>6. QED BY <1>5, <2>2, <2>4, <2>5, StepKeepsIInv
<1>6. ASSUME NEW r \in Requests, Running(r), UNCHANGED ban, Observe,
             NEW answer \in {"banned", "unbanned", "notFound", "conflict",
                             "allowed", "denied"},
             Answer(r, answer), Answered(r)'
      PROVE  IInv'
  <2>1. ban' \in Seq(Row) /\ OneActiveRow'
    BY <1>1, <1>6 DEF IInv, OneActiveRow
  <2>2. RowsPersist
    BY <1>6 DEF RowsPersist
  <2>3. QED BY <1>5, <1>6, <2>1, <2>2
\* What the request looks like after it answers or moves, and its witnesses.
<1>7. ASSUME NEW r \in Requests, Running(r), Observe
      PROVE  /\ request[r] \in Request
             /\ wasBanned'[r] = wasBanned[r] \cup Banned'
             /\ wasFree'[r] = wasFree[r] \cup (Subjects \ Banned')
  BY <1>2, <1>7 DEF Running, Observe
<1>8. ASSUME NEW r \in Requests, NEW answer, Running(r), Answer(r, answer)
      PROVE  /\ request'[r].answer = answer
             /\ request'[r].subject = request[r].subject
             /\ request'[r].address = request[r].address
             /\ SubjectsOf(request'[r]) = SubjectsOf(request[r])
  BY <1>1, <1>2, <1>8 DEF Answer, Running, Request, SubjectsOf
<1>9. ASSUME NEW r \in Requests, NEW pc, Running(r), Goto(r, pc)
      PROVE  /\ request'[r] # Idle => request'[r].pc = pc
             /\ request'[r].op = request[r].op
             /\ request'[r].subject = request[r].subject
             /\ request'[r].address = request[r].address
             /\ request'[r].answer = request[r].answer
  BY <1>1, <1>2, <1>9 DEF Goto, Running, Request
<1>10. UNCHANGED ban => Banned' = Banned
  BY DEF Banned, IsBanned, ActiveRow
<1>11. \A r \in Requests : request[r].pc \notin {"idle", "done"} => Running(r)
  BY DEF Running, Idle
\* The subjects of a ban or an unban are the one it names.
<1>12. ASSUME NEW r \in Requests, NEW answer, Running(r), Answer(r, answer),
              request[r].op # "check"
       PROVE  /\ request[r].subject \in Subjects
              /\ SubjectsOf(request'[r]) = {request[r].subject}
  BY <1>2, <1>8, <1>12, SubjectAssumption DEF Witnessed, Running, SubjectsOf
<1>13. ASSUME NEW r \in Requests, BanFindActive(r)
       PROVE  IInv'
  <2>1. Running(r) /\ UNCHANGED ban /\ Observe
    BY <1>11, <1>13 DEF BanFindActive
  <2>2. request[r].subject \in Subjects /\ request[r].op = "ban"
    BY <1>2, <1>13, <2>1 DEF Witnessed, BanFindActive, Running
  <2>3. CASE IsBanned(request[r].subject)
    <3>1. Answer(r, "banned")
      BY <1>13, <2>3 DEF BanFindActive
    <3>2. Answered(r)'
      BY <1>3, <1>7, <1>8, <1>10, <1>12, <2>1, <2>2, <2>3, <3>1 DEF Answered, AnswerHolds
    <3>3. QED BY <1>6, <2>1, <3>1, <3>2
  <2>4. CASE ~IsBanned(request[r].subject)
    <3>1. Goto(r, "create")
      BY <1>13, <2>4 DEF BanFindActive
    <3>2. Witnessed(r)'
      BY <1>2, <1>3, <1>7, <1>9, <1>10, <2>1, <2>2, <2>4, <3>1
      DEF Witnessed, Running
    <3>3. QED BY <1>4, <2>1, <3>1, <3>2 DEF Goto
  <2>5. QED BY <2>3, <2>4
<1>14. ASSUME NEW r \in Requests, Create(r)
       PROVE  IInv'
  <2>1. Running(r) /\ Observe /\ Answer(r, "banned")
    BY <1>11, <1>14 DEF Create
  <2>2. request[r].subject \in Subjects /\ request[r].op = "ban"
    BY <1>2, <1>14, <2>1 DEF Witnessed, Create, Running
  <2>3. /\ ban' \in Seq(Row) /\ OneActiveRow'
        /\ \A j \in DOMAIN ban : j \in DOMAIN ban' /\ ban'[j] = ban[j]
        /\ Banned' = Banned \cup {request[r].subject}
    BY <1>1, <1>14, <2>2, InsertBans DEF Create, IInv
  <2>4. RowsPersist
    BY <2>3 DEF RowsPersist
  <2>5. Answered(r)'
    BY <1>7, <1>8, <1>12, <2>1, <2>2, <2>3 DEF Answered, AnswerHolds
  <2>6. QED BY <1>5, <2>1, <2>3, <2>4, <2>5
<1>15. ASSUME NEW r \in Requests, CreateConflict(r)
       PROVE  IInv'
  <2>1. Running(r) /\ UNCHANGED ban /\ Observe /\ Goto(r, "reread")
    BY <1>11, <1>15 DEF CreateConflict
  <2>2. /\ request[r].subject \in Subjects /\ request[r].op = "ban"
        /\ request[r].subject \in Banned
    BY <1>2, <1>3, <1>15, <2>1 DEF Witnessed, CreateConflict, Running
  <2>3. Witnessed(r)'
    BY <1>2, <1>7, <1>9, <1>10, <1>15, <2>1, <2>2
    DEF Witnessed, Running, CreateConflict
  <2>4. QED BY <1>4, <2>1, <2>3 DEF Goto
<1>16. ASSUME NEW r \in Requests, Reread(r)
       PROVE  IInv'
  <2>1. Running(r) /\ UNCHANGED ban /\ Observe
    BY <1>11, <1>16 DEF Reread
  <2>2. PICK answer \in {"banned", "conflict"} : Answer(r, answer)
    BY <1>16 DEF Reread
  <2>3. /\ request[r].op = "ban"
        /\ request[r].subject \in wasBanned[r] \cap wasFree[r]
    BY <1>2, <1>16, <2>1 DEF Witnessed, Reread, Running
  <2>4. Answered(r)'
    BY <1>7, <1>8, <1>12, <2>1, <2>2, <2>3 DEF Answered, AnswerHolds
  <2>5. QED BY <1>6, <2>1, <2>2, <2>4
<1>17. ASSUME NEW r \in Requests, UnbanFindActive(r)
       PROVE  IInv'
  <2>1. Running(r) /\ UNCHANGED ban /\ Observe
    BY <1>11, <1>17 DEF UnbanFindActive
  <2>2. request[r].subject \in Subjects /\ request[r].op = "unban"
    BY <1>2, <1>17, <2>1 DEF Witnessed, UnbanFindActive, Running
  <2>3. CASE IsBanned(request[r].subject)
    <3>1. PICK i \in DOMAIN ban :
            /\ ActiveRow(request[r].subject, i)
            /\ request' = [request EXCEPT ![r].pc = "remove", ![r].row = i]
      BY <1>17, <2>3 DEF UnbanFindActive
    <3> DEFINE q == [request[r] EXCEPT !.pc = "remove", !.row = i]
    <3>2. i \in Nat /\ request[r] \in Request
      BY <1>1, <1>7, <2>1, LenProperties
    <3>3. /\ q \in Request /\ q.pc = "remove" /\ q.row = i
          /\ q.op = "unban" /\ q.subject = request[r].subject
          /\ q.address = request[r].address /\ q.answer = request[r].answer
          /\ request' = [request EXCEPT ![r] = q]
      BY <2>2, <3>1, <3>2 DEF Request
    <3>4. request'[r] = q
      BY <1>1, <3>3
    <3> HIDE DEF q
    <3>5. HoldsRow(r)' /\ Answered(r)'
      BY <2>1, <3>1, <3>3, <3>4 DEF HoldsRow, Answered, ActiveRow
    <3>6. Witnessed(r)'
      BY <1>2, <1>7, <1>10, <2>1, <2>2, <3>1, <3>3, <3>4
      DEF Witnessed, Running, ActiveRow
    <3>7. QED BY <2>1, <3>3, <3>5, <3>6, ReadKeepsIInv
  <2>4. CASE ~IsBanned(request[r].subject)
    <3>1. Goto(r, "latest")
      BY <1>17, <2>4 DEF UnbanFindActive
    <3>2. Witnessed(r)'
      BY <1>2, <1>3, <1>7, <1>9, <1>10, <2>1, <2>2, <2>4, <3>1
      DEF Witnessed, Running
    <3>3. QED BY <1>4, <2>1, <3>1, <3>2 DEF Goto
  <2>5. QED BY <2>3, <2>4
<1>18. ASSUME NEW r \in Requests, Remove(r)
       PROVE  IInv'
  <2>1. Running(r) /\ Observe /\ Answer(r, "unbanned")
    BY <1>11, <1>18 DEF Remove
  <2>2. /\ request[r].row \in DOMAIN ban /\ request[r].op = "unban"
        /\ ban[request[r].row].subject = request[r].subject
        /\ ban[request[r].row].removed => request[r].subject \in wasFree[r]
    BY <1>2, <1>18, <2>1 DEF Witnessed, HoldsRow, Remove, Running
  <2>3. ban' = [ban EXCEPT ![request[r].row].removed = TRUE]
    BY <1>18 DEF Remove
  <2>4. /\ ban' \in Seq(Row) /\ OneActiveRow' /\ RowsPersist
        /\ request[r].subject \in Banned' => ban[request[r].row].removed
    BY <1>1, <2>2, <2>3, RemovalLifts DEF IInv, RowsPersist
  <2>5. Answered(r)'
    BY <1>7, <1>8, <1>12, <2>1, <2>2, <2>4 DEF Answered, AnswerHolds
  <2>6. QED BY <1>5, <2>1, <2>4, <2>5
<1>19. ASSUME NEW r \in Requests, FindLatest(r)
       PROVE  IInv'
  <2>1. Running(r) /\ UNCHANGED ban /\ Observe
    BY <1>11, <1>19 DEF FindLatest
  <2>2. request[r].op = "unban" /\ request[r].subject \in wasFree[r]
    BY <1>2, <1>19, <2>1 DEF Witnessed, FindLatest, Running
  <2>3. CASE Answer(r, "notFound") \/ Answer(r, "unbanned")
    <3>1. PICK answer \in {"notFound", "unbanned"} : Answer(r, answer)
      BY <2>3
    <3>2. Answered(r)'
      BY <1>7, <1>8, <1>12, <2>1, <2>2, <3>1 DEF Answered, AnswerHolds
    <3>3. QED BY <1>6, <2>1, <3>1, <3>2
  <2>4. ASSUME NEW i \in RowsOf(request[r].subject), ~ban[i].removed,
               Answer(r, "banned")
        PROVE  IInv'
    <3>1. request[r].subject \in Banned
      BY <1>3, <1>12, <2>1, <2>2, <2>4 DEF RowsOf, IsBanned, ActiveRow
    <3>2. Answered(r)'
      BY <1>7, <1>8, <1>10, <1>12, <2>1, <2>2, <2>4, <3>1 DEF Answered, AnswerHolds
    <3>3. QED BY <1>6, <2>1, <2>4, <3>2
  <2>5. QED BY <1>19, <2>3, <2>4 DEF FindLatest
<1>20. ASSUME NEW r \in Requests, CheckMember(r)
       PROVE  IInv'
  <2>1. Running(r) /\ UNCHANGED ban /\ Observe
    BY <1>11, <1>20 DEF CheckMember
  <2>2. request[r].subject \in Subjects /\ request[r].op = "check"
    BY <1>2, <1>20, <2>1 DEF Witnessed, CheckMember, Running
  <2>3. CASE IsBanned(request[r].subject)
    <3>1. Answer(r, "denied")
      BY <1>20, <2>3 DEF CheckMember
    <3>2. request[r].subject \in SubjectsOf(request'[r]) \cap wasBanned'[r]
      BY <1>3, <1>7, <1>8, <1>10, <2>1, <2>2, <2>3, <3>1, SubjectAssumption
      DEF SubjectsOf
    <3>3. Answered(r)'
      BY <1>8, <2>1, <3>1, <3>2 DEF Answered, AnswerHolds
    <3>4. QED BY <1>6, <2>1, <3>1, <3>3
  <2>4. CASE ~IsBanned(request[r].subject)
    <3>1. Goto(r, "address")
      BY <1>20, <2>4 DEF CheckMember
    <3>2. Witnessed(r)'
      BY <1>2, <1>3, <1>7, <1>9, <1>10, <2>1, <2>2, <2>4, <3>1
      DEF Witnessed, Running
    <3>3. QED BY <1>4, <2>1, <3>1, <3>2 DEF Goto
  <2>5. QED BY <2>3, <2>4
<1>21. ASSUME NEW r \in Requests, CheckAddress(r)
       PROVE  IInv'
  <2>1. Running(r) /\ UNCHANGED ban /\ Observe
    BY <1>11, <1>21 DEF CheckAddress
  <2>2. /\ request[r].subject # None => request[r].subject \in wasFree[r]
        /\ request[r].address # None => request[r].address \in Subjects
    BY <1>2, <1>7, <1>21, <2>1
    DEF Witnessed, CheckAddress, Running, Request, Subjects
  <2>3. CASE request[r].address # None /\ IsBanned(request[r].address)
    <3>1. Answer(r, "denied")
      BY <1>21, <2>3 DEF CheckAddress
    <3>2. request[r].address \in SubjectsOf(request'[r]) \cap wasBanned'[r]
      BY <1>3, <1>7, <1>8, <1>10, <2>1, <2>2, <2>3, <3>1 DEF SubjectsOf
    <3>3. Answered(r)'
      BY <1>8, <2>1, <3>1, <3>2 DEF Answered, AnswerHolds
    <3>4. QED BY <1>6, <2>1, <3>1, <3>3
  <2>4. CASE ~(request[r].address # None /\ IsBanned(request[r].address))
    <3>1. Answer(r, "allowed")
      BY <1>21, <2>4 DEF CheckAddress
    <3>2. SubjectsOf(request'[r]) \subseteq wasFree'[r]
      BY <1>3, <1>7, <1>8, <1>10, <2>1, <2>2, <2>4, <3>1 DEF SubjectsOf
    <3>3. Answered(r)'
      BY <1>8, <2>1, <3>1, <3>2 DEF Answered, AnswerHolds
    <3>4. QED BY <1>6, <2>1, <3>1, <3>3
  <2>5. QED BY <2>3, <2>4
\* A request that begins or ends observes nothing for the others.
<1>22. ASSUME NEW r \in Requests, NEW q \in Request \cup {Idle},
              NEW B \in SUBSET Subjects, NEW F \in SUBSET Subjects,
              request' = [request EXCEPT ![r] = q],
              wasBanned' = [wasBanned EXCEPT ![r] = B],
              wasFree' = [wasFree EXCEPT ![r] = F],
              UNCHANGED ban, q.pc \notin {"remove", "done"},
              Witnessed(r)'
       PROVE  IInv'
  <2>1. /\ request' \in [Requests -> Request \cup {Idle}]
        /\ wasBanned' \in [Requests -> SUBSET Subjects]
        /\ wasFree' \in [Requests -> SUBSET Subjects]
        /\ request'[r] = q
        /\ \A x \in Requests : x # r => /\ request'[x] = request[x]
                                        /\ wasBanned'[x] = wasBanned[x]
                                        /\ wasFree'[x] = wasFree[x]
    BY <1>1, <1>22
  <2>2. ASSUME NEW x \in Requests
        PROVE  Witnessed(x)' /\ HoldsRow(x)' /\ Answered(x)'
    <3>1. CASE x = r
      BY <1>22, <2>1, <3>1 DEF HoldsRow, Answered
    <3>2. CASE x # r
      BY <1>2, <1>10, <1>22, <2>1, <3>2 DEF Witnessed, HoldsRow, Answered
    <3>3. QED BY <3>1, <3>2
  <2>3. TypeOK'
    BY <1>1, <1>22, <2>1, <2>2 DEF TypeOK, HoldsRow
  <2>4. OneActiveRow'
    BY <1>22 DEF IInv, OneActiveRow
  <2>5. AnswersHold'
    BY <2>2 DEF AnswersHold, Answered
  <2>6. QED BY <2>2, <2>3, <2>4, <2>5 DEF IInv
<1>23. ASSUME NEW r \in Requests, NEW op \in {"ban", "unban", "check"},
              NEW s \in Subjects \cup {None}, NEW a \in Addresses \cup {None},
              Begin(r, op, s, a)
       PROVE  IInv'
  <2> DEFINE q == [pc |-> IF s = None THEN "address" ELSE "find", op |-> op,
                   subject |-> s, address |-> a, row |-> 0, answer |-> "none"]
  <2>1. /\ q \in Request /\ q.pc \notin {"remove", "done"} /\ q # Idle
        /\ request' = [request EXCEPT ![r] = q]
        /\ wasBanned' = [wasBanned EXCEPT ![r] = Banned]
        /\ wasFree' = [wasFree EXCEPT ![r] = Subjects \ Banned]
        /\ UNCHANGED ban
        /\ op # "check" => s # None /\ a = None
    BY <1>23 DEF Begin, Request, Idle
  <2>2. request'[r] = q /\ wasBanned'[r] = Banned /\ wasFree'[r] = Subjects \ Banned
    BY <1>1, <2>1
  <2>3. Witnessed(r)'
    BY <1>10, <2>1, <2>2 DEF Witnessed
  <2> HIDE DEF q
  <2>4. Banned \in SUBSET Subjects
    BY DEF Banned
  <2>5. QED BY <1>22, <2>1, <2>3, <2>4
<1>24. ASSUME NEW r \in Requests, End(r)
       PROVE  IInv'
  <2>1. request'[r] = Idle
    BY <1>1, <1>24 DEF End
  <2>2. Witnessed(r)'
    BY <2>1 DEF Witnessed, Idle
  <2>3. /\ Idle.pc \notin {"remove", "done"}
        /\ request' = [request EXCEPT ![r] = Idle]
        /\ wasBanned' = [wasBanned EXCEPT ![r] = {}]
        /\ wasFree' = [wasFree EXCEPT ![r] = {}]
        /\ UNCHANGED ban
    BY <1>24 DEF End, Idle
  <2>4. Idle \in Request \cup {Idle} /\ {} \in SUBSET Subjects
    OBVIOUS
  <2>5. QED BY <1>22, <2>2, <2>3, <2>4
<1>25. ASSUME UNCHANGED vars
       PROVE  IInv'
  <2>1. \A r \in Requests : Witnessed(r)'
    BY <1>2, <1>10, <1>25 DEF Witnessed, vars
  <2>2. TypeOK' /\ OneActiveRow'
    BY <1>25 DEF IInv, TypeOK, OneActiveRow, vars
  <2>3. AnswersHold'
    BY <1>25 DEF IInv, AnswersHold, vars
  <2>4. QED BY <2>1, <2>2, <2>3 DEF IInv
<1>26. ASSUME NEW r \in Requests, NEW m \in Members \cup {None},
              NEW a \in Addresses \cup {None}, BeginCheck(r, m, a)
       PROVE  IInv'
  BY <1>23, <1>26 DEF BeginCheck, Subjects
<1>27. QED
  BY <1>13, <1>14, <1>15, <1>16, <1>17, <1>18, <1>19, <1>20, <1>21, <1>23,
     <1>24, <1>25, <1>26
  DEF Next

-----------------------------------------------------------------------------
(* Theorems                                                                *)

LEMMA InductiveInvariant == Spec => []IInv
<1>1. QED BY InitIInv, NextIInv, PTL DEF Spec

\* Rows and requests keep their types; a removal holds a row of its subject.
THEOREM TypeCorrect == Spec => []TypeOK
<1>1. IInv => TypeOK
  BY DEF IInv
<1>2. QED BY <1>1, InductiveInvariant, PTL

\* The partial unique index keeps one active row, also against removals by id.
THEOREM OneActiveRowHolds == Spec => []OneActiveRow
<1>1. IInv => OneActiveRow
  BY DEF IInv
<1>2. QED BY <1>1, InductiveInvariant, PTL

\* Every answer of the ban methods and checks is true of a moment while the
\* request ran, for any number of requests and rows.
THEOREM AnswersAreTrue == Spec => []AnswersHold
<1>1. IInv => AnswersHold
  BY DEF IInv
<1>2. QED BY <1>1, InductiveInvariant, PTL
-----------------------------------------------------------------------------
(* The register                                                            *)

CallOf(r) ==
  IF request[r] = Idle THEN [op |-> "none"]
  ELSE [op |-> request[r].op, subjects |-> SubjectsOf(request[r]),
        answer |-> request[r].answer,
        wasBanned |-> wasBanned[r], wasFree |-> wasFree[r]]

\* Which operation gives which answer
AnswerFits(q) ==
  /\ q.answer = "banned" => q.op # "check"
  /\ q.answer \in {"unbanned", "notFound"} => q.op = "unban"
  /\ q.answer = "conflict" => q.op = "ban"
  /\ q.answer \in {"allowed", "denied"} => q.op = "check"

\* What a step of a request asked for op on S may do to the banned subjects
Effect(op, S) ==
  \/ Banned' = Banned
  \/ op = "ban" /\ Banned' = Banned \cup S
  \/ op = "unban" /\ Banned' = Banned \ S

\* A call is pending in the register exactly while its request runs.
LEMMA PendingIsRunning ==
  ASSUME IInv, NEW r \in Requests
  PROVE  /\ Register!Pending(r) <=> Running(r)
         /\ Running(r) => request[r] \in Request /\ request[r] # Idle
<1>1. request[r] # Idle => request[r] \in Request
  BY DEF IInv, TypeOK
<1>2. request[r] # Idle => (request[r].pc = "done" <=> request[r].answer # "none")
  BY DEF IInv, Witnessed
<1> QED
  BY <1>1, <1>2 DEF Register!Pending, Running, Request

\* What witnessing, and answering, make of a call's record
LEMMA WitnessOf ==
  ASSUME NEW op, NEW S, NEW answer, NEW B, NEW F, NEW now, NEW call,
         call = [op |-> op, subjects |-> S, answer |-> answer,
                 wasBanned |-> B, wasFree |-> F]
  PROVE  /\ Register!Witness(call, now) =
              [op |-> op, subjects |-> S, answer |-> answer,
               wasBanned |-> B \cup now, wasFree |-> F \cup (Subjects \ now)]
         /\ \A reply : [Register!Witness(call, now) EXCEPT !.answer = reply] =
              [op |-> op, subjects |-> S, answer |-> reply,
               wasBanned |-> B \cup now, wasFree |-> F \cup (Subjects \ now)]
<1>1. Register!Witness([op |-> op, subjects |-> S, answer |-> answer,
                        wasBanned |-> B, wasFree |-> F], now) =
        [op |-> op, subjects |-> S, answer |-> answer,
         wasBanned |-> B \cup now, wasFree |-> F \cup (Subjects \ now)]
  <2> DEFINE before == [op |-> op, subjects |-> S, answer |-> answer,
                        wasBanned |-> B, wasFree |-> F]
  <2>1. before.wasBanned = B /\ before.wasFree = F
    OBVIOUS
  <2>2. ASSUME NEW X, NEW Y
        PROVE  [before EXCEPT !.wasBanned = X, !.wasFree = Y] =
                 [op |-> op, subjects |-> S, answer |-> answer,
                  wasBanned |-> X, wasFree |-> Y]
    <3>1. [before EXCEPT !.wasBanned = X] =
            [op |-> op, subjects |-> S, answer |-> answer,
             wasBanned |-> X, wasFree |-> F]
      OBVIOUS
    <3>2. [[op |-> op, subjects |-> S, answer |-> answer,
            wasBanned |-> X, wasFree |-> F] EXCEPT !.wasFree = Y] =
            [op |-> op, subjects |-> S, answer |-> answer,
             wasBanned |-> X, wasFree |-> Y]
      OBVIOUS
    <3>3. [before EXCEPT !.wasBanned = X, !.wasFree = Y] =
            [[before EXCEPT !.wasBanned = X] EXCEPT !.wasFree = Y]
      OBVIOUS
    <3> QED
      BY <3>1, <3>2, <3>3
  <2>3. [before EXCEPT !.wasBanned = B \cup now,
                       !.wasFree = F \cup (Subjects \ now)] =
          [op |-> op, subjects |-> S, answer |-> answer,
           wasBanned |-> B \cup now, wasFree |-> F \cup (Subjects \ now)]
    BY <2>2
  <2> HIDE DEF before
  <2>4. Register!Witness(before, now) =
          [before EXCEPT !.wasBanned = B \cup now,
                         !.wasFree = F \cup (Subjects \ now)]
    BY <2>1, Zenon DEF Register!Witness
  <2> QED
    BY <2>3, <2>4 DEF before
<1>2. ASSUME NEW reply
      PROVE  [[op |-> op, subjects |-> S, answer |-> answer,
               wasBanned |-> B \cup now, wasFree |-> F \cup (Subjects \ now)]
                 EXCEPT !.answer = reply] =
               [op |-> op, subjects |-> S, answer |-> reply,
                wasBanned |-> B \cup now, wasFree |-> F \cup (Subjects \ now)]
  OBVIOUS
<1> QED
  BY <1>1, <1>2, Zenon

\* A step of a running request that answers what it may is a step of its call.
LEMMA StepOfCall ==
  ASSUME IInv, IInv', NEW r \in Requests, NEW q \in Request, Running(r),
         request' = [request EXCEPT ![r] = q], Observe,
         q.op = request[r].op, SubjectsOf(q) = SubjectsOf(request[r]),
         AnswerFits(q), Effect(request[r].op, SubjectsOf(request[r]))
  PROVE  Register!Step(r)
<1>1. /\ request \in [Requests -> Request \cup {Idle}]
      /\ request'[r] = q /\ q # Idle
      /\ \A x \in Requests : x # r => request'[x] = request[x]
  BY DEF IInv, TypeOK, Request, Idle
<1>2. /\ Register!Pending(r)
      /\ \A x \in Requests : Register!Pending(x) <=> Running(x)
  BY PendingIsRunning
<1>3. \A x \in Requests :
        /\ Running(x) => /\ wasBanned'[x] = wasBanned[x] \cup Banned'
                         /\ wasFree'[x] = wasFree[x] \cup (Subjects \ Banned')
        /\ ~Running(x) => /\ wasBanned'[x] = wasBanned[x]
                          /\ wasFree'[x] = wasFree[x]
  BY DEF Observe
<1>4. CallOf(r) = [op |-> q.op, subjects |-> SubjectsOf(q),
                   answer |-> request[r].answer,
                   wasBanned |-> wasBanned[r], wasFree |-> wasFree[r]]
  BY DEF CallOf, Running
<1>5. CallOf(r)' = [op |-> q.op, subjects |-> SubjectsOf(q),
                    answer |-> q.answer,
                    wasBanned |-> wasBanned[r] \cup Banned',
                    wasFree |-> wasFree[r] \cup (Subjects \ Banned')]
  BY <1>1, <1>3 DEF CallOf, SubjectsOf
<1>6. CallOf(r)' = [Register!Witness(CallOf(r), Banned')
                      EXCEPT !.answer = q.answer]
  BY <1>4, <1>5, WitnessOf
<1>7. ASSUME NEW x \in Requests, x # r
      PROVE  CallOf(x)' = IF Register!Pending(x)
                          THEN Register!Witness(CallOf(x), Banned') ELSE CallOf(x)
  <2>1. CASE Running(x)
    <3>1. CallOf(x) = [op |-> request[x].op, subjects |-> SubjectsOf(request[x]),
                       answer |-> request[x].answer,
                       wasBanned |-> wasBanned[x], wasFree |-> wasFree[x]]
      BY <2>1 DEF CallOf, Running
    <3>2. CallOf(x)' = [op |-> request[x].op, subjects |-> SubjectsOf(request[x]),
                        answer |-> request[x].answer,
                        wasBanned |-> wasBanned[x] \cup Banned',
                        wasFree |-> wasFree[x] \cup (Subjects \ Banned')]
      BY <1>1, <1>3, <1>7, <2>1 DEF CallOf, Running, SubjectsOf
    <3> QED
      <4>1. Register!Witness(CallOf(x), Banned') = CallOf(x)'
        BY <3>1, <3>2, WitnessOf
      <4> QED
        BY <1>2, <2>1, <4>1
  <2>2. CASE ~Running(x)
    BY <1>1, <1>2, <1>3, <1>7, <2>2 DEF CallOf, SubjectsOf
  <2> QED
    BY <2>1, <2>2
<1>8. q.answer # "none" =>
        Register!Justified(Register!Witness(CallOf(r), Banned'), q.answer)
  <2> SUFFICES ASSUME q.answer # "none"
               PROVE  Register!Justified(Register!Witness(CallOf(r), Banned'),
                                         q.answer)
    OBVIOUS
  <2> DEFINE seen == Register!Witness(CallOf(r), Banned')
  <2>1. q.pc = "done"
    BY <1>1 DEF IInv, Witnessed
  <2>2. /\ seen.op = q.op /\ seen.subjects = SubjectsOf(q)
        /\ seen.wasBanned = wasBanned'[r] /\ seen.wasFree = wasFree'[r]
    BY <1>3, <1>4 DEF Register!Witness
  <2>3. AnswerHolds(q.answer, SubjectsOf(q), wasBanned'[r], wasFree'[r])
    BY <1>1, <2>1 DEF IInv, AnswersHold, SubjectsOf
  <2>4. q.answer \in {"banned", "unbanned", "notFound", "conflict", "allowed",
                      "denied"}
    BY DEF Request
  <2> HIDE DEF seen
  <2> QED
    BY <2>2, <2>3, <2>4 DEF AnswerFits, AnswerHolds, Register!Justified, seen
<1>9. q.answer \in Register!Answers \cup {"none"}
  BY DEF Request, Register!Answers
<1> DEFINE call == [x \in Requests |->
                      IF request[x] = Idle THEN [op |-> "none"]
                      ELSE [op |-> request[x].op,
                            subjects |-> SubjectsOf(request[x]),
                            answer |-> request[x].answer,
                            wasBanned |-> wasBanned[x], wasFree |-> wasFree[x]]]
<1>10. \A x \in Requests : call[x] = CallOf(x) /\ call'[x] = CallOf(x)'
  BY DEF CallOf
<1>11. \/ UNCHANGED Banned
       \/ call[r].op = "ban" /\ Banned' = Banned \cup call[r].subjects
       \/ call[r].op = "unban" /\ Banned' = Banned \ call[r].subjects
  <2>1. call[r].op = request[r].op /\ call[r].subjects = SubjectsOf(request[r])
    BY <1>4, <1>10
  <2> QED
    BY <2>1 DEF Effect
<1>12. call' = [x \in Requests |->
         IF x = r THEN [Register!Witness(call[r], Banned')
                          EXCEPT !.answer = q.answer]
         ELSE IF Register!Pending(x) THEN Register!Witness(call[x], Banned')
         ELSE call[x]]
  <2>1. call' = [x \in Requests |-> CallOf(x)']
    BY DEF CallOf
  <2> HIDE DEF call
  <2> QED
    BY <1>6, <1>7, <1>10, <2>1
<1>13. q.answer # "none" =>
         Register!Justified(Register!Witness(call[r], Banned'), q.answer)
  BY <1>8, <1>10
<1> QED
  BY <1>2, <1>9, <1>11, <1>12, <1>13, Zenon DEF Register!Step
\* A read of a running request that moves to another step.
LEMMA MoveOfCall ==
  ASSUME IInv, IInv', NEW r \in Requests, NEW q \in Request, Running(r),
         UNCHANGED ban, Observe, request' = [request EXCEPT ![r] = q],
         q.op = request[r].op, q.subject = request[r].subject,
         q.address = request[r].address, q.answer = request[r].answer
  PROVE  Register!Step(r)
<1>1. request[r].answer = "none"
  BY DEF IInv, Witnessed, Running
<1>2. AnswerFits(q) /\ SubjectsOf(q) = SubjectsOf(request[r])
  BY <1>1 DEF AnswerFits, SubjectsOf
<1>3. Banned' = Banned
  BY DEF Banned, IsBanned, ActiveRow
<1> QED
  BY <1>2, <1>3, StepOfCall DEF Effect

\* A running request that answers, with what it did to the banned subjects.
LEMMA AnswerOfCall ==
  ASSUME IInv, IInv', NEW r \in Requests, NEW answer, Running(r), Observe,
         answer \in Register!Answers, Answer(r, answer),
         AnswerFits([op |-> request[r].op, answer |-> answer]),
         Effect(request[r].op, SubjectsOf(request[r]))
  PROVE  Register!Step(r)
<1> DEFINE q == [request[r] EXCEPT !.pc = "done", !.answer = answer]
<1>1. request[r] \in Request
  BY DEF IInv, TypeOK, Running
<1>2. /\ q \in Request /\ request' = [request EXCEPT ![r] = q]
      /\ q.op = request[r].op /\ q.subject = request[r].subject
      /\ q.address = request[r].address /\ q.answer = answer
  BY <1>1 DEF Request, Answer, Register!Answers
<1> HIDE DEF q
<1>3. AnswerFits(q) /\ SubjectsOf(q) = SubjectsOf(request[r])
  BY <1>2 DEF AnswerFits, SubjectsOf
<1> QED
  BY <1>2, <1>3, StepOfCall

\* The start of a request is the start of a call.
LEMMA BeginOfCall ==
  ASSUME IInv, NEW r \in Requests, NEW op \in {"ban", "unban", "check"},
         NEW s \in Subjects \cup {None}, NEW a \in Addresses \cup {None},
         Begin(r, op, s, a)
  PROVE  Register!Next
<1> DEFINE S == {s, a} \ {None}
           q == [pc |-> IF s = None THEN "address" ELSE "find", op |-> op,
                 subject |-> s, address |-> a, row |-> 0, answer |-> "none"]
           call == [x \in Requests |->
                      IF request[x] = Idle THEN [op |-> "none"]
                      ELSE [op |-> request[x].op,
                            subjects |-> SubjectsOf(request[x]),
                            answer |-> request[x].answer,
                            wasBanned |-> wasBanned[x], wasFree |-> wasFree[x]]]
<1>1. /\ request \in [Requests -> Request \cup {Idle}]
      /\ wasBanned \in [Requests -> SUBSET Subjects]
      /\ wasFree \in [Requests -> SUBSET Subjects]
  BY DEF IInv, TypeOK
<1>2. S \in SUBSET Subjects
  BY DEF Subjects
<1>3. op # "check" => \E x \in S : S = {x}
  BY DEF Begin
<1>4. /\ request[r] = Idle /\ UNCHANGED ban
      /\ request' = [request EXCEPT ![r] = q]
      /\ wasBanned' = [wasBanned EXCEPT ![r] = Banned]
      /\ wasFree' = [wasFree EXCEPT ![r] = Subjects \ Banned]
  BY DEF Begin
<1>5. q # Idle /\ q.op = op /\ SubjectsOf(q) = S /\ q.answer = "none"
  BY DEF Idle, SubjectsOf
<1> HIDE DEF q, S
<1>6. CallOf(r)' = [op |-> op, subjects |-> S, answer |-> "none",
                    wasBanned |-> Banned, wasFree |-> Subjects \ Banned]
  BY <1>1, <1>4, <1>5 DEF CallOf, SubjectsOf
<1>7. \A x \in Requests : x # r => CallOf(x)' = CallOf(x)
  BY <1>1, <1>4 DEF CallOf, SubjectsOf
<1>8. /\ \A x \in Requests : call[x] = CallOf(x)
      /\ call' = [x \in Requests |-> CallOf(x)']
      /\ DOMAIN call = Requests
      /\ call = [x \in Requests |-> CallOf(x)]
  BY DEF CallOf
<1>9. UNCHANGED Banned
  BY <1>4 DEF Banned, IsBanned, ActiveRow
<1>10. CallOf(r) = Register!NoCall
  BY <1>4 DEF CallOf, Register!NoCall
<1> HIDE DEF call
<1>11. call[r] = Register!NoCall
  BY <1>8, <1>10
<1>12. call' = [call EXCEPT ![r] =
         [op |-> op, subjects |-> S, answer |-> "none",
          wasBanned |-> Banned, wasFree |-> Subjects \ Banned]]
  BY <1>6, <1>7, <1>8
<1>13. Register!Begin(r, op, S)
  BY <1>3, <1>9, <1>11, <1>12, Zenon DEF Register!Begin, call
<1> QED
  BY <1>2, <1>13 DEF Register!Next
\* The end of a request is the end of its call.
LEMMA EndOfCall ==
  ASSUME IInv, NEW r \in Requests, End(r)
  PROVE  Register!Next
<1> DEFINE call == [x \in Requests |->
                      IF request[x] = Idle THEN [op |-> "none"]
                      ELSE [op |-> request[x].op,
                            subjects |-> SubjectsOf(request[x]),
                            answer |-> request[x].answer,
                            wasBanned |-> wasBanned[x], wasFree |-> wasFree[x]]]
<1>1. /\ request \in [Requests -> Request \cup {Idle}]
      /\ wasBanned \in [Requests -> SUBSET Subjects]
      /\ wasFree \in [Requests -> SUBSET Subjects]
  BY DEF IInv, TypeOK
<1>2. /\ request[r] # Idle /\ UNCHANGED ban
      /\ request' = [request EXCEPT ![r] = Idle]
      /\ wasBanned' = [wasBanned EXCEPT ![r] = {}]
      /\ wasFree' = [wasFree EXCEPT ![r] = {}]
  BY DEF End
<1>3. CallOf(r)' = Register!NoCall
  BY <1>1, <1>2 DEF CallOf, Register!NoCall
<1>4. \A x \in Requests : x # r => CallOf(x)' = CallOf(x)
  BY <1>1, <1>2 DEF CallOf, SubjectsOf
<1>5. CallOf(r) # Register!NoCall
  <2>1. CallOf(r).op = request[r].op /\ request[r].op # "none"
    BY <1>1, <1>2 DEF CallOf, Request
  <2> QED
    BY <2>1 DEF Register!NoCall
<1>6. /\ call = [x \in Requests |-> CallOf(x)]
      /\ call' = [x \in Requests |-> CallOf(x)']
  BY DEF CallOf
<1>7. UNCHANGED Banned
  BY <1>2 DEF Banned, IsBanned, ActiveRow
<1> HIDE DEF call
<1>8. call[r] # Register!NoCall /\ call' = [call EXCEPT ![r] = Register!NoCall]
  BY <1>3, <1>4, <1>5, <1>6
<1>9. Register!End(r)
  BY <1>7, <1>8, Zenon DEF Register!End, call
<1> QED
  BY <1>9 DEF Register!Next

LEMMA NextRegister ==
  IInv /\ IInv' /\ [Next]_vars => [Register!Next]_(Register!vars)
<1> SUFFICES ASSUME IInv, IInv', [Next]_vars
             PROVE  Register!Next \/ UNCHANGED Register!vars
  OBVIOUS
<1>1. /\ ban \in Seq(Row)
      /\ request \in [Requests -> Request \cup {Idle}]
      /\ \A r \in Requests : Witnessed(r)
  BY DEF IInv, TypeOK
<1>2. \A r \in Requests :
        /\ request[r].pc \notin {"idle", "done"} => Running(r)
        /\ Running(r) => request[r] \in Request
  BY <1>1 DEF Running, Idle
<1>3. UNCHANGED ban => Banned' = Banned
  BY DEF Banned, IsBanned, ActiveRow
<1>4. ASSUME NEW r \in Requests, Running(r), request[r].op # "check"
      PROVE  /\ SubjectsOf(request[r]) = {request[r].subject}
             /\ request[r].subject \in Subjects
  BY <1>1, <1>4, SubjectAssumption DEF Witnessed, Running, SubjectsOf
<1>5. ASSUME NEW r \in Requests, Running(r), UNCHANGED ban, Observe,
             NEW pc \in {"address", "create", "reread", "latest"}, Goto(r, pc)
      PROVE  Register!Step(r)
  <2> DEFINE q == [request[r] EXCEPT !.pc = pc]
  <2>1. /\ q \in Request /\ request' = [request EXCEPT ![r] = q]
        /\ q.op = request[r].op /\ q.subject = request[r].subject
        /\ q.address = request[r].address /\ q.answer = request[r].answer
    BY <1>2, <1>5 DEF Request, Goto
  <2> HIDE DEF q
  <2> QED
    BY <1>5, <2>1, MoveOfCall
<1>6. ASSUME NEW r \in Requests, Running(r), UNCHANGED ban, Observe,
             NEW answer \in Register!Answers, Answer(r, answer),
             AnswerFits([op |-> request[r].op, answer |-> answer])
      PROVE  Register!Step(r)
  BY <1>3, <1>6, AnswerOfCall DEF Effect
<1>7. ASSUME NEW r \in Requests, BanFindActive(r) PROVE Register!Step(r)
  <2>1. /\ Running(r) /\ UNCHANGED ban /\ Observe /\ request[r].op = "ban"
        /\ Answer(r, "banned") \/ Goto(r, "create")
    BY <1>2, <1>7 DEF BanFindActive
  <2> QED
    BY <1>5, <1>6, <2>1 DEF AnswerFits, Register!Answers
<1>8. ASSUME NEW r \in Requests, Create(r) PROVE Register!Step(r)
  <2>1. Running(r) /\ Observe /\ Answer(r, "banned") /\ request[r].op = "ban"
    BY <1>1, <1>2, <1>8 DEF Create, Witnessed, Running
  <2>2. Banned' = Banned \cup {request[r].subject}
    BY <1>1, <1>4, <1>8, <2>1, InsertBans DEF Create, IInv
  <2>3. Effect(request[r].op, SubjectsOf(request[r]))
    BY <1>4, <2>1, <2>2 DEF Effect
  <2> QED
    BY <2>1, <2>3, AnswerOfCall DEF AnswerFits, Register!Answers
<1>9. ASSUME NEW r \in Requests, CreateConflict(r) PROVE Register!Step(r)
  BY <1>2, <1>5, <1>9 DEF CreateConflict
<1>10. ASSUME NEW r \in Requests, Reread(r) PROVE Register!Step(r)
  <2>1. /\ Running(r) /\ UNCHANGED ban /\ Observe /\ request[r].op = "ban"
        /\ Answer(r, "banned") \/ Answer(r, "conflict")
    BY <1>1, <1>2, <1>10 DEF Reread, Witnessed, Running
  <2> QED
    BY <1>6, <2>1 DEF AnswerFits, Register!Answers
<1>11. ASSUME NEW r \in Requests, UnbanFindActive(r) PROVE Register!Step(r)
  <2>1. Running(r) /\ UNCHANGED ban /\ Observe
    BY <1>2, <1>11 DEF UnbanFindActive
  <2>2. CASE IsBanned(request[r].subject)
    <3>1. PICK i \in DOMAIN ban :
            request' = [request EXCEPT ![r].pc = "remove", ![r].row = i]
      BY <1>11, <2>2 DEF UnbanFindActive
    <3> DEFINE q == [request[r] EXCEPT !.pc = "remove", !.row = i]
    <3>2. i \in Nat
      BY <1>1, <3>1, LenProperties
    <3>3. /\ q \in Request /\ request' = [request EXCEPT ![r] = q]
          /\ q.op = request[r].op /\ q.subject = request[r].subject
          /\ q.address = request[r].address /\ q.answer = request[r].answer
      BY <1>2, <2>1, <3>1, <3>2 DEF Request
    <3> HIDE DEF q
    <3> QED
      BY <2>1, <3>3, MoveOfCall
  <2>3. CASE ~IsBanned(request[r].subject)
    BY <1>5, <1>11, <2>1, <2>3 DEF UnbanFindActive
  <2> QED
    BY <2>2, <2>3
<1>12. ASSUME NEW r \in Requests, Remove(r) PROVE Register!Step(r)
  <2> DEFINE i == request[r].row
             s == request[r].subject
  <2>1. /\ Running(r) /\ Observe /\ Answer(r, "unbanned")
        /\ request[r].op = "unban"
        /\ i \in DOMAIN ban /\ ban[i].subject = s
        /\ ban' = [ban EXCEPT ![i].removed = TRUE]
    BY <1>1, <1>2, <1>12 DEF Remove, Witnessed, Running, IInv, TypeOK
  <2>2. /\ DOMAIN ban' = DOMAIN ban /\ Banned' \subseteq Banned
        /\ \A j \in DOMAIN ban : j # i => ban'[j] = ban[j]
        /\ ~ban[i].removed /\ ban'[i].removed => s \notin Banned'
        /\ s \in Banned' => ban[i].removed
    BY <1>1, <2>1, RemovalLifts DEF IInv
  <2>3. Banned \ {s} \subseteq Banned'
    BY <2>1, <2>2 DEF Banned, IsBanned, ActiveRow
  <2>4. Banned' = Banned \/ Banned' = Banned \ {s}
    BY <2>2, <2>3
  <2>5. Effect(request[r].op, SubjectsOf(request[r]))
    BY <1>4, <2>1, <2>4 DEF Effect
  <2> QED
    BY <2>1, <2>5, AnswerOfCall DEF AnswerFits, Register!Answers
<1>13. ASSUME NEW r \in Requests, FindLatest(r) PROVE Register!Step(r)
  <2>1. /\ Running(r) /\ UNCHANGED ban /\ Observe /\ request[r].op = "unban"
        /\ \E answer \in {"notFound", "unbanned", "banned"} : Answer(r, answer)
    BY <1>1, <1>2, <1>13 DEF FindLatest, Witnessed, Running
  <2> QED
    BY <1>6, <2>1 DEF AnswerFits, Register!Answers
<1>14. ASSUME NEW r \in Requests, CheckMember(r) PROVE Register!Step(r)
  <2>1. /\ Running(r) /\ UNCHANGED ban /\ Observe /\ request[r].op = "check"
        /\ Answer(r, "denied") \/ Goto(r, "address")
    BY <1>2, <1>14 DEF CheckMember
  <2> QED
    BY <1>5, <1>6, <2>1 DEF AnswerFits, Register!Answers
<1>15. ASSUME NEW r \in Requests, CheckAddress(r) PROVE Register!Step(r)
  <2>1. /\ Running(r) /\ UNCHANGED ban /\ Observe /\ request[r].op = "check"
        /\ Answer(r, "denied") \/ Answer(r, "allowed")
    BY <1>1, <1>2, <1>15 DEF CheckAddress, Witnessed, Running
  <2> QED
    BY <1>6, <2>1 DEF AnswerFits, Register!Answers
<1>16. ASSUME NEW r \in Requests, End(r) PROVE Register!Next
  BY <1>16, EndOfCall
<1>17. ASSUME NEW r \in Requests, NEW op \in {"ban", "unban"},
              NEW s \in Subjects, Begin(r, op, s, None)
       PROVE  Register!Next
  BY <1>17, BeginOfCall
<1>18. ASSUME NEW r \in Requests, NEW m \in Members \cup {None},
              NEW a \in Addresses \cup {None}, BeginCheck(r, m, a)
       PROVE  Register!Next
  <2>1. m \in Subjects \cup {None} /\ Begin(r, "check", m, a)
    BY <1>18 DEF BeginCheck, Subjects
  <2> QED
    BY <1>18, <2>1, BeginOfCall
<1>19. ASSUME UNCHANGED vars PROVE UNCHANGED Register!vars
  BY <1>19 DEF vars, Register!vars, Banned, IsBanned, ActiveRow, SubjectsOf
<1>20. ASSUME NEW r \in Requests, Register!Step(r) PROVE Register!Next
  BY <1>20 DEF Register!Next
<1> QED
  BY <1>7, <1>8, <1>9, <1>10, <1>11, <1>12, <1>13, <1>14, <1>15, <1>16, <1>17,
     <1>18, <1>19, <1>20 DEF Next

\* The two tables, with an await between any two calls and no transaction,
\* implement the register: whatever requests race, each is one call whose
\* answer its own moments justify, and only a ban bans and an unban unbans.
THEOREM RegisterImplemented == Spec => ImplementsRegister
<1>1. Init => Register!Init
  BY DEF Init, Register!Init, Register!NoCall, Banned, IsBanned, ActiveRow
<1> QED
  BY <1>1, NextRegister, InductiveInvariant, PTL
     DEF Spec, ImplementsRegister, Register!Spec
=============================================================================
