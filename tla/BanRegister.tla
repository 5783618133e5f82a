---------------------------- MODULE BanRegister ----------------------------
(***************************************************************************)
(* What runtime moderation promises about bans: a set of banned subjects   *)
(* (member ids and client addresses), and calls that ban, unban or ask     *)
(* about them.  A call takes time.  Its answer speaks of its subjects as   *)
(* they were at some moment between its start and its answer, however many *)
(* other calls ran meanwhile, and a subject is banned or unbanned only by  *)
(* a call that was asked to.                                               *)
(***************************************************************************)
CONSTANTS Subjects,   \* member ids and addresses
          Calls       \* calls in progress at once

VARIABLES banned,     \* the subjects banned now
          call        \* call -> what it asks and what it could have seen

vars == <<banned, call>>

Answers == {"banned", "unbanned", "notFound", "conflict", "allowed", "denied"}

NoCall == [op |-> "none"]

Pending(c) == call[c].op # "none" /\ call[c].answer = "none"

\* A call that has seen its subjects banned, free, or both, may answer so.
Justified(q, answer) ==
  CASE answer = "banned"   -> q.op # "check" /\ q.subjects \subseteq q.wasBanned
    [] answer = "unbanned" -> q.op = "unban" /\ q.subjects \subseteq q.wasFree
    [] answer = "notFound" -> q.op = "unban" /\ q.subjects \subseteq q.wasFree
    [] answer = "conflict" -> q.op = "ban"
                              /\ q.subjects \subseteq q.wasFree \cap q.wasBanned
    [] answer = "allowed"  -> q.op = "check" /\ q.subjects \subseteq q.wasFree
    [] answer = "denied"   -> q.op = "check"
                              /\ q.subjects \cap q.wasBanned # {}
    [] OTHER -> FALSE

\* What a call has seen, once the banned subjects are B.
Witness(q, B) ==
  [q EXCEPT !.wasBanned = @ \cup B, !.wasFree = @ \cup (Subjects \ B)]

Init == banned = {} /\ call = [c \in Calls |-> NoCall]

Begin(c, op, S) ==
  /\ call[c] = NoCall
  /\ op # "check" => \E s \in S : S = {s}
  /\ call' = [call EXCEPT ![c] =
       [op |-> op, subjects |-> S, answer |-> "none",
        wasBanned |-> banned, wasFree |-> Subjects \ banned]]
  /\ UNCHANGED banned

\* A pending call may take effect, may answer, or both at once.
Step(c) ==
  /\ Pending(c)
  /\ \/ UNCHANGED banned
     \/ call[c].op = "ban"   /\ banned' = banned \cup call[c].subjects
     \/ call[c].op = "unban" /\ banned' = banned \ call[c].subjects
  /\ \E answer \in Answers \cup {"none"} :
       /\ answer # "none" => Justified(Witness(call[c], banned'), answer)
       /\ call' = [x \in Calls |->
            IF x = c THEN [Witness(call[c], banned') EXCEPT !.answer = answer]
            ELSE IF Pending(x) THEN Witness(call[x], banned') ELSE call[x]]

\* The answer was delivered, or the call was lost before it.
End(c) ==
  /\ call[c] # NoCall
  /\ call' = [call EXCEPT ![c] = NoCall]
  /\ UNCHANGED banned

Next ==
  \/ \E c \in Calls, op \in {"ban", "unban", "check"}, S \in SUBSET Subjects :
       Begin(c, op, S)
  \/ \E c \in Calls : Step(c)
  \/ \E c \in Calls : End(c)

Spec == Init /\ [][Next]_vars
=============================================================================
