---------------------------- MODULE ForumsPolicy ----------------------------
(***************************************************************************)
(* The access policy of the forums service, as predicates.                 *)
(*                                                                         *)
(* A principal is a record                                                 *)
(*   id          the member id, or None (a guest, or a machine)            *)
(*   machine     an M2M token with the scope the route asks for            *)
(*   admin       the token carries the administrator role                  *)
(*   roles       the identity roles                                        *)
(*   forumRoles  imported forum-only memberships (PublicForumRoleMember)   *)
(*                                                                         *)
(* Restrictions are [challenge, role, conflict], the effective values a    *)
(* topic inherits.  Facts are what the challenge and resource databases    *)
(* say of a member and a challenge.  An ACL is the category metadata that  *)
(* governs a topic: the rules of every category on its ancestor chain      *)
(* (none: the topic is unmanaged), the nearest rule, and whether the       *)
(* topic itself is a category.                                             *)
(*                                                                         *)
(* A decision is a BOOLEAN; the reasons that only choose between 403 and   *)
(* 404 are left out.                                                       *)
(***************************************************************************)
CONSTANTS None,     \* absent value: no member, no role, no challenge
          Omitted   \* a request field that was not supplied

Authenticated(p) == p.id # None \/ p.machine

\* Human administrators and scoped machines pass every restriction.
Bypasses(p) == p.machine \/ p.admin

-----------------------------------------------------------------------------
(* Restrictions                                                            *)

SatisfiesRole(p, role) == role = None \/ role \in p.roles

HasChallengeAccess(f) ==
  f.member \/ f.resource \/ f.fullRead \/ f.fullWrite

ChallengeAdmits(f) ==
  f.configured /\ f.exists /\ (f.copilot \/ HasChallengeAccess(f))

\* visibility.allowed of a restriction evaluation
Sees(p, r, f) ==
  /\ Authenticated(p) \/ (r.challenge = None /\ r.role = None)
  /\ \/ Bypasses(p)
     \/ /\ ~r.conflict
        /\ SatisfiesRole(p, r.role)
        /\ r.challenge # None => ChallengeAdmits(f)

\* isChallengeCopilot: elevation that comes from the challenge alone
CopilotOf(p, r, f) ==
  ~Bypasses(p) /\ r.challenge # None /\ f.copilot /\ Sees(p, r, f)

\* isElevated
Elevated(p, r, f) ==
  (Bypasses(p) /\ Sees(p, r, f)) \/ CopilotOf(p, r, f)

\* Mutant of CanDelete: every elevation deletes.
CanDeleteElevated(p, r, f) == Elevated(p, r, f)

\* announcements need elevation, deletions need it from beyond the challenge
CanAnnounce(p, r, f) == Elevated(p, r, f)
CanDelete(p, r, f) == Elevated(p, r, f) /\ ~CopilotOf(p, r, f)

-----------------------------------------------------------------------------
(* Category access lists                                                   *)

NoAcl == [chain |-> {}, nearest |-> None, self |-> FALSE]

Managed(acl) == acl.chain # {}

Matches(p, allowed) ==
  \/ Bypasses(p)
  \/ "$public" \in allowed
  \/ "$authenticated" \in allowed /\ p.id # None
  \/ allowed \cap p.roles # {}
  \/ p.id # None /\ allowed \cap p.forumRoles # {}

\* Mutant of AclView: a permissive category bypasses the ones above it.
AclViewNearestOnly(p, acl) ==
  Managed(acl) => Matches(p, acl.nearest.read)

AclView(p, acl) == \A rule \in acl.chain : Matches(p, rule.read)

\* Mutant of AclCreate: threads in a category receive child threads.
AclCreateAnywhere(p, acl) ==
  Managed(acl) => /\ AclView(p, acl) /\ Authenticated(p)
                  /\ acl.nearest.discussions
                  /\ Matches(p, acl.nearest.create)

AclCreate(p, acl) ==
  Managed(acl) => /\ AclView(p, acl) /\ Authenticated(p) /\ acl.self
                  /\ acl.nearest.discussions
                  /\ Matches(p, acl.nearest.create)

AclReply(p, acl) ==
  Managed(acl) => /\ AclView(p, acl) /\ Authenticated(p) /\ ~acl.self
                  /\ Matches(p, acl.nearest.reply)

-----------------------------------------------------------------------------
(* Topic and post decisions.  p acts; e is the principal the decision is   *)
(* evaluated for: the target member of an on-behalf machine, else p.       *)

EvaluationPrincipal(p, onBehalfOf) ==
  IF p.machine /\ onBehalfOf # None THEN onBehalfOf ELSE p

CanView(e, available, acl, r, f) ==
  available /\ AclView(e, acl) /\ Sees(e, r, f)

\* canAddWatch, canRemoveWatch, canMarkRead, canReceiveNotification
CanParticipate(p, e, available, acl, r, f) ==
  CanView(e, available, acl, r, f) /\ Authenticated(p)

CanCreatePost(p, e, available, acl, r, f) ==
  CanParticipate(p, e, available, acl, r, f) /\ AclReply(e, acl)

CanUpdateTopic(e, available, acl, r, f, author) ==
  /\ CanView(e, available, acl, r, f)
  /\ Elevated(e, r, f) \/ (author /\ ~acl.self)

CanDeleteTopic(e, available, acl, r, f) ==
  CanView(e, available, acl, r, f) /\ CanDelete(e, r, f)

CanUpdatePost(e, available, acl, r, f, author, deleted) ==
  /\ CanView(e, available, acl, r, f) /\ ~deleted
  /\ Elevated(e, r, f) \/ author

CanDeletePost(e, available, acl, r, f, deleted) ==
  CanView(e, available, acl, r, f) /\ ~deleted /\ CanDelete(e, r, f)

\* Mutant of CanCreateChildTopic: challenge topics receive children.
CanCreateAnyChildTopic(p, available, acl, parent, fp, r, fr) ==
  /\ available /\ Authenticated(p) /\ AclCreate(p, acl)
  /\ Sees(p, parent, fp) /\ Sees(p, r, fr)

\* decideForCreateTopic with a parent; r and fr are the candidate's
CanCreateChildTopic(p, available, acl, parent, fp, r, fr) ==
  /\ available /\ Authenticated(p) /\ AclCreate(p, acl)
  /\ r.challenge = None
  /\ Sees(p, parent, fp) /\ Sees(p, r, fr)

\* decideForCreateTopic without a parent
CanCreateTopLevelTopic(p, r, f) ==
  /\ Authenticated(p) /\ Sees(p, r, f)
  /\ IF r.challenge # None THEN ~p.machine
                           ELSE p.machine \/ Elevated(p, r, f)

-----------------------------------------------------------------------------
(* Runtime moderation                                                      *)

\* decideForLockedTopicMutation
CanMutateLocked(p, locked, challenge, f) ==
  \/ ~locked
  \/ p.admin
  \/ ~p.machine /\ p.id # None /\ challenge # None /\ f.copilot

-----------------------------------------------------------------------------
(* Monotonic restrictions                                                  *)

\* resolveInheritedRestriction throws unless this holds ...
MayInherit(inherited, requested) ==
  inherited = None \/ requested \in {Omitted, inherited}

\* ... and stores this value
Inherited(inherited, requested) ==
  CASE inherited # None -> inherited
    [] inherited = None /\ requested = Omitted -> None
    [] OTHER -> requested

\* Mutant of MayUpdateRole: a role can be cleared where none is inherited.
MayClearRole(ancestorRole, effectiveRole, requested) ==
  IF ancestorRole # None THEN requested = ancestorRole
                         ELSE effectiveRole \in {None, requested}
                              \/ requested = None

\* resolveMonotonicRoleNameUpdate throws unless this holds
MayUpdateRole(ancestorRole, effectiveRole, requested) ==
  IF ancestorRole # None THEN requested = ancestorRole
                         ELSE effectiveRole \in {None, requested}
=============================================================================
