------------------------------- MODULE Tenancy -------------------------------
(***************************************************************************)
(* The members of one organization and those it invites, as the API keeps  *)
(* them (modules/organizations, common/tenant).                            *)
(*                                                                         *)
(* A request passes TenantGuard with the role its author has then, and its *)
(* service decides from that role, and from what it reads, what it writes  *)
(* later.  Between two statements of one request other requests run; each  *)
(* write is a conditional update, and what it is conditioned on is all     *)
(* that protects the decision.                                             *)
(*                                                                         *)
(* An address is the user who has it.  A link that was renewed finds no    *)
(* invitation any more, so a link is the invitation it finds.              *)
(***************************************************************************)
EXTENDS Integers, Sequences, FiniteSets

CONSTANTS Users,
          Founder,         \* the user who created the organization
          Admins,          \* users who are administrators at the start
          Subjects,        \* users that requests are about
          Requests,        \* requests that may be in flight at once
          Wanted,          \* roles that members ask for others
          MaxInvitations   \* bound on the invitations that are created

\* ROLE_WEIGHT.
Weight == [OWNER |-> 4, ADMIN |-> 3, MANAGER |-> 2, AGENT |-> 1]

Roles == DOMAIN Weight

ASSUME TenancyAssumption ==
  /\ Founder \in Users
  /\ Admins \subseteq Users \ {Founder}
  /\ Subjects \subseteq Users
  /\ Wanted \subseteq Roles \ {"OWNER"}
  /\ MaxInvitations \in Nat

VARIABLES organization,  \* ACTIVE or ARCHIVED; no code suspends one
          member,        \* role and status of each user, NONE for no membership
          invitation,    \* invitations, in the order of their creation
          request        \* requests, as far as they have got

vars == <<organization, member, invitation, request>>

MembershipStatus == {"NONE", "ACTIVE", "LEFT"}

InvitationStatus == {"PENDING", "ACCEPTED", "DECLINED", "CANCELLED", "EXPIRED"}

Operations == {"updateRole", "remove", "leave", "invite", "cancel", "archive", "accept",
               "decline"}

Steps == {"check", "write", "renew", "create", "renewAgain", "member", "expire"}

None == [op |-> "none"]

\* An operation of user by, who had the role rank when the guard let it pass, on a user or
\* an invitation; seen is what a read has told it.
Request == [op : Operations, at : Steps, by : Users, rank : Roles, target : Users,
            row : 0 .. MaxInvitations, wanted : Roles, seen : Roles \cup MembershipStatus]

Invitation == [to : Users, role : Roles, status : InvitationStatus, expired : BOOLEAN]

\* The organization is created with its owner, in one transaction.  At the start it has
\* administrators, and perhaps agents.
Init ==
  /\ organization = "ACTIVE"
  /\ member \in [Users -> [role : Roles, status : {"NONE", "ACTIVE"}]]
  /\ member[Founder] = [role |-> "OWNER", status |-> "ACTIVE"]
  /\ \A u \in Admins : member[u] = [role |-> "ADMIN", status |-> "ACTIVE"]
  /\ \A u \in Users \ (Admins \cup {Founder}) : member[u].role = "AGENT"
  /\ invitation = <<>>
  /\ request = [r \in Requests |-> None]

-----------------------------------------------------------------------------
(* Guards (common/tenant).                                                 *)

\* ROLE_PERMISSIONS, for the routes of members and invitations.  Leaving needs none.
Permitted(role, op) ==
  CASE op = "archive" -> role = "OWNER"
    [] op = "leave"   -> TRUE
    [] OTHER          -> role \in {"OWNER", "ADMIN"}

CanActOnRole(actor, role) == Weight[actor] > Weight[role]

CanAssignRole(actor, role) == Weight[actor] > Weight[role]

\* TenantGuard and PermissionsGuard let user u start an operation.
Passes(r, u, op) ==
  /\ request[r] = None
  /\ organization = "ACTIVE"
  /\ member[u].status = "ACTIVE"
  /\ Permitted(member[u].role, op)

Starts(r, u, op, at, target, row, wanted) ==
  request' = [request EXCEPT ![r] =
                [op |-> op, at |-> at, by |-> u, rank |-> member[u].role, target |-> target,
                 row |-> row, wanted |-> wanted, seen |-> "NONE"]]

At(r, op, at) == request[r] # None /\ request[r].op = op /\ request[r].at = at

Goes(r, at, seen) == request' = [request EXCEPT ![r].at = at, ![r].seen = seen]

Ends(r) == request' = [request EXCEPT ![r] = None]

-----------------------------------------------------------------------------
(* MembershipsService.                                                     *)

StartUpdateRole(r, u, t, wanted) ==
  /\ Passes(r, u, "updateRole")
  /\ Starts(r, u, "updateRole", "check", t, 0, wanted)
  /\ UNCHANGED <<organization, member, invitation>>

StartRemove(r, u, t) ==
  /\ Passes(r, u, "remove")
  /\ Starts(r, u, "remove", "check", t, 0, "AGENT")
  /\ UNCHANGED <<organization, member, invitation>>

\* What updateRole and remove ask of the member they have read.
MayBeManaged(q) ==
  /\ member[q.target].status = "ACTIVE"
  /\ q.target # q.by
  /\ member[q.target].role # "OWNER"
  /\ CanActOnRole(q.rank, member[q.target].role)

UpdateRoleReads(r) ==
  /\ At(r, "updateRole", "check")
  /\ LET q == request[r] IN
     IF /\ MayBeManaged(q)
        /\ CanAssignRole(q.rank, q.wanted)
        /\ member[q.target].role # q.wanted
     THEN Goes(r, "write", member[q.target].role)
     ELSE Ends(r)
  /\ UNCHANGED <<organization, member, invitation>>

RemoveReads(r) ==
  /\ At(r, "remove", "check")
  /\ IF MayBeManaged(request[r]) THEN Goes(r, "write", "NONE") ELSE Ends(r)
  /\ UNCHANGED <<organization, member, invitation>>

\* The conditions of the update of a role.  Mutant: the role that was read is not one.
StillRankedAs(t, seen) == member[t].status = "ACTIVE" /\ member[t].role # "OWNER"
StillHas(t, seen) == member[t].status = "ACTIVE" /\ member[t].role = seen

UpdateRoleWrites(r) ==
  /\ At(r, "updateRole", "write")
  /\ LET q == request[r] IN
     member' = IF StillHas(q.target, q.seen)
               THEN [member EXCEPT ![q.target].role = q.wanted] ELSE member
  /\ Ends(r)
  /\ UNCHANGED <<organization, invitation>>

\* A removal does not ask for the role that was read, only that it is not OWNER.
Leaves(t) ==
  member' = IF member[t].status = "ACTIVE" /\ member[t].role # "OWNER"
            THEN [member EXCEPT ![t].status = "LEFT"] ELSE member

RemoveWrites(r) ==
  /\ At(r, "remove", "write")
  /\ Leaves(request[r].target)
  /\ Ends(r)
  /\ UNCHANGED <<organization, invitation>>

StartLeave(r, u) ==
  /\ Passes(r, u, "leave")
  /\ member[u].role # "OWNER"
  /\ Starts(r, u, "leave", "write", u, 0, "AGENT")
  /\ UNCHANGED <<organization, member, invitation>>

LeaveWrites(r) ==
  /\ At(r, "leave", "write")
  /\ Leaves(request[r].by)
  /\ Ends(r)
  /\ UNCHANGED <<organization, invitation>>

-----------------------------------------------------------------------------
(* InvitationsService, for members.                                        *)

\* createOrResend compares the role first, then looks for a member of that address.
StartInvite(r, u, t, wanted) ==
  /\ Passes(r, u, "invite")
  /\ CanAssignRole(member[u].role, wanted)
  /\ Starts(r, u, "invite", "check", t, 0, wanted)
  /\ UNCHANGED <<organization, member, invitation>>

InviteReads(r) ==
  /\ At(r, "invite", "check")
  /\ IF member[request[r].target].status = "ACTIVE" THEN Ends(r) ELSE Goes(r, "renew", "NONE")
  /\ UNCHANGED <<organization, member, invitation>>

PendingFor(u) ==
  {i \in DOMAIN invitation : invitation[i].to = u /\ invitation[i].status = "PENDING"}

\* tryRenewPending: the row stays, with another link, another date and this role.
Renew(q) ==
  invitation' = [i \in DOMAIN invitation |->
                   IF i \in PendingFor(q.target)
                   THEN [invitation[i] EXCEPT !.role = q.wanted, !.expired = FALSE]
                   ELSE invitation[i]]

InviteRenews(r) ==
  /\ At(r, "invite", "renew")
  /\ Renew(request[r])
  /\ IF PendingFor(request[r].target) = {} THEN Goes(r, "create", "NONE") ELSE Ends(r)
  /\ UNCHANGED <<organization, member>>

\* The partial unique index of the migration.  Mutant: the table without it.
NoIndex(u) == TRUE
IndexAllows(u) == PendingFor(u) = {}

InviteCreates(r) ==
  /\ At(r, "invite", "create")
  /\ LET q == request[r] IN
     IF IndexAllows(q.target)
     THEN /\ Len(invitation) < MaxInvitations
          /\ invitation' = Append(invitation, [to |-> q.target, role |-> q.wanted,
                                               status |-> "PENDING", expired |-> FALSE])
          /\ Ends(r)
     ELSE Goes(r, "renewAgain", "NONE") /\ UNCHANGED invitation
  /\ UNCHANGED <<organization, member>>

InviteRenewsAgain(r) ==
  /\ At(r, "invite", "renewAgain")
  /\ Renew(request[r])
  /\ Ends(r)
  /\ UNCHANGED <<organization, member>>

\* updateMany of a status, on the condition that the invitation is PENDING.
EndPending(i, status) ==
  invitation' = IF invitation[i].status = "PENDING"
                THEN [invitation EXCEPT ![i].status = status] ELSE invitation

StartCancel(r, u, i) ==
  /\ Passes(r, u, "cancel")
  /\ Starts(r, u, "cancel", "write", u, i, "AGENT")
  /\ UNCHANGED <<organization, member, invitation>>

CancelWrites(r) ==
  /\ At(r, "cancel", "write")
  /\ EndPending(request[r].row, "CANCELLED")
  /\ Ends(r)
  /\ UNCHANGED <<organization, member>>

-----------------------------------------------------------------------------
(* InvitationsService, for whoever is invited.                             *)

\* findByToken and the checks of accept; the membership is read afterwards.
StartAccept(r, u, i) ==
  /\ request[r] = None
  /\ invitation[i].to = u /\ invitation[i].status = "PENDING"
  /\ \/ /\ invitation[i].expired
        /\ Starts(r, u, "accept", "expire", u, i, "AGENT")
     \/ /\ ~invitation[i].expired /\ organization = "ACTIVE"
        /\ Starts(r, u, "accept", "member", u, i, invitation[i].role)
  /\ UNCHANGED <<organization, member, invitation>>

AcceptReads(r) ==
  /\ At(r, "accept", "member")
  /\ LET status == member[request[r].by].status IN
     IF status = "ACTIVE" THEN Ends(r) ELSE Goes(r, "write", status)
  /\ UNCHANGED <<organization, member, invitation>>

\* The date is compared with the start of the request, when it had not passed: only the
\* status can refuse.  Mutant: the row is found by its identifier alone.
ConsumableById(i) == TRUE
Consumable(i) == invitation[i].status = "PENDING"

\* The transaction of accept: the invitation is consumed and the membership created, or
\* reactivated, if it still is as it was read; otherwise all is rolled back.
AcceptWrites(r) ==
  /\ At(r, "accept", "write")
  /\ LET q == request[r] IN
     IF Consumable(q.row) /\ member[q.by].status = q.seen
     THEN /\ invitation' = [invitation EXCEPT ![q.row].status = "ACCEPTED"]
          /\ member' = [member EXCEPT ![q.by] = [role |-> q.wanted, status |-> "ACTIVE"]]
     ELSE UNCHANGED <<invitation, member>>
  /\ Ends(r)
  /\ UNCHANGED organization

StartDecline(r, u, i) ==
  /\ request[r] = None
  /\ invitation[i].to = u /\ invitation[i].status = "PENDING"
  /\ Starts(r, u, "decline", IF invitation[i].expired THEN "expire" ELSE "write", u, i,
            "AGENT")
  /\ UNCHANGED <<organization, member, invitation>>

DeclineWrites(r) ==
  /\ At(r, "decline", "write")
  /\ EndPending(request[r].row, "DECLINED")
  /\ Ends(r)
  /\ UNCHANGED <<organization, member>>

\* lazilyMarkExpired does not look at the date again: it also ends an invitation that was
\* renewed since it was read.
LazilyMarkExpired(r) ==
  /\ \E op \in {"accept", "decline"} : At(r, op, "expire")
  /\ EndPending(request[r].row, "EXPIRED")
  /\ Ends(r)
  /\ UNCHANGED <<organization, member>>

\* INVITATION_EXPIRES_IN_DAYS pass.
GrowsOld(i) ==
  /\ invitation[i].status = "PENDING"
  /\ invitation' = [invitation EXCEPT ![i].expired = TRUE]
  /\ UNCHANGED <<organization, member, request>>

-----------------------------------------------------------------------------
(* OrganizationsService.archive.                                           *)

StartArchive(r, u) ==
  /\ Passes(r, u, "archive")
  /\ Starts(r, u, "archive", "write", u, 0, "AGENT")
  /\ UNCHANGED <<organization, member, invitation>>

ArchiveWrites(r) ==
  /\ At(r, "archive", "write")
  /\ organization' = "ARCHIVED"
  /\ Ends(r)
  /\ UNCHANGED <<member, invitation>>

-----------------------------------------------------------------------------
Start(r, u) ==
  \/ StartLeave(r, u) \/ StartArchive(r, u)
  \/ \E t \in Subjects : StartRemove(r, u, t)
  \/ \E t \in Subjects, wanted \in Wanted :
       StartUpdateRole(r, u, t, wanted) \/ StartInvite(r, u, t, wanted)
  \/ \E i \in DOMAIN invitation :
       StartCancel(r, u, i) \/ StartAccept(r, u, i) \/ StartDecline(r, u, i)

Continue(r) ==
  \/ UpdateRoleReads(r) \/ UpdateRoleWrites(r) \/ RemoveReads(r) \/ RemoveWrites(r)
  \/ LeaveWrites(r) \/ ArchiveWrites(r)
  \/ InviteReads(r) \/ InviteRenews(r) \/ InviteCreates(r) \/ InviteRenewsAgain(r)
  \/ CancelWrites(r) \/ AcceptReads(r) \/ AcceptWrites(r) \/ DeclineWrites(r)
  \/ LazilyMarkExpired(r)

Next ==
  \/ \E r \in Requests : Continue(r) \/ \E u \in Users : Start(r, u)
  \/ \E i \in DOMAIN invitation : GrowsOld(i)

Spec == Init /\ [][Next]_vars

-----------------------------------------------------------------------------
(* Properties.                                                             *)

TypeOK ==
  /\ organization \in {"ACTIVE", "ARCHIVED"}
  /\ member \in [Users -> [role : Roles, status : MembershipStatus]]
  /\ invitation \in Seq(Invitation) /\ Len(invitation) <= MaxInvitations
  /\ request \in [Requests -> Request \cup {None}]

\* However requests interleave, an address has one invitation that may be used, and the
\* founder is and stays the only owner: no invitation bears OWNER.
TeamIsSound ==
  /\ TypeOK
  /\ \A u \in Users : Cardinality(PendingFor(u)) <= 1
  /\ \A u \in Users : u = Founder <=> member[u] = [role |-> "OWNER", status |-> "ACTIVE"]
  /\ \A i \in DOMAIN invitation : invitation[i].role # "OWNER"

\* The role of a member who stays one is changed by somebody else, who outranked, when the
\* guard let the request pass, both the role that is lost and the role that is won, whatever
\* has happened to the member since its role was read (memberships.service.ts:48-58).
RoleChangesAreRanked ==
  [][\A u \in Users :
       /\ member[u].status = "ACTIVE" /\ member'[u].status = "ACTIVE"
       /\ member'[u].role # member[u].role
       => \E r \in Requests :
            /\ At(r, "updateRole", "write") /\ request[r].target = u /\ request[r].by # u
            /\ CanActOnRole(request[r].rank, member[u].role)
            /\ CanAssignRole(request[r].rank, member'[u].role)]_vars

\* Each admission uses up one invitation, that was still PENDING, of the user admitted; what
\* was used, declined, cancelled or expired never changes again: two acceptances, or an
\* acceptance against a cancellation, have one winner (invitations.service.ts:238-243).
InvitationsAreUsedOnce ==
  [][LET admitted == {u \in Users : member[u].status # "ACTIVE" /\ member'[u].status = "ACTIVE"}
         used     == {i \in DOMAIN invitation : invitation'[i].status = "ACCEPTED"
                                                /\ invitation[i].status # "ACCEPTED"}
     IN  /\ Cardinality(used) = Cardinality(admitted)
         /\ {invitation[i].to : i \in used} = admitted
         /\ \A i \in DOMAIN invitation :
              invitation[i].status # "PENDING" => invitation'[i] = invitation[i]]_vars
=============================================================================
