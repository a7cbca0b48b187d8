----------------------------- MODULE TenancyProofs -----------------------------
(***************************************************************************)
(* Proofs about Tenancy, for any users, requests in flight and number of   *)
(* invitations.  TeamIsSound is not inductive: what a request has read,    *)
(* and the role it had when the guard let it pass, must be spoken of too.  *)
(***************************************************************************)
EXTENDS Tenancy, TLAPS, FiniteSetTheorems, SequenceTheorems

-----------------------------------------------------------------------------
(* The inductive invariant.                                                *)

\* Two invitations of one address are not open together.
OneOpen ==
  \A i, j \in DOMAIN invitation :
    /\ invitation[i].status = "PENDING" /\ invitation[j].status = "PENDING"
    /\ invitation[i].to = invitation[j].to
    => i = j

FounderOwns ==
  \A u \in Users : u = Founder <=> member[u] = [role |-> "OWNER", status |-> "ACTIVE"]

OwnerStays == member[Founder].role = "OWNER" /\ \A u \in Users \ {Founder} : member[u].role # "OWNER"

NobodyInvitesAnOwner == \A i \in DOMAIN invitation : invitation[i].role # "OWNER"

\* What a request in flight may still do is what its author was entitled to.
Entitled(q) ==
  /\ q.wanted # "OWNER"
  /\ q.op \in {"cancel", "accept", "decline"} => q.row \in DOMAIN invitation
  /\ q.op = "accept" => invitation[q.row].to = q.by
  /\ q.op = "accept" /\ q.at = "write" => q.seen \in MembershipStatus \ {"ACTIVE"}
  /\ q.op = "updateRole" /\ q.at = "write" =>
       /\ q.seen \in Roles /\ q.target # q.by
       /\ CanActOnRole(q.rank, q.seen) /\ CanAssignRole(q.rank, q.wanted)

RequestsAreEntitled == \A r \in Requests : request[r] # None => Entitled(request[r])

IInv ==
  /\ TypeOK /\ OneOpen /\ FounderOwns /\ OwnerStays /\ NobodyInvitesAnOwner
  /\ RequestsAreEntitled

-----------------------------------------------------------------------------
(* Lemmas on sequences, sets and records.                                  *)

\* A sequence whose elements are replaced in place stays a sequence.
LEMMA ReplacedInPlace ==
  ASSUME NEW S, NEW s \in Seq(S), NEW f \in [DOMAIN s -> S]
  PROVE  f \in Seq(S) /\ Len(f) = Len(s) /\ DOMAIN f = DOMAIN s
<1>1. Len(s) \in Nat /\ DOMAIN s = 1 .. Len(s)
  BY LenProperties
<1>2. f \in Seq(S)
  BY <1>1, SeqDef
<1>3. DOMAIN f = 1 .. Len(f) /\ Len(f) \in Nat
  BY <1>2, LenProperties
<1> QED
  BY <1>1, <1>2, <1>3

\* A finite set without two different elements has one element at most.
LEMMA AtMostOne ==
  ASSUME NEW S, IsFiniteSet(S), \A x, y \in S : x = y
  PROVE  Cardinality(S) <= 1
<1>1. CASE S = {}
  BY <1>1, FS_EmptySet
<1>2. CASE S # {}
  <2>1. PICK x \in S : TRUE
    BY <1>2
  <2>2. S = {x}
    BY <2>1
  <2> QED
    BY <2>2, FS_Singleton
<1> QED
  BY <1>1, <1>2

\* Invitations are numbered from 1.
LEMMA RowsAreNumbers ==
  ASSUME TypeOK
  PROVE  /\ DOMAIN invitation = 1 .. Len(invitation) /\ Len(invitation) \in Nat
         /\ DOMAIN invitation \subseteq 0 .. MaxInvitations
         /\ invitation \in [DOMAIN invitation -> Invitation]
  BY LenProperties, TenancyAssumption DEF TypeOK, TenancyAssumption

-----------------------------------------------------------------------------
(* What a step does to the requests.                                       *)

Requesting == request' \in [Requests -> Request \cup {None}]

\* Request r is the only one that moves.
Alone(r) == \A s \in Requests \ {r} : request'[s] = request[s]

LEMMA StartsOne ==
  ASSUME TypeOK, NEW r \in Requests, NEW u \in Users, NEW op \in Operations, NEW at \in Steps,
         NEW t \in Users, NEW row \in 0 .. MaxInvitations, NEW wanted \in Roles,
         Starts(r, u, op, at, t, row, wanted)
  PROVE  /\ Requesting /\ Alone(r)
         /\ request'[r] = [op |-> op, at |-> at, by |-> u, rank |-> member[u].role,
                           target |-> t, row |-> row, wanted |-> wanted, seen |-> "NONE"]
<1>1. member[u].role \in Roles
  BY DEF TypeOK
<1>2. [op |-> op, at |-> at, by |-> u, rank |-> member[u].role, target |-> t, row |-> row,
       wanted |-> wanted, seen |-> "NONE"] \in Request
  BY <1>1 DEF Request, MembershipStatus
<1> QED
  BY <1>2 DEF TypeOK, Starts, Requesting, Alone

LEMMA GoesOne ==
  ASSUME TypeOK, NEW r \in Requests, request[r] # None, NEW at \in Steps,
         NEW seen \in Roles \cup MembershipStatus, Goes(r, at, seen)
  PROVE  /\ Requesting /\ Alone(r)
         /\ request[r] \in Request
         /\ request'[r] = [request[r] EXCEPT !.at = at, !.seen = seen]
<1>1. request[r] \in Request
  BY DEF TypeOK
<1>2. [request[r] EXCEPT !.at = at, !.seen = seen] \in Request
  BY <1>1 DEF Request
<1> QED
  BY <1>1, <1>2 DEF TypeOK, Goes, Requesting, Alone

LEMMA EndsOne ==
  ASSUME TypeOK, NEW r \in Requests, Ends(r)
  PROVE  Requesting /\ Alone(r) /\ request'[r] = None
  BY DEF TypeOK, Ends, Requesting, Alone

\* Rows are neither deleted nor given to somebody else.
RowsStay ==
  /\ DOMAIN invitation \subseteq DOMAIN invitation'
  /\ \A i \in DOMAIN invitation : invitation'[i].to = invitation[i].to

\* While rows stay, the other requests are entitled to what they were entitled to.
LEMMA EntitledStays ==
  ASSUME IInv, RowsStay, NEW r \in Requests, Alone(r),
         request'[r] = None \/ Entitled(request[r])'
  PROVE  RequestsAreEntitled'
<1> SUFFICES ASSUME NEW s \in Requests, request'[s] # None
             PROVE  Entitled(request[s])'
  BY DEF RequestsAreEntitled
<1>1. CASE s = r
  BY <1>1
<1>2. CASE s # r
  <2>1. request'[s] = request[s] /\ Entitled(request[s])
    BY <1>2 DEF Alone, IInv, RequestsAreEntitled
  <2> QED
    BY <2>1 DEF Entitled, RowsStay
<1> QED
  BY <1>1, <1>2

\* A step that only reads.
LEMMA ReadingKeepsInvariant ==
  ASSUME IInv, UNCHANGED <<organization, member, invitation>>, NEW r \in Requests,
         Requesting, Alone(r), request'[r] = None \/ Entitled(request[r])'
  PROVE  IInv'
<1>1. RequestsAreEntitled'
  BY EntitledStays DEF RowsStay
<1> QED
  BY <1>1 DEF IInv, TypeOK, OneOpen, FounderOwns, OwnerStays, NobodyInvitesAnOwner, Requesting

\* Members change, invitations do not.
LEMMA InvitationsRest ==
  ASSUME IInv, UNCHANGED invitation
  PROVE  /\ invitation' \in Seq(Invitation) /\ Len(invitation') <= MaxInvitations
         /\ OneOpen' /\ NobodyInvitesAnOwner' /\ RowsStay
  BY DEF IInv, TypeOK, OneOpen, NobodyInvitesAnOwner, RowsStay

\* Rows that are replaced by rows of the same address, and not reopened.
LEMMA InvitationsChange ==
  ASSUME IInv, NEW f \in [DOMAIN invitation -> Invitation], invitation' = f,
         \A i \in DOMAIN invitation :
           /\ f[i].to = invitation[i].to /\ f[i].role # "OWNER"
           /\ f[i].status = "PENDING" => invitation[i].status = "PENDING"
  PROVE  /\ invitation' \in Seq(Invitation) /\ Len(invitation') <= MaxInvitations
         /\ OneOpen' /\ NobodyInvitesAnOwner' /\ RowsStay
<1>1. /\ invitation' \in Seq(Invitation)
      /\ Len(invitation') = Len(invitation) /\ DOMAIN invitation' = DOMAIN invitation
  BY ReplacedInPlace DEF IInv, TypeOK
<1>2. Len(invitation') <= MaxInvitations
  BY <1>1 DEF IInv, TypeOK
<1>3. OneOpen' /\ NobodyInvitesAnOwner' /\ RowsStay
  BY <1>1 DEF IInv, OneOpen, NobodyInvitesAnOwner, RowsStay
<1> QED
  BY <1>1, <1>2, <1>3

\* updateMany of the status of an open invitation.
LEMMA EndingKeepsRows ==
  ASSUME IInv, NEW i \in DOMAIN invitation,
         NEW status \in {"ACCEPTED", "DECLINED", "CANCELLED", "EXPIRED"},
         EndPending(i, status)
  PROVE  /\ invitation' \in Seq(Invitation) /\ Len(invitation') <= MaxInvitations
         /\ OneOpen' /\ NobodyInvitesAnOwner' /\ RowsStay
<1> DEFINE f == [invitation EXCEPT ![i].status = status]
<1>1. invitation \in [DOMAIN invitation -> Invitation]
  BY RowsAreNumbers DEF IInv
<1>2. CASE invitation[i].status = "PENDING"
  <2>1. invitation' = f
    BY <1>2 DEF EndPending
  <2>2. f \in [DOMAIN invitation -> Invitation]
    BY <1>1 DEF Invitation, InvitationStatus
  <2>3. \A j \in DOMAIN invitation :
           /\ f[j].to = invitation[j].to /\ f[j].role = invitation[j].role
           /\ f[j].status = "PENDING" => invitation[j].status = "PENDING"
    BY <1>1 DEF Invitation
  <2> HIDE DEF f
  <2> QED
    BY <2>1, <2>2, <2>3, InvitationsChange DEF IInv, NobodyInvitesAnOwner
<1>3. CASE invitation[i].status # "PENDING"
  BY <1>3, InvitationsRest DEF EndPending
<1> QED
  BY <1>2, <1>3

\* tryRenewPending.
LEMMA RenewingKeepsRows ==
  ASSUME IInv, NEW q \in Request, q.wanted # "OWNER", Renew(q)
  PROVE  /\ invitation' \in Seq(Invitation) /\ Len(invitation') <= MaxInvitations
         /\ OneOpen' /\ NobodyInvitesAnOwner' /\ RowsStay
<1>1. invitation \in [DOMAIN invitation -> Invitation]
  BY RowsAreNumbers DEF IInv
<1>2. invitation' \in [DOMAIN invitation -> Invitation]
  BY <1>1 DEF Renew, Invitation, Request
<1>3. \A j \in DOMAIN invitation :
         /\ invitation'[j].to = invitation[j].to /\ invitation'[j].role # "OWNER"
         /\ invitation'[j].status = "PENDING" => invitation[j].status = "PENDING"
  BY <1>1 DEF Renew, Invitation, IInv, NobodyInvitesAnOwner
<1> QED
  BY <1>2, <1>3, InvitationsChange

-----------------------------------------------------------------------------
(* The steps.                                                              *)

\* A request starts with what it was asked for, and with the role of its author.
LEMMA StartKeepsInvariant ==
  ASSUME IInv, NEW r \in Requests, NEW u \in Users, Start(r, u)
  PROVE  IInv'
<1>0. /\ TypeOK /\ "AGENT" \in Roles /\ Wanted \subseteq Roles \ {"OWNER"}
      /\ Subjects \subseteq Users
  BY TenancyAssumption DEF IInv, TenancyAssumption, Roles, Weight
<1>1. CASE StartLeave(r, u) \/ StartArchive(r, u)
  <2>1. UNCHANGED <<organization, member, invitation>>
        /\ \E op \in {"leave", "archive"} : Starts(r, u, op, "write", u, 0, "AGENT")
    BY <1>1 DEF StartLeave, StartArchive
  <2>2. PICK op \in {"leave", "archive"} : Starts(r, u, op, "write", u, 0, "AGENT")
    BY <2>1
  <2>3. op \in Operations /\ "write" \in Steps /\ 0 \in 0 .. MaxInvitations
    BY TenancyAssumption DEF Operations, Steps, TenancyAssumption
  <2>4. /\ Requesting /\ Alone(r)
        /\ request'[r] = [op |-> op, at |-> "write", by |-> u, rank |-> member[u].role,
                          target |-> u, row |-> 0, wanted |-> "AGENT", seen |-> "NONE"]
    BY <1>0, <2>2, <2>3, StartsOne
  <2>5. Entitled(request[r])'
    BY <2>4 DEF Entitled
  <2> QED
    BY <2>1, <2>4, <2>5, ReadingKeepsInvariant
<1>2. ASSUME NEW t \in Subjects, NEW wanted \in Roles \ {"OWNER"},
             StartRemove(r, u, t) \/ StartUpdateRole(r, u, t, wanted)
             \/ StartInvite(r, u, t, wanted)
      PROVE  IInv'
  <2>1. UNCHANGED <<organization, member, invitation>>
        /\ \E op \in {"remove", "updateRole", "invite"}, w \in Roles \ {"OWNER"} :
             Starts(r, u, op, "check", t, 0, w)
    BY <1>0, <1>2 DEF StartRemove, StartUpdateRole, StartInvite
  <2>2. PICK op \in {"remove", "updateRole", "invite"}, w \in Roles \ {"OWNER"} :
             Starts(r, u, op, "check", t, 0, w)
    BY <2>1
  <2>3. op \in Operations /\ "check" \in Steps /\ 0 \in 0 .. MaxInvitations /\ t \in Users
    BY <1>0, TenancyAssumption DEF Operations, Steps, TenancyAssumption
  <2>4. /\ Requesting /\ Alone(r)
        /\ request'[r] = [op |-> op, at |-> "check", by |-> u, rank |-> member[u].role,
                          target |-> t, row |-> 0, wanted |-> w, seen |-> "NONE"]
    BY <1>0, <2>2, <2>3, StartsOne
  <2>5. Entitled(request[r])'
    BY <2>4 DEF Entitled
  <2> QED
    BY <2>1, <2>4, <2>5, ReadingKeepsInvariant
<1>3. ASSUME NEW i \in DOMAIN invitation,
             StartCancel(r, u, i) \/ StartAccept(r, u, i) \/ StartDecline(r, u, i)
      PROVE  IInv'
  <2>0. i \in 0 .. MaxInvitations /\ invitation[i] \in Invitation /\ invitation[i].role # "OWNER"
    BY <1>0, RowsAreNumbers DEF IInv, NobodyInvitesAnOwner
  <2>1. /\ UNCHANGED <<organization, member, invitation>>
        /\ \E op \in {"cancel", "accept", "decline"}, at \in {"expire", "write", "member"},
              w \in Roles \ {"OWNER"} :
             /\ Starts(r, u, op, at, u, i, w)
             /\ op = "accept" => invitation[i].to = u /\ at # "write"
    BY <1>0, <1>3, <2>0 DEF StartCancel, StartAccept, StartDecline, Invitation
  <2>2. PICK op \in {"cancel", "accept", "decline"}, at \in {"expire", "write", "member"},
              w \in Roles \ {"OWNER"} :
             /\ Starts(r, u, op, at, u, i, w)
             /\ op = "accept" => invitation[i].to = u /\ at # "write"
    BY <2>1
  <2>3. op \in Operations /\ at \in Steps
    BY DEF Operations, Steps
  <2>4. /\ Requesting /\ Alone(r)
        /\ request'[r] = [op |-> op, at |-> at, by |-> u, rank |-> member[u].role,
                          target |-> u, row |-> i, wanted |-> w, seen |-> "NONE"]
    BY <1>0, <2>0, <2>2, <2>3, StartsOne
  <2>5. Entitled(request[r])'
    BY <2>1, <2>2, <2>4 DEF Entitled
  <2> QED
    BY <2>1, <2>4, <2>5, ReadingKeepsInvariant
<1> QED
  BY <1>0, <1>1, <1>2, <1>3 DEF Start

\* The steps that read before they write.
LEMMA ReadKeepsInvariant ==
  ASSUME IInv, NEW r \in Requests,
         UpdateRoleReads(r) \/ RemoveReads(r) \/ InviteReads(r) \/ AcceptReads(r)
  PROVE  IInv'
<1>0. TypeOK /\ request[r] # None /\ request[r] \in Request /\ Entitled(request[r])
  BY DEF IInv, TypeOK, RequestsAreEntitled, UpdateRoleReads, RemoveReads, InviteReads,
         AcceptReads, At
<1>1. UNCHANGED <<organization, member, invitation>>
  BY DEF UpdateRoleReads, RemoveReads, InviteReads, AcceptReads
<1>2. CASE Ends(r)
  BY <1>0, <1>1, <1>2, EndsOne, ReadingKeepsInvariant
<1>3. CASE ~Ends(r)
  <2>1. PICK at \in Steps, seen \in Roles \cup MembershipStatus :
          /\ Goes(r, at, seen)
          /\ request[r].op = "accept" => seen \in MembershipStatus \ {"ACTIVE"}
          /\ request[r].op = "updateRole" =>
               /\ seen \in Roles /\ request[r].target # request[r].by
               /\ CanActOnRole(request[r].rank, seen)
               /\ CanAssignRole(request[r].rank, request[r].wanted)
    <3>1. CASE UpdateRoleReads(r)
      <4>1. member[request[r].target].role \in Roles /\ "write" \in Steps
        BY <1>0 DEF TypeOK, Request, Steps
      <4> QED
        BY <1>3, <3>1, <4>1 DEF UpdateRoleReads, At, MayBeManaged
    <3>2. CASE RemoveReads(r)
      BY <1>3, <3>2 DEF RemoveReads, At, Steps, MembershipStatus
    <3>3. CASE InviteReads(r)
      BY <1>3, <3>3 DEF InviteReads, At, Steps, MembershipStatus
    <3>4. CASE AcceptReads(r)
      <4>1. member[request[r].by].status \in MembershipStatus /\ "write" \in Steps
        BY <1>0 DEF TypeOK, Request, Steps
      <4> QED
        BY <1>3, <3>4, <4>1 DEF AcceptReads, At
    <3> QED
      BY <3>1, <3>2, <3>3, <3>4
  <2>2. /\ Requesting /\ Alone(r)
        /\ request'[r] = [request[r] EXCEPT !.at = at, !.seen = seen]
    <3>1. Goes(r, at, seen)
      BY <2>1
    <3> QED
      BY <1>0, <3>1, GoesOne
  <2>3. Entitled(request[r])'
    BY <1>0, <1>1, <2>1, <2>2 DEF Entitled, Request
  <2> QED
    BY <1>1, <2>2, <2>3, ReadingKeepsInvariant
<1> QED
  BY <1>2, <1>3

\* What a step that writes must still show.
LEMMA WritingKeepsInvariant ==
  ASSUME IInv, NEW r \in Requests, Requesting, Alone(r),
         (request[r] # None => Entitled(request[r]))',
         organization' \in {"ACTIVE", "ARCHIVED"},
         member' \in [Users -> [role : Roles, status : MembershipStatus]],
         FounderOwns', OwnerStays',
         invitation' \in Seq(Invitation), Len(invitation') <= MaxInvitations,
         OneOpen', NobodyInvitesAnOwner', RowsStay
  PROVE  IInv'
<1>1. RequestsAreEntitled'
  BY EntitledStays
<1> QED
  BY <1>1 DEF IInv, TypeOK, Requesting

\* The members change, but not the founder, and nobody becomes owner.
LEMMA MembersChange ==
  ASSUME IInv, NEW u \in Users \ {Founder}, NEW p \in [role : Roles, status : MembershipStatus],
         p.role # "OWNER", member' = [member EXCEPT ![u] = p]
  PROVE  /\ member' \in [Users -> [role : Roles, status : MembershipStatus]]
         /\ FounderOwns' /\ OwnerStays'
<1>1. p # [role |-> "OWNER", status |-> "ACTIVE"]
  OBVIOUS
<1>2. /\ member' \in [Users -> [role : Roles, status : MembershipStatus]]
      /\ member'[u] = p /\ \A v \in Users \ {u} : member'[v] = member[v]
  BY DEF IInv, TypeOK
<1>3. Founder \in Users
  BY TenancyAssumption DEF TenancyAssumption
<1> QED
  BY <1>1, <1>2, <1>3 DEF IInv, FounderOwns, OwnerStays

LEMMA MembersRest ==
  ASSUME IInv, UNCHANGED member
  PROVE  /\ member' \in [Users -> [role : Roles, status : MembershipStatus]]
         /\ FounderOwns' /\ OwnerStays'
  BY DEF IInv, TypeOK, FounderOwns, OwnerStays

\* A role is changed.
LEMMA UpdateRoleKeepsInvariant ==
  ASSUME IInv, NEW r \in Requests, UpdateRoleWrites(r)
  PROVE  IInv'
<1> DEFINE q == request[r]
<1>0. /\ TypeOK /\ q \in Request /\ Entitled(q) /\ q.op = "updateRole" /\ q.at = "write"
      /\ Ends(r) /\ UNCHANGED <<organization, invitation>>
      /\ member' = IF StillHas(q.target, q.seen)
                   THEN [member EXCEPT ![q.target].role = q.wanted] ELSE member
  BY DEF IInv, TypeOK, RequestsAreEntitled, UpdateRoleWrites, At
<1> HIDE DEF q
<1>1. q.target \in Users /\ q.wanted \in Roles \ {"OWNER"} /\ q.rank \in Roles
      /\ q.seen \in Roles /\ CanActOnRole(q.rank, q.seen)
  BY <1>0 DEF Request, Entitled
<1>2. q.seen # "OWNER"
  BY <1>1 DEF CanActOnRole, Weight, Roles
<1>3. /\ member' \in [Users -> [role : Roles, status : MembershipStatus]]
      /\ FounderOwns' /\ OwnerStays'
  <2>1. CASE StillHas(q.target, q.seen)
    <3> DEFINE p == [member[q.target] EXCEPT !.role = q.wanted]
    <3>1. member[q.target] \in [role : Roles, status : MembershipStatus]
      BY <1>0, <1>1 DEF TypeOK
    <3>2. p \in [role : Roles, status : MembershipStatus] /\ p.role # "OWNER"
      BY <1>1, <3>1
    <3>3. member' = [member EXCEPT ![q.target] = p]
      BY <1>0, <2>1
    <3>4. q.target # Founder
      BY <1>2, <2>1 DEF StillHas, IInv, OwnerStays
    <3> HIDE DEF p
    <3> QED
      BY <1>1, <3>2, <3>3, <3>4, MembersChange
  <2>2. CASE ~StillHas(q.target, q.seen)
    BY <1>0, <2>2, MembersRest
  <2> QED
    BY <2>1, <2>2
<1>4. Requesting /\ Alone(r) /\ request'[r] = None
  BY <1>0, EndsOne
<1>5. organization' \in {"ACTIVE", "ARCHIVED"}
  BY <1>0 DEF TypeOK
<1> QED
  BY <1>0, <1>3, <1>4, <1>5, InvitationsRest, WritingKeepsInvariant

\* Somebody is removed or leaves.
LEMMA LeavingKeepsInvariant ==
  ASSUME IInv, NEW r \in Requests, RemoveWrites(r) \/ LeaveWrites(r)
  PROVE  IInv'
<1>0. /\ TypeOK /\ Ends(r) /\ UNCHANGED <<organization, invitation>>
      /\ \E t \in Users : Leaves(t)
  <2>1. request[r] \in Request
    BY DEF IInv, TypeOK, RemoveWrites, LeaveWrites, At
  <2>2. request[r].target \in Users /\ request[r].by \in Users
    BY <2>1 DEF Request
  <2> QED
    BY <2>2 DEF IInv, RemoveWrites, LeaveWrites
<1>1. PICK t \in Users : Leaves(t)
  BY <1>0
<1>2. /\ member' \in [Users -> [role : Roles, status : MembershipStatus]]
      /\ FounderOwns' /\ OwnerStays'
  <2>1. CASE member[t].status = "ACTIVE" /\ member[t].role # "OWNER"
    <3> DEFINE p == [member[t] EXCEPT !.status = "LEFT"]
    <3>1. member[t] \in [role : Roles, status : MembershipStatus]
      BY <1>0 DEF TypeOK
    <3>2. p \in [role : Roles, status : MembershipStatus] /\ p.role # "OWNER"
      BY <2>1, <3>1 DEF MembershipStatus
    <3>3. member' = [member EXCEPT ![t] = p]
      BY <1>1, <2>1 DEF Leaves
    <3>4. t # Founder
      BY <2>1 DEF IInv, OwnerStays
    <3> HIDE DEF p
    <3> QED
      BY <3>2, <3>3, <3>4, MembersChange
  <2>2. CASE ~(member[t].status = "ACTIVE" /\ member[t].role # "OWNER")
    BY <1>1, <2>2, MembersRest DEF Leaves
  <2> QED
    BY <2>1, <2>2
<1>3. Requesting /\ Alone(r) /\ request'[r] = None
  BY <1>0, EndsOne
<1>4. organization' \in {"ACTIVE", "ARCHIVED"}
  BY <1>0 DEF TypeOK
<1> QED
  BY <1>0, <1>2, <1>3, <1>4, InvitationsRest, WritingKeepsInvariant

\* An invitation is renewed, or created when there is none.
LEMMA InvitingKeepsInvariant ==
  ASSUME IInv, NEW r \in Requests,
         InviteRenews(r) \/ InviteCreates(r) \/ InviteRenewsAgain(r)
  PROVE  IInv'
<1> DEFINE q == request[r]
<1>0. /\ TypeOK /\ q # None /\ q \in Request /\ Entitled(q) /\ q.op = "invite"
      /\ UNCHANGED <<organization, member>>
  BY DEF IInv, TypeOK, RequestsAreEntitled, InviteRenews, InviteCreates, InviteRenewsAgain, At
<1>1. /\ Requesting /\ Alone(r) /\ (request[r] # None => Entitled(request[r]))'
  <2>1. CASE Ends(r)
    BY <1>0, <2>1, EndsOne
  <2>2. CASE ~Ends(r)
    <3>1. PICK at \in Steps : Goes(r, at, "NONE")
      BY <2>2 DEF InviteRenews, InviteCreates, InviteRenewsAgain, Steps
    <3>2. "NONE" \in Roles \cup MembershipStatus
      BY DEF MembershipStatus
    <3>3. Requesting /\ Alone(r) /\ request'[r] = [q EXCEPT !.at = at, !.seen = "NONE"]
      BY <1>0, <3>1, <3>2, GoesOne
    <3> QED
      BY <1>0, <3>3 DEF Entitled, Request
  <2> QED
    BY <2>1, <2>2
<1>2. q.wanted \in Roles \ {"OWNER"} /\ q.target \in Users
  BY <1>0 DEF Entitled, Request
<1>3. /\ invitation' \in Seq(Invitation) /\ Len(invitation') <= MaxInvitations
      /\ OneOpen' /\ NobodyInvitesAnOwner' /\ RowsStay
  <2>1. CASE Renew(q)
    BY <1>0, <1>2, <2>1, RenewingKeepsRows
  <2>2. CASE UNCHANGED invitation
    BY <2>2, InvitationsRest
  <2>3. CASE /\ IndexAllows(q.target) /\ Len(invitation) < MaxInvitations
             /\ invitation' = Append(invitation, [to |-> q.target, role |-> q.wanted,
                                           status |-> "PENDING", expired |-> FALSE])
    <3> DEFINE new == [to |-> q.target, role |-> q.wanted, status |-> "PENDING",
                       expired |-> FALSE]
    <3>1. new \in Invitation /\ new.to = q.target /\ new.role # "OWNER"
      BY <1>2 DEF Invitation, InvitationStatus
    <3>2. invitation \in Seq(Invitation) /\ invitation' = Append(invitation, new)
      BY <1>0, <2>3 DEF TypeOK
    <3>3. PendingFor(q.target) = {}
      BY <2>3 DEF IndexAllows
    <3> HIDE DEF new
    <3>4. /\ invitation' \in Seq(Invitation) /\ Len(invitation') = Len(invitation) + 1
          /\ \A i \in 1 .. Len(invitation) : invitation'[i] = invitation[i]
          /\ invitation'[Len(invitation) + 1] = new
      BY <3>1, <3>2, AppendProperties
    <3>5. /\ Len(invitation) \in Nat /\ DOMAIN invitation = 1 .. Len(invitation)
          /\ DOMAIN invitation' = 1 .. Len(invitation) + 1
      BY <3>2, <3>4, LenProperties
    <3>6. Len(invitation') <= MaxInvitations
      BY <2>3, <3>4, <3>5, TenancyAssumption DEF TenancyAssumption
    <3>7. RowsStay /\ NobodyInvitesAnOwner'
      BY <3>1, <3>4, <3>5 DEF RowsStay, IInv, NobodyInvitesAnOwner
    <3>8. OneOpen'
      <4> SUFFICES ASSUME NEW i \in DOMAIN invitation', NEW j \in DOMAIN invitation',
                          invitation'[i].status = "PENDING",
                          invitation'[j].status = "PENDING",
                          invitation'[i].to = invitation'[j].to
                   PROVE  i = j
        BY DEF OneOpen
      <4>1. \A k \in DOMAIN invitation : invitation[k].to = q.target
                                         => invitation[k].status # "PENDING"
        BY <3>3 DEF PendingFor
      <4>2. CASE i \in DOMAIN invitation /\ j \in DOMAIN invitation
        BY <3>4, <3>5, <4>2 DEF IInv, OneOpen
      <4>3. CASE i \notin DOMAIN invitation \/ j \notin DOMAIN invitation
        BY <3>1, <3>4, <3>5, <4>1, <4>3
      <4> QED
        BY <4>2, <4>3
    <3> QED
      BY <3>4, <3>6, <3>7, <3>8
  <2> QED
    BY <2>1, <2>2, <2>3 DEF InviteRenews, InviteCreates, InviteRenewsAgain
<1>4. organization' \in {"ACTIVE", "ARCHIVED"}
  BY <1>0 DEF TypeOK
<1> QED
  BY <1>0, <1>1, <1>3, <1>4, MembersRest, WritingKeepsInvariant

\* An open invitation ends, unless somebody was faster.
LEMMA EndingKeepsInvariant ==
  ASSUME IInv, NEW r \in Requests,
         CancelWrites(r) \/ DeclineWrites(r) \/ LazilyMarkExpired(r)
  PROVE  IInv'
<1>0. /\ TypeOK /\ request[r] # None /\ request[r].op \in {"cancel", "accept", "decline"}
      /\ Ends(r) /\ UNCHANGED <<organization, member>>
      /\ \E status \in {"ACCEPTED", "DECLINED", "CANCELLED", "EXPIRED"} :
           EndPending(request[r].row, status)
  BY DEF IInv, CancelWrites, DeclineWrites, LazilyMarkExpired, At
<1>1. request[r].row \in DOMAIN invitation
  BY <1>0 DEF IInv, RequestsAreEntitled, Entitled
<1>2. /\ invitation' \in Seq(Invitation) /\ Len(invitation') <= MaxInvitations
      /\ OneOpen' /\ NobodyInvitesAnOwner' /\ RowsStay
  BY <1>0, <1>1, EndingKeepsRows
<1>3. Requesting /\ Alone(r) /\ request'[r] = None
  BY <1>0, EndsOne
<1>4. organization' \in {"ACTIVE", "ARCHIVED"}
  BY <1>0 DEF TypeOK
<1> QED
  BY <1>0, <1>2, <1>3, <1>4, MembersRest, WritingKeepsInvariant

\* Who is admitted was not a member, and does not become an owner.
LEMMA AcceptKeepsInvariant ==
  ASSUME IInv, NEW r \in Requests, AcceptWrites(r)
  PROVE  IInv'
<1> DEFINE q == request[r]
<1>0. /\ TypeOK /\ q \in Request /\ Entitled(q) /\ q.op = "accept" /\ q.at = "write"
      /\ Ends(r) /\ UNCHANGED organization
  BY DEF IInv, TypeOK, RequestsAreEntitled, AcceptWrites, At
<1>1. /\ q.by \in Users /\ q.wanted \in Roles \ {"OWNER"} /\ q.row \in DOMAIN invitation
      /\ q.seen # "ACTIVE"
  BY <1>0 DEF Request, Entitled
<1>2. Requesting /\ Alone(r) /\ request'[r] = None
  BY <1>0, EndsOne
<1>3. organization' \in {"ACTIVE", "ARCHIVED"}
  BY <1>0 DEF TypeOK
<1>4. CASE Consumable(q.row) /\ member[q.by].status = q.seen
  <2>1. EndPending(q.row, "ACCEPTED")
    BY <1>4 DEF AcceptWrites, EndPending, Consumable
  <2>2. /\ invitation' \in Seq(Invitation) /\ Len(invitation') <= MaxInvitations
        /\ OneOpen' /\ NobodyInvitesAnOwner' /\ RowsStay
    BY <1>1, <2>1, EndingKeepsRows
  <2>3. member' = [member EXCEPT ![q.by] = [role |-> q.wanted, status |-> "ACTIVE"]]
    BY <1>4 DEF AcceptWrites
  <2>4. q.by # Founder
    BY <1>1, <1>4 DEF IInv, FounderOwns
  <2>5. [role |-> q.wanted, status |-> "ACTIVE"] \in [role : Roles, status : MembershipStatus]
    BY <1>1 DEF MembershipStatus
  <2>6. /\ member' \in [Users -> [role : Roles, status : MembershipStatus]]
        /\ FounderOwns' /\ OwnerStays'
    BY <1>1, <2>3, <2>4, <2>5, MembersChange
  <2> QED
    BY <1>2, <1>3, <2>2, <2>6, WritingKeepsInvariant
<1>5. CASE ~(Consumable(q.row) /\ member[q.by].status = q.seen)
  <2>1. UNCHANGED <<invitation, member>>
    BY <1>5 DEF AcceptWrites
  <2> QED
    BY <1>2, <1>3, <2>1, InvitationsRest, MembersRest, WritingKeepsInvariant
<1> QED
  BY <1>4, <1>5

LEMMA ArchiveKeepsInvariant ==
  ASSUME IInv, NEW r \in Requests, ArchiveWrites(r)
  PROVE  IInv'
<1>1. Requesting /\ Alone(r) /\ request'[r] = None
  BY EndsOne DEF IInv, ArchiveWrites
<1>2. UNCHANGED <<member, invitation>> /\ organization' = "ARCHIVED"
  BY DEF ArchiveWrites
<1> QED
  BY <1>1, <1>2, InvitationsRest, MembersRest, WritingKeepsInvariant

\* Time passes; a request is needed for none of it.
LEMMA AgeingKeepsInvariant ==
  ASSUME IInv, NEW i \in DOMAIN invitation, GrowsOld(i)
  PROVE  IInv'
<1> DEFINE f == [invitation EXCEPT ![i].expired = TRUE]
<1>1. invitation \in [DOMAIN invitation -> Invitation]
  BY RowsAreNumbers DEF IInv
<1>2. invitation' = f /\ UNCHANGED <<organization, member, request>>
  BY DEF GrowsOld
<1>3. f \in [DOMAIN invitation -> Invitation]
  BY <1>1 DEF Invitation
<1>4. \A j \in DOMAIN invitation :
        /\ f[j].to = invitation[j].to /\ f[j].role = invitation[j].role
        /\ f[j].status = invitation[j].status
  BY <1>1 DEF Invitation
<1> HIDE DEF f
<1>5. /\ invitation' \in Seq(Invitation) /\ Len(invitation') <= MaxInvitations
      /\ OneOpen' /\ NobodyInvitesAnOwner' /\ RowsStay
  BY <1>2, <1>3, <1>4, InvitationsChange DEF IInv, NobodyInvitesAnOwner
<1>6. RequestsAreEntitled'
  BY <1>2, <1>5 DEF RowsStay, IInv, RequestsAreEntitled, Entitled
<1> QED
  BY <1>2, <1>5, <1>6, MembersRest DEF IInv, TypeOK

-----------------------------------------------------------------------------
(* The theorems.                                                           *)

LEMMA InitSound == Init => IInv
<1> SUFFICES ASSUME Init PROVE IInv
  OBVIOUS
<1>1. Founder \in Users /\ Admins \subseteq Users \ {Founder} /\ MaxInvitations \in Nat
  BY TenancyAssumption DEF TenancyAssumption
<1>2. invitation \in Seq(Invitation) /\ Len(invitation) = 0 /\ DOMAIN invitation = {}
  BY EmptySeq, LenProperties DEF Init
<1>3. TypeOK
  BY <1>1, <1>2 DEF Init, TypeOK, MembershipStatus
<1>4. OwnerStays /\ FounderOwns
  <2>1. \A u \in Users \ {Founder} : member[u].role \in {"ADMIN", "AGENT"}
    BY DEF Init
  <2> QED
    BY <1>1, <2>1 DEF Init, OwnerStays, FounderOwns
<1>5. RequestsAreEntitled
  BY DEF Init, RequestsAreEntitled
<1> QED
  BY <1>2, <1>3, <1>4, <1>5 DEF IInv, OneOpen, NobodyInvitesAnOwner

LEMMA ContinueKeepsInvariant ==
  ASSUME IInv, NEW r \in Requests, Continue(r)
  PROVE  IInv'
BY ReadKeepsInvariant, UpdateRoleKeepsInvariant, LeavingKeepsInvariant,
   InvitingKeepsInvariant, EndingKeepsInvariant, AcceptKeepsInvariant,
   ArchiveKeepsInvariant
DEF Continue

LEMMA NextSound == IInv /\ [Next]_vars => IInv'
<1> SUFFICES ASSUME IInv, [Next]_vars PROVE IInv'
  OBVIOUS
<1>1. ASSUME NEW r \in Requests, Continue(r) \/ \E u \in Users : Start(r, u)
      PROVE  IInv'
  BY <1>1, ContinueKeepsInvariant, StartKeepsInvariant
<1>2. ASSUME NEW i \in DOMAIN invitation, GrowsOld(i)
      PROVE  IInv'
  BY <1>2, AgeingKeepsInvariant
<1>3. CASE UNCHANGED vars
  BY <1>3 DEF vars, IInv, TypeOK, OneOpen, FounderOwns, OwnerStays, NobodyInvitesAnOwner,
              RequestsAreEntitled, Entitled
<1> QED
  BY <1>1, <1>2, <1>3 DEF Next

\* However requests interleave, whatever they read before they wrote, the invariant holds.
LEMMA InvariantHolds == Spec => []IInv
BY InitSound, NextSound, PTL DEF Spec

\* The state of an organization is sound under the invariant.
LEMMA SoundTeam == IInv => TeamIsSound
<1> SUFFICES ASSUME IInv PROVE TeamIsSound
  OBVIOUS
<1>1. ASSUME NEW u \in Users
      PROVE  Cardinality(PendingFor(u)) <= 1
  <2>1. PendingFor(u) \subseteq 1 .. Len(invitation) /\ Len(invitation) \in Nat
    BY RowsAreNumbers DEF PendingFor, IInv
  <2>2. IsFiniteSet(PendingFor(u))
    <3>1. IsFiniteSet(1 .. Len(invitation))
      BY <2>1, FS_Interval
    <3> QED
      BY <2>1, <3>1, FS_Subset
  <2>3. \A i, j \in PendingFor(u) : i = j
    BY DEF PendingFor, IInv, OneOpen
  <2> QED
    BY <2>2, <2>3, AtMostOne
<1> QED
  BY <1>1 DEF IInv, TeamIsSound, FounderOwns, NobodyInvitesAnOwner

\* The founder is and stays the only owner, an address has one invitation that may be
\* used, and no invitation bears OWNER, for any number of users, invitations and requests
\* in flight, whatever they read before they wrote (TeamIsSound).
THEOREM TeamStaysSound == Spec => []TeamIsSound
BY InvariantHolds, SoundTeam, PTL

-----------------------------------------------------------------------------
(* What a step may never do.                                               *)

RoleChange ==
  \A u \in Users :
    /\ member[u].status = "ACTIVE" /\ member'[u].status = "ACTIVE"
    /\ member'[u].role # member[u].role
    => \E r \in Requests :
         /\ At(r, "updateRole", "write") /\ request[r].target = u /\ request[r].by # u
         /\ CanActOnRole(request[r].rank, member[u].role)
         /\ CanAssignRole(request[r].rank, member'[u].role)

\* An update of a role writes what it was entitled to, to a member who still has the role
\* that was read.
LEMMA UpdateRoleIsRanked ==
  ASSUME IInv, NEW r \in Requests, UpdateRoleWrites(r)
  PROVE  RoleChange
<1> DEFINE q == request[r]
<1>0. /\ TypeOK /\ At(r, "updateRole", "write") /\ Entitled(q)
      /\ q.op = "updateRole" /\ q.at = "write" /\ q.target \in Users
      /\ member' = IF StillHas(q.target, q.seen)
                   THEN [member EXCEPT ![q.target].role = q.wanted] ELSE member
  BY DEF IInv, TypeOK, RequestsAreEntitled, UpdateRoleWrites, At, Request
<1> SUFFICES ASSUME NEW u \in Users, member'[u].role # member[u].role
             PROVE  /\ At(r, "updateRole", "write") /\ q.target = u /\ q.by # u
                    /\ CanActOnRole(q.rank, member[u].role)
                    /\ CanAssignRole(q.rank, member'[u].role)
  BY DEF RoleChange
<1>1. StillHas(q.target, q.seen) /\ q.target = u /\ member'[u].role = q.wanted
  BY <1>0 DEF TypeOK
<1>2. member[u].role = q.seen
  BY <1>1 DEF StillHas
<1> QED
  BY <1>0, <1>1, <1>2 DEF Entitled

\* The other steps leave the roles of those alone who stay members.
LEMMA OthersKeepRoles ==
  ASSUME IInv, NEW r \in Requests, Continue(r), ~UpdateRoleWrites(r), NEW u \in Users,
         member[u].status = "ACTIVE", member'[u].status = "ACTIVE"
  PROVE  member'[u] = member[u]
<1>1. CASE RemoveWrites(r) \/ LeaveWrites(r)
  <2>1. PICK t : Leaves(t)
    BY <1>1 DEF RemoveWrites, LeaveWrites
  <2>2. member \in [Users -> [role : Roles, status : MembershipStatus]]
    BY DEF IInv, TypeOK
  <2> QED
    BY <2>1, <2>2 DEF Leaves
<1>2. CASE AcceptWrites(r)
  <2>1. request[r] # None /\ Entitled(request[r])
    BY <1>2 DEF IInv, RequestsAreEntitled, AcceptWrites, At
  <2>2. request[r].seen # "ACTIVE"
    BY <1>2, <2>1 DEF Entitled, AcceptWrites, At
  <2>3. member \in [Users -> [role : Roles, status : MembershipStatus]]
    BY DEF IInv, TypeOK
  <2> QED
    BY <1>2, <2>2, <2>3 DEF AcceptWrites
<1>3. CASE ~(RemoveWrites(r) \/ LeaveWrites(r) \/ AcceptWrites(r))
  BY <1>3 DEF Continue, UpdateRoleReads, RemoveReads, ArchiveWrites, InviteReads,
              InviteRenews, InviteCreates, InviteRenewsAgain, CancelWrites, AcceptReads,
              DeclineWrites, LazilyMarkExpired
<1> QED
  BY <1>1, <1>2, <1>3

LEMMA StartsOnlyRead ==
  ASSUME NEW r \in Requests, NEW u \in Users, Start(r, u)
  PROVE  UNCHANGED <<organization, member, invitation>>
BY DEF Start, StartLeave, StartArchive, StartRemove, StartUpdateRole, StartInvite,
       StartCancel, StartAccept, StartDecline

\* A member's role is changed by somebody else who outranked, when the guard let the
\* request pass, the role that is lost and the role that is won (RoleChangesAreRanked).
THEOREM RolesChangeByRank == Spec => RoleChangesAreRanked
<1>1. IInv /\ [Next]_vars => [RoleChange]_vars
  <2> SUFFICES ASSUME IInv, Next PROVE RoleChange
    OBVIOUS
  <2>1. ASSUME NEW r \in Requests, Continue(r) PROVE RoleChange
    <3>1. CASE UpdateRoleWrites(r)
      BY <3>1, UpdateRoleIsRanked
    <3>2. CASE ~UpdateRoleWrites(r)
      BY <2>1, <3>2, OthersKeepRoles DEF RoleChange
    <3> QED
      BY <3>1, <3>2
  <2>2. ASSUME NEW r \in Requests, NEW u \in Users, Start(r, u) PROVE RoleChange
    BY <2>2, StartsOnlyRead DEF RoleChange
  <2>3. ASSUME NEW i \in DOMAIN invitation, GrowsOld(i) PROVE RoleChange
    BY <2>3 DEF GrowsOld, RoleChange
  <2> QED
    BY <2>1, <2>2, <2>3 DEF Next
<1>2. RoleChangesAreRanked <=> [][RoleChange]_vars
  BY DEF RoleChangesAreRanked, RoleChange
<1> QED
  BY <1>1, <1>2, InvariantHolds, PTL DEF Spec

Admitted == {u \in Users : member[u].status # "ACTIVE" /\ member'[u].status = "ACTIVE"}

Used ==
  {i \in DOMAIN invitation : invitation'[i].status = "ACCEPTED"
                             /\ invitation[i].status # "ACCEPTED"}

Admission ==
  /\ Cardinality(Used) = Cardinality(Admitted)
  /\ {invitation[i].to : i \in Used} = Admitted
  /\ \A i \in DOMAIN invitation :
       invitation[i].status # "PENDING" => invitation'[i] = invitation[i]

\* A step that consumes no invitation admits nobody.
LEMMA NoAdmission ==
  ASSUME Used = {}, Admitted = {},
         \A i \in DOMAIN invitation :
           invitation[i].status # "PENDING" => invitation'[i] = invitation[i]
  PROVE  Admission
  BY DEF Admission

\* What ends, or renews, an open invitation leaves the others alone.
LEMMA OthersUseNothing ==
  ASSUME IInv, NEW r \in Requests, Continue(r), ~AcceptWrites(r)
  PROVE  Admission
<1>0. TypeOK /\ invitation \in [DOMAIN invitation -> Invitation]
  BY RowsAreNumbers DEF IInv
<1>1. Admitted = {}
  <2>1. member \in [Users -> [role : Roles, status : MembershipStatus]]
    BY <1>0 DEF TypeOK
  <2>2. CASE UpdateRoleWrites(r)
    BY <2>1, <2>2 DEF UpdateRoleWrites, Admitted
  <2>3. CASE RemoveWrites(r) \/ LeaveWrites(r)
    <3>1. PICK t : Leaves(t)
      BY <2>3 DEF RemoveWrites, LeaveWrites
    <3> QED
      BY <2>1, <3>1 DEF Leaves, Admitted
  <2>4. CASE UNCHANGED member
    BY <2>4 DEF Admitted
  <2> QED
    BY <2>2, <2>3, <2>4
    DEF Continue, UpdateRoleReads, RemoveReads, ArchiveWrites, InviteReads, InviteRenews,
        InviteCreates, InviteRenewsAgain, CancelWrites, AcceptReads, DeclineWrites,
        LazilyMarkExpired
<1>2. \A i \in DOMAIN invitation :
        /\ invitation[i].status # "PENDING" => invitation'[i] = invitation[i]
        /\ invitation[i].status = "PENDING" => invitation'[i].status # "ACCEPTED"
  <2>1. CASE \E status \in {"DECLINED", "CANCELLED", "EXPIRED"} :
               EndPending(request[r].row, status)
    BY <1>0, <2>1 DEF EndPending
  <2>2. CASE Renew(request[r])
    BY <1>0, <2>2 DEF Renew, PendingFor, Invitation
  <2>3. CASE UNCHANGED invitation
    BY <2>3
  <2>4. CASE InviteCreates(r)
    <3>1. CASE UNCHANGED invitation
      BY <3>1
    <3>2. CASE ~UNCHANGED invitation
      <4>1. PICK new : invitation' = Append(invitation, new)
        BY <2>4, <3>2 DEF InviteCreates
      <4>2. invitation \in Seq(Invitation) /\ DOMAIN invitation = 1 .. Len(invitation)
        BY <1>0, RowsAreNumbers DEF TypeOK
      <4> QED
        BY <4>1, <4>2
    <3> QED
      BY <3>1, <3>2
  <2> QED
    BY <2>1, <2>2, <2>3, <2>4
    DEF Continue, UpdateRoleReads, UpdateRoleWrites, RemoveReads, RemoveWrites, LeaveWrites,
        ArchiveWrites, InviteReads, InviteRenews, InviteRenewsAgain, CancelWrites,
        AcceptReads, AcceptWrites, DeclineWrites, LazilyMarkExpired
<1>3. Used = {}
  BY <1>2 DEF Used
<1> QED
  BY <1>1, <1>2, <1>3, NoAdmission

\* An acceptance that is not rolled back uses one invitation, of whom it admits.
LEMMA AcceptUsesOne ==
  ASSUME IInv, NEW r \in Requests, AcceptWrites(r)
  PROVE  Admission
<1> DEFINE q == request[r]
<1>0. /\ TypeOK /\ q \in Request /\ Entitled(q) /\ q.op = "accept" /\ q.at = "write"
      /\ invitation \in [DOMAIN invitation -> Invitation]
  BY RowsAreNumbers DEF IInv, TypeOK, RequestsAreEntitled, AcceptWrites, At
<1>1. /\ q.by \in Users /\ q.row \in DOMAIN invitation /\ q.seen # "ACTIVE"
      /\ invitation[q.row].to = q.by
  BY <1>0 DEF Request, Entitled
<1>2. CASE Consumable(q.row) /\ member[q.by].status = q.seen
  <2>1. /\ invitation' = [invitation EXCEPT ![q.row].status = "ACCEPTED"]
        /\ member' = [member EXCEPT ![q.by] = [role |-> q.wanted, status |-> "ACTIVE"]]
        /\ invitation[q.row].status = "PENDING"
    BY <1>2 DEF AcceptWrites, Consumable
  <2>2. Used = {q.row}
    BY <1>0, <1>1, <2>1 DEF Used, Invitation
  <2>3. Admitted = {q.by}
    BY <1>0, <1>1, <1>2, <2>1 DEF Admitted, TypeOK
  <2>4. \A i \in DOMAIN invitation :
          invitation[i].status # "PENDING" => invitation'[i] = invitation[i]
    BY <1>0, <1>1, <2>1
  <2>5. Cardinality({q.row}) = 1 /\ Cardinality({q.by}) = 1
    BY FS_Singleton
  <2> QED
    BY <1>1, <2>2, <2>3, <2>4, <2>5 DEF Admission
<1>3. CASE ~(Consumable(q.row) /\ member[q.by].status = q.seen)
  <2>1. UNCHANGED <<invitation, member>>
    BY <1>3 DEF AcceptWrites
  <2> QED
    BY <2>1, NoAdmission DEF Used, Admitted
<1> QED
  BY <1>2, <1>3

\* Each admission uses up one invitation, that was still PENDING, of the user admitted,
\* and what is not PENDING never changes again, however acceptances, cancellations,
\* refusals, renewals and expiries interleave (InvitationsAreUsedOnce).
THEOREM AdmissionsUseInvitations == Spec => InvitationsAreUsedOnce
<1>1. IInv /\ [Next]_vars => [Admission]_vars
  <2> SUFFICES ASSUME IInv, Next PROVE Admission
    OBVIOUS
  <2>1. ASSUME NEW r \in Requests, Continue(r) PROVE Admission
    BY <2>1, AcceptUsesOne, OthersUseNothing
  <2>2. ASSUME NEW r \in Requests, NEW u \in Users, Start(r, u) PROVE Admission
    BY <2>2, StartsOnlyRead, NoAdmission DEF Used, Admitted
  <2>3. ASSUME NEW i \in DOMAIN invitation, GrowsOld(i) PROVE Admission
    <3>1. invitation \in [DOMAIN invitation -> Invitation]
      BY RowsAreNumbers DEF IInv
    <3>2. Used = {} /\ Admitted = {}
      BY <2>3, <3>1 DEF GrowsOld, Used, Admitted, Invitation
    <3>3. \A j \in DOMAIN invitation :
            invitation[j].status # "PENDING" => invitation'[j] = invitation[j]
      BY <2>3, <3>1 DEF GrowsOld
    <3> QED
      BY <3>2, <3>3, NoAdmission
  <2> QED
    BY <2>1, <2>2, <2>3 DEF Next
<1>2. InvitationsAreUsedOnce <=> [][Admission]_vars
  BY DEF InvitationsAreUsedOnce, Admission, Used, Admitted
<1> QED
  BY <1>1, <1>2, InvariantHolds, PTL DEF Spec
=============================================================================
