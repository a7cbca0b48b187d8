-------------------------------- MODULE Gateway --------------------------------
(***************************************************************************)
(* The room of an organization on the socket server (apps/api/realtime)    *)
(* and the sockets of one user in it (apps/web/lib/socket).  A socket is   *)
(* admitted on a membership that the gateway looks up, and a member who is *)
(* removed is evicted after the removal has been committed.                *)
(***************************************************************************)
EXTENDS Naturals

CONSTANTS Sockets,    \* the connections of the user: tabs, devices
          MaxLapses   \* bound: look-ups and evictions that fail

ASSUME GatewayAssumption == MaxLapses \in Nat

VARIABLES access,     \* what the membership and its organization allow
          evicting,   \* a removal is committed, its eviction still to come
          socket,     \* socket[s]: how far the connection has come
          lapses      \* look-ups and evictions that have failed

gatewayVars == <<access, evicting, socket, lapses>>

\* DEAF: connected, but refused or never answered; subscribe is not sent again.
\* CLOSED: the page is gone.
SocketStates == {"CLOSED", "DOWN", "CONNECTED", "CHECKED", "JOINED", "DEAF"}

Access == {"MEMBER", "LEFT", "ARCHIVED"}

GatewayInit ==
  /\ access = "MEMBER"
  /\ evicting = FALSE
  /\ socket = [s \in Sockets |-> "DOWN"]
  /\ lapses = 0

Becomes(s, state) == socket' = [socket EXCEPT ![s] = state]

\* The token of the handshake is verified and the timer of its expiry set.  A refused
\* handshake leaves the socket down.
Connect(s) ==
  /\ socket[s] = "DOWN"
  /\ Becomes(s, "CONNECTED")
  /\ UNCHANGED <<access, evicting, lapses>>

\* onSubscribeOrganization looks up the membership.
Check(s) ==
  /\ socket[s] = "CONNECTED"
  /\ Becomes(s, IF access = "MEMBER" THEN "CHECKED" ELSE "DEAF")
  /\ UNCHANGED <<access, evicting, lapses>>

\* The look-up throws: the client gets no acknowledgement.
CheckFails(s) ==
  /\ socket[s] = "CONNECTED" /\ lapses < MaxLapses
  /\ Becomes(s, "DEAF")
  /\ lapses' = lapses + 1
  /\ UNCHANGED <<access, evicting>>

Join(s) ==
  /\ socket[s] = "CHECKED"
  /\ Becomes(s, "JOINED")
  /\ UNCHANGED <<access, evicting, lapses>>

\* Mutant: only the sockets outside the room are timed.
ExpireOutside(s) ==
  /\ socket[s] \notin {"CLOSED", "DOWN", "JOINED"}
  /\ Becomes(s, "DOWN")
  /\ UNCHANGED <<access, evicting, lapses>>

\* expiryTimer: the server disconnects the socket when its token expires.
Expire(s) ==
  /\ socket[s] \notin {"CLOSED", "DOWN"}
  /\ Becomes(s, "DOWN")
  /\ UNCHANGED <<access, evicting, lapses>>

\* handleDisconnect, when the user signs out or closes the page.
Close(s) ==
  /\ Becomes(s, "CLOSED")
  /\ UNCHANGED <<access, evicting, lapses>>

\* MembershipsService.remove or leave commits.
Remove ==
  /\ access = "MEMBER"
  /\ access' = "LEFT"
  /\ evicting' = TRUE
  /\ UNCHANGED <<socket, lapses>>

\* The organization is archived for good; nobody is evicted.
Archive ==
  /\ access # "ARCHIVED"
  /\ access' = "ARCHIVED"
  /\ UNCHANGED <<evicting, socket, lapses>>

\* evictUserFromOrganization: socketsLeave on every socket of the room of the user.
Evict ==
  /\ evicting
  /\ evicting' = FALSE
  /\ socket' = [s \in Sockets |-> IF socket[s] = "JOINED" THEN "DEAF" ELSE socket[s]]
  /\ UNCHANGED <<access, lapses>>

\* The API dies before the eviction, or Redis refuses it: the error is only logged.
EvictionFails ==
  /\ evicting /\ lapses < MaxLapses
  /\ evicting' = FALSE
  /\ lapses' = lapses + 1
  /\ UNCHANGED <<access, socket>>

\* The user accepts a new invitation.
Return ==
  /\ access = "LEFT"
  /\ access' = "MEMBER"
  /\ UNCHANGED <<evicting, socket, lapses>>

SocketSteps(s) == Connect(s) \/ Check(s) \/ CheckFails(s) \/ Join(s) \/ Expire(s) \/ Close(s)

GatewayNext ==
  \/ \E s \in Sockets : SocketSteps(s)
  \/ Remove \/ Archive \/ Evict \/ EvictionFails \/ Return

\* The client connects again while it has a token (socket.io by itself, the provider
\* after a disconnection by the server); the timer fires; a token outlives a subscription
\* by a quarter of an hour, so that the timer does not cut off every one of them.
GatewayFairness ==
  /\ \A s \in Sockets :
       /\ WF_gatewayVars(Connect(s)) /\ SF_gatewayVars(Check(s))
       /\ SF_gatewayVars(Join(s)) /\ WF_gatewayVars(Expire(s))
  /\ WF_gatewayVars(Evict)

GatewaySpec == GatewayInit /\ [][GatewayNext]_gatewayVars /\ GatewayFairness

-----------------------------------------------------------------------------

GatewayTypeOK ==
  /\ access \in Access /\ evicting \in BOOLEAN
  /\ socket \in [Sockets -> SocketStates]
  /\ lapses \in 0 .. MaxLapses

\* Who has lost access for good is out of the room for good, even one whose membership
\* was looked up before the removal and who joined after the eviction, whose eviction
\* failed, or whose organization was archived; who is a member for good is let in again
\* after any refusal, while the page is open: the timer of the token ends the connections
\* that neither the eviction nor the client mends (RealtimeGateway).
RoomFollowsMembership ==
  \A s \in Sockets :
    /\ <>[](access # "MEMBER") => <>[](socket[s] # "JOINED")
    /\ <>[](access = "MEMBER") =>
         []<>(socket[s] = "JOINED") \/ <>(socket[s] = "CLOSED")
=============================================================================
