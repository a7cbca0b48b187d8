------------------------------- MODULE Channels -------------------------------
(***************************************************************************)
(* The WhatsApp channel of a shop (WhatsAppChannelsService), the Meta      *)
(* connection and token behind it, Meta's callbacks (MetaAppCallbacks-     *)
(* Service) and the worker that picks a connection to send a message       *)
(* (WhatsAppProviderFactory), next to the requests of Shops.               *)
(*                                                                         *)
(* META_MULTI_TENANT_ENABLED holds.  A connection and its credential are   *)
(* written together and are one record here; a connection is known by its  *)
(* position, and so is a channel.  No code writes the statuses CONNECTING, *)
(* SUSPENDED and ERROR.  Graph calls only take time, or fail.              *)
(***************************************************************************)
EXTENDS Shops

CONSTANTS Connectable,    \* shops that ask for channels
          FacebookUsers,  \* who authorizes the application
          MaxConnections, \* onboardings
          MaxChannels     \* channels

ASSUME ChannelsAssumption ==
  /\ Connectable \subseteq 1..MaxShops
  /\ MaxConnections \in Nat
  /\ MaxChannels \in Nat

VARIABLES connection,  \* connection[k]: [of, by, status, token]
          channel      \* channel[c]: [of, provider, status, connection], 0 for none

vars == <<shop, request, connection, channel>>

Init == ShopsInit /\ connection = <<>> /\ channel = <<>>

LiveConnections(s) ==
  {k \in DOMAIN connection : connection[k].of = s /\ connection[k].status = "CONNECTED"}

ActiveChannels(s) ==
  {c \in DOMAIN channel : channel[c].of = s /\ channel[c].status = "CONNECTED"}

Channel(s, provider, k) ==
  [of |-> s, provider |-> provider, status |-> "CONNECTED", connection |-> k]

\* Connections K are closed and their tokens revoked.
TornDown(K) ==
  [k \in DOMAIN connection |->
     IF k \in K THEN [connection[k] EXCEPT !.status = "DISCONNECTED", !.token = "REVOKED"]
     ELSE connection[k]]

\* Channels C are closed.
Closed(C) ==
  [c \in DOMAIN channel |->
     IF c \in C THEN [channel[c] EXCEPT !.status = "DISCONNECTED"] ELSE channel[c]]

-----------------------------------------------------------------------------
(* connectMock, and connectMeta for the pilot number of the environment.   *)

StartConnect(r, s, provider) ==
  /\ shop[s].status # "ARCHIVED"
  /\ Starts(r, [None EXCEPT !.op = "connect", !.at = "read", !.on = s, !.seen = provider])
  /\ UNCHANGED <<shop, connection, channel>>

ConnectReads(r) ==
  /\ At(r, "connect", "read")
  /\ IF ActiveChannels(request[r].on) # {}
     THEN Ends(r) ELSE request' = [request EXCEPT ![r].at = "write"]
  /\ UNCHANGED <<shop, connection, channel>>

\* The partial unique index whatsapp_channels_one_active_per_shop.
ChannelAllowed(s) == ActiveChannels(s) = {}

ConnectWrites(r) ==
  /\ At(r, "connect", "write")
  /\ LET s == request[r].on IN
     IF ChannelAllowed(s)
     THEN /\ Len(channel) < MaxChannels
          /\ channel' = Append(channel, Channel(s, request[r].seen, 0))
     ELSE UNCHANGED channel
  /\ Ends(r)
  /\ UNCHANGED <<shop, connection>>

-----------------------------------------------------------------------------
(* onboard: Embedded Signup.                                               *)

\* The shop is read, and Graph is called on behalf of Facebook user u.
StartOnboard(r, s, u) ==
  /\ shop[s].status # "ARCHIVED"
  /\ Starts(r, [None EXCEPT !.op = "onboard", !.at = "read", !.on = s, !.seen = u])
  /\ UNCHANGED <<shop, connection, channel>>

\* teardownActiveConnections reads the connections to replace.
OnboardReads(r) ==
  /\ At(r, "onboard", "read")
  /\ request' = [request EXCEPT ![r].at = "write", ![r].these = LiveConnections(request[r].on)]
  /\ UNCHANGED <<shop, connection, channel>>

\* The partial unique index whatsapp_connections_one_active_per_shop.  Mutant: none.
ConnectionWelcome(s, closing) == TRUE
ConnectionAllowed(s, closing) == LiveConnections(s) \subseteq closing

\* The old connection and channel make room for the new ones, unless the index refuses.
OnboardWrites(r) ==
  /\ At(r, "onboard", "write")
  /\ LET q == request[r] IN
     IF ConnectionAllowed(q.on, q.these)
     THEN /\ Len(connection) < MaxConnections /\ Len(channel) < MaxChannels
          /\ connection' = Append(TornDown(q.these),
               [of |-> q.on, by |-> q.seen, status |-> "CONNECTED", token |-> "ACTIVE"])
          /\ channel' = Append(Closed(ActiveChannels(q.on)),
                               Channel(q.on, "META_CLOUD", Len(connection) + 1))
     ELSE UNCHANGED <<connection, channel>>
  /\ Ends(r)
  /\ UNCHANGED shop

-----------------------------------------------------------------------------
(* disconnect, for the merchant.                                           *)

StartDisconnect(r, s) ==
  /\ \E c \in ActiveChannels(s) :
       Starts(r, [None EXCEPT !.op = "disconnect", !.at = "write", !.on = s, !.next = c])
  /\ UNCHANGED <<shop, connection, channel>>

\* Nothing is done if the channel is closed by now.
DisconnectWrites(r) ==
  /\ At(r, "disconnect", "write")
  /\ LET q == request[r] IN
     IF channel[q.next].status = "CONNECTED"
     THEN /\ channel' = Closed({q.next})
          /\ connection' = TornDown(LiveConnections(q.on))
     ELSE UNCHANGED <<connection, channel>>
  /\ Ends(r)
  /\ UNCHANGED shop

-----------------------------------------------------------------------------
(* Deauthorization and data deletion, for a Facebook user.                 *)

\* teardownByFacebookUser reads the tokens of the user that are ACTIVE, and their
\* connections.
TokensOf(u) == {k \in DOMAIN connection : connection[k].by = u /\ connection[k].token = "ACTIVE"}

StartDeauthorize(r, u) ==
  /\ TokensOf(u) # {}
  /\ Starts(r, [None EXCEPT !.op = "deauthorize", !.at = "write", !.these = TokensOf(u)])
  /\ UNCHANGED <<shop, connection, channel>>

\* They are torn down, and with them the Meta channels that their shops have by now.
DeauthorizeWrites(r) ==
  /\ At(r, "deauthorize", "write")
  /\ LET K == request[r].these
         shops == {connection[k].of : k \in K}
     IN  /\ connection' = TornDown(K)
         /\ channel' = Closed({c \in UNION {ActiveChannels(s) : s \in shops} :
                                 channel[c].provider = "META_CLOUD"})
  /\ Ends(r)
  /\ UNCHANGED shop

-----------------------------------------------------------------------------
(* The worker sends a message.                                             *)

\* The job reads the message and its channel, which must be CONNECTED ...
StartSend(r, c) ==
  /\ channel[c].status = "CONNECTED"
  /\ channel[c].provider = "META_CLOUD"
  /\ Starts(r, [None EXCEPT !.op = "send", !.at = "resolve", !.on = c])
  /\ UNCHANGED <<shop, connection, channel>>

\* ... then resolves the connection of the shop, or fails ...
SendResolves(r) ==
  /\ At(r, "send", "resolve")
  /\ LET usable == {k \in LiveConnections(channel[request[r].on].of) :
                      connection[k].token = "ACTIVE"}
     IN  IF usable = {} THEN Ends(r)
         ELSE \E k \in usable : request' = [request EXCEPT ![r].at = "call", ![r].next = k]
  /\ UNCHANGED <<shop, connection, channel>>

\* ... and calls Graph with its token and number.
SendCalls(r) ==
  /\ At(r, "send", "call")
  /\ Ends(r)
  /\ UNCHANGED <<shop, connection, channel>>

-----------------------------------------------------------------------------
ChannelSteps(r) ==
  \/ \E s \in Connectable \cap DOMAIN shop :
       \/ \E provider \in {"MOCK", "META_CLOUD"} : StartConnect(r, s, provider)
       \/ \E u \in FacebookUsers : StartOnboard(r, s, u)
       \/ StartDisconnect(r, s)
  \/ ConnectReads(r) \/ ConnectWrites(r)
  \/ OnboardReads(r) \/ OnboardWrites(r)
  \/ DisconnectWrites(r)
  \/ \E u \in FacebookUsers : StartDeauthorize(r, u)
  \/ DeauthorizeWrites(r)
  \/ \E c \in DOMAIN channel : StartSend(r, c)
  \/ SendResolves(r) \/ SendCalls(r)

ShopStep(r) == (ShopSteps(r) \/ Fails(r)) /\ UNCHANGED <<connection, channel>>

Next == \E r \in Requests : ShopStep(r) \/ ChannelSteps(r)

Spec == Init /\ [][Next]_vars

-----------------------------------------------------------------------------
(* Properties.                                                             *)

TypeOK ==
  /\ shop \in Seq([status : {"DRAFT", "ACTIVE", "INACTIVE", "ARCHIVED"}, primary : BOOLEAN])
  /\ \A k \in DOMAIN connection :
       /\ connection[k].of \in DOMAIN shop
       /\ connection[k].status \in {"CONNECTED", "DISCONNECTED"}
       /\ connection[k].token \in {"ACTIVE", "REVOKED"}
  /\ \A c \in DOMAIN channel :
       /\ channel[c].of \in DOMAIN shop
       /\ channel[c].provider \in {"MOCK", "META_CLOUD"}
       /\ channel[c].status \in {"CONNECTED", "DISCONNECTED"}
       /\ channel[c].connection \in 0..Len(connection)

OnePrimary == Cardinality(Primary) <= 1

OneLiveToken ==
  /\ \A k \in DOMAIN connection :
       connection[k].token = "ACTIVE" <=> connection[k].status = "CONNECTED"
  /\ \A s \in DOMAIN shop : Cardinality(LiveConnections(s)) <= 1

\* Whatever requests create, promote and archive at the same time, an organization has
\* one primary shop at most (shops_one_primary_per_org, ShopsService); whoever onboards,
\* disconnects or withdraws the application at the same time, a shop has one usable
\* token at most, the one of its live connection ("jamais deux credentials vivants",
\* onboard); and every value has its type.
StorefrontIsSound == TypeOK /\ OnePrimary /\ OneLiveToken

\* What a request has read of the primary shop and of its successor is no longer so.
IsStale(q) ==
  \/ q.op = "create" /\ q.primary # (Primary = {})
  \/ /\ q.op = "archive"
     /\ \/ q.primary # shop[q.on].primary
        \/ q.next # IF q.primary THEN Candidate(q.on) ELSE 0

\* An organization that has live shops keeps a primary one: neither a transaction that
\* fails halfway nor an archive of the primary shop leaves it without, unless what the
\* request had read was out of date when it wrote (setPrimary, archive).
PrimaryIsHandedOver ==
  [][(Live # {} => Primary # {}) /\ Live' # {} /\ Primary' = {}
       => \E r \in Requests : request'[r] = None /\ IsStale(request[r])]_vars

\* A message of a channel that an onboarding made goes out by the connection of that
\* onboarding, although the worker looks for the connection of the shop; by another one
\* only if the channel was closed after the job had read it (outbound.processor,
\* resolveTenantMetaProvider).
SendsUseTheirConnection ==
  \A r \in Requests :
    LET q == request[r] IN
    At(r, "send", "call") =>
      \/ channel[q.on].connection \in {0, q.next}
      \/ channel[q.on].status = "DISCONNECTED"
=============================================================================
