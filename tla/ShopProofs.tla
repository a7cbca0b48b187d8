------------------------------- MODULE ShopProofs ------------------------------
(***************************************************************************)
(* Proofs about Channels and Shops, for any requests in flight, any        *)
(* Facebook users and any number of shops, connections and channels.  That *)
(* one connection of a shop is live at most is not inductive: the channels *)
(* that stand on a connection, and what requests have read of shops,       *)
(* connections and channels, must be spoken of too.  And proofs about      *)
(* Thread: what the page of an agent shows of a message, step by step.     *)
(***************************************************************************)
EXTENDS Channels, Thread, TLAPS, FiniteSetTheorems, SequenceTheorems, WellFoundedInduction

-----------------------------------------------------------------------------
(* The inductive invariant.                                                *)

ShopStatus == {"DRAFT", "ACTIVE", "INACTIVE", "ARCHIVED"}
Providers == {"MOCK", "META_CLOUD"}
LinkStatus == {"CONNECTED", "DISCONNECTED"}

ShopRow == [status : ShopStatus, primary : BOOLEAN]

ConnectionRow ==
  [of : Nat, by : FacebookUsers, status : LinkStatus, token : {"ACTIVE", "REVOKED"}]

ChannelRow == [of : Nat, provider : Providers, status : LinkStatus, connection : Nat]

OnShops == {"ACTIVE", "INACTIVE", "setPrimary", "archive", "connect", "onboard", "disconnect"}

Request ==
  [op : {"none", "create", "deauthorize", "send"} \cup OnShops,
   at : {"none", "read", "write", "promote", "resolve", "call"}, on : Nat,
   seen : {"none"} \cup ShopStatus \cup Providers \cup FacebookUsers,
   primary : BOOLEAN, next : Nat, these : SUBSET Nat]

Typed ==
  /\ shop \in Seq(ShopRow) /\ connection \in Seq(ConnectionRow) /\ channel \in Seq(ChannelRow)
  /\ request \in [Requests -> Request]

RowsExist ==
  /\ \A k \in DOMAIN connection : connection[k].of \in DOMAIN shop
  /\ \A c \in DOMAIN channel :
       channel[c].of \in DOMAIN shop /\ channel[c].connection \in 0 .. Len(connection)

UniquePrimary == \A s, t \in Primary : s = t

TokensFollow ==
  \A k \in DOMAIN connection :
    connection[k].token = "ACTIVE" <=> connection[k].status = "CONNECTED"

UniqueConnection == \A s \in DOMAIN shop : \A j, k \in LiveConnections(s) : j = k

UniqueChannel == \A s \in DOMAIN shop : \A c, d \in ActiveChannels(s) : c = d

\* A channel that an onboarding made is open only while its connection is.
ChannelsAreBacked ==
  \A c \in DOMAIN channel :
    channel[c].status = "CONNECTED" /\ channel[c].connection # 0 =>
      /\ channel[c].provider = "META_CLOUD"
      /\ channel[c].connection \in DOMAIN connection
      /\ connection[channel[c].connection].of = channel[c].of
      /\ connection[channel[c].connection].status = "CONNECTED"

\* What a request has read that can no longer change.
InFlight(q) ==
  /\ q.op \in OnShops => q.on \in DOMAIN shop
  /\ q.op \in {"ACTIVE", "INACTIVE"} => q.seen # "ARCHIVED"
  /\ q.op = "connect" => q.seen \in Providers
  /\ q.op = "onboard" =>
       q.seen \in FacebookUsers
       /\ \A k \in q.these : k \in DOMAIN connection /\ connection[k].of = q.on
  /\ q.op = "disconnect" => q.next \in DOMAIN channel /\ channel[q.next].of = q.on
  /\ q.op = "deauthorize" => q.these \subseteq DOMAIN connection
  /\ q.op = "send" => q.on \in DOMAIN channel
  /\ q.op = "send" /\ q.at = "call" =>
       \/ channel[q.on].connection \in {0, q.next}
       \/ channel[q.on].status = "DISCONNECTED"

ReadsHold == \A r \in Requests : InFlight(request[r])

IInv ==
  /\ Typed /\ RowsExist /\ UniquePrimary
  /\ TokensFollow /\ UniqueConnection /\ UniqueChannel /\ ChannelsAreBacked
  /\ ReadsHold

-----------------------------------------------------------------------------
(* Lemmas on sequences and sets.                                           *)

\* A sequence whose elements are replaced in place stays a sequence.
LEMMA ReplacedInPlace ==
  ASSUME NEW S, NEW s \in Seq(S), NEW f \in [DOMAIN s -> S]
  PROVE  f \in Seq(S) /\ Len(f) = Len(s) /\ DOMAIN f = DOMAIN s
<1>1. Len(s) \in Nat /\ DOMAIN s = 1 .. Len(s)
  BY LenProperties
<1>2. f \in Seq(S)
  BY <1>1, SeqDef
<1>3. DOMAIN f = 1 .. Len(f) /\ Len(f) \in Nat
  BY <1>2, LenProperties
<1> QED
  BY <1>1, <1>2, <1>3

\* An element that is appended comes last, and the others stay where they are.
LEMMA Appended ==
  ASSUME NEW S, NEW s \in Seq(S), NEW e \in S
  PROVE  /\ Append(s, e) \in Seq(S)
         /\ DOMAIN Append(s, e) = DOMAIN s \cup {Len(s) + 1}
         /\ Len(s) \in Nat /\ DOMAIN s = 1 .. Len(s) /\ Len(s) + 1 \notin DOMAIN s
         /\ Len(Append(s, e)) = Len(s) + 1
         /\ \A i \in DOMAIN s : Append(s, e)[i] = s[i]
         /\ Append(s, e)[Len(s) + 1] = e
<1>1. /\ Len(s) \in Nat /\ DOMAIN s = 1 .. Len(s)
      /\ \A i \in 1 .. Len(s) : s[i] \in S
  BY LenProperties, ElementOfSeq
<1>2. /\ Append(s, e) \in Seq(S) /\ Len(Append(s, e)) = Len(s) + 1
      /\ \A i \in 1 .. Len(s) : Append(s, e)[i] = s[i]
      /\ Append(s, e)[Len(s) + 1] = e
  BY AppendProperties
<1>3. DOMAIN Append(s, e) = 1 .. Len(s) + 1
  BY <1>2, LenProperties
<1> QED
  BY <1>1, <1>2, <1>3

\* A finite set has one element at most if and only if all its elements are equal.
LEMMA AtMostOne ==
  ASSUME NEW S, IsFiniteSet(S)
  PROVE  Cardinality(S) <= 1 <=> \A x, y \in S : x = y
<1>1. ASSUME \A x, y \in S : x = y
      PROVE  Cardinality(S) <= 1
  <2>1. CASE S = {}
    BY <2>1, FS_EmptySet
  <2>2. CASE S # {}
    <3>1. PICK x \in S : TRUE
      BY <2>2
    <3>2. S = {x}
      BY <3>1, <1>1
    <3> QED
      BY <3>2, FS_Singleton
  <2> QED
    BY <2>1, <2>2
<1>2. ASSUME Cardinality(S) <= 1, NEW x \in S, NEW y \in S, x # y
      PROVE  FALSE
  <2>1. IsFiniteSet({x, y}) /\ Cardinality({x, y}) = 2
    <3>1. {x, y} = {x} \cup {y} /\ y \notin {x}
      BY <1>2
    <3>2. IsFiniteSet({x}) /\ Cardinality({x}) = 1
      BY FS_Singleton
    <3> QED
      BY <3>1, <3>2, FS_AddElement
  <2>2. Cardinality({x, y}) <= Cardinality(S)
    BY FS_Subset
  <2>3. Cardinality(S) \in Nat
    BY FS_CardinalityType
  <2> QED
    BY <2>1, <2>2, <2>3, <1>2
<1> QED
  BY <1>1, <1>2

\* The oldest of some shops is one of them.
LEMMA OldestExists ==
  ASSUME NEW S \in SUBSET Nat, S # {}
  PROVE  (CHOOSE t \in S : \A u \in S : t <= u) \in S
<1>1. PICK t \in S : \A u \in S : ~(<<u, t>> \in OpToRel(<, Nat))
  <2> HIDE DEF OpToRel
  <2> QED
    BY NatLessThanWellFounded, WFMin
<1>2. \A u \in S : ~(u < t)
  BY <1>1 DEF OpToRel
<1>3. \A u \in S : t <= u
  BY <1>2
<1> QED
  BY <1>3

\* Shops, connections and channels are numbered from 1.
LEMMA RowsAreNumbers ==
  ASSUME Typed
  PROVE  /\ DOMAIN shop = 1 .. Len(shop) /\ Len(shop) \in Nat
         /\ DOMAIN connection = 1 .. Len(connection) /\ Len(connection) \in Nat
         /\ DOMAIN channel = 1 .. Len(channel) /\ Len(channel) \in Nat
         /\ \A s \in DOMAIN shop : shop[s] \in ShopRow
         /\ \A k \in DOMAIN connection : connection[k] \in ConnectionRow
         /\ \A c \in DOMAIN channel : channel[c] \in ChannelRow
         /\ IsFiniteSet(DOMAIN shop) /\ IsFiniteSet(DOMAIN connection)
<1>1. /\ DOMAIN shop = 1 .. Len(shop) /\ Len(shop) \in Nat
      /\ DOMAIN connection = 1 .. Len(connection) /\ Len(connection) \in Nat
      /\ DOMAIN channel = 1 .. Len(channel) /\ Len(channel) \in Nat
  BY LenProperties DEF Typed
<1>2. /\ \A s \in DOMAIN shop : shop[s] \in ShopRow
      /\ \A k \in DOMAIN connection : connection[k] \in ConnectionRow
      /\ \A c \in DOMAIN channel : channel[c] \in ChannelRow
  BY <1>1, ElementOfSeq DEF Typed
<1>3. IsFiniteSet(1 .. Len(shop)) /\ IsFiniteSet(1 .. Len(connection))
  BY <1>1, FS_Interval
<1> QED
  BY <1>1, <1>2, <1>3

\* The index lets a set of shops through if and only if they are one shop at most.
LEMMA IndexMeansOne ==
  ASSUME Typed, NEW S, S \subseteq 1 .. Len(shop) + 1
  PROVE  IndexAllows(S) <=> \A s, t \in S : s = t
<1>1. Len(shop) + 1 \in Int
  BY RowsAreNumbers
<1>2. IsFiniteSet(1 .. Len(shop) + 1)
  BY <1>1, FS_Interval
<1>3. IsFiniteSet(S)
  BY <1>2, FS_Subset
<1> QED
  BY <1>3, AtMostOne DEF IndexAllows

LEMMA TearingDown ==
  ASSUME Typed, NEW K
  PROVE  /\ TornDown(K) \in Seq(ConnectionRow)
         /\ DOMAIN TornDown(K) = DOMAIN connection /\ Len(TornDown(K)) = Len(connection)
         /\ \A k \in DOMAIN connection :
              /\ TornDown(K)[k].of = connection[k].of
              /\ k \in K => TornDown(K)[k].status = "DISCONNECTED" /\ TornDown(K)[k].token = "REVOKED"
              /\ k \notin K => TornDown(K)[k] = connection[k]
<1>1. \A k \in DOMAIN connection : connection[k] \in ConnectionRow
  BY RowsAreNumbers
<1>2. /\ DOMAIN TornDown(K) = DOMAIN connection
      /\ \A k \in DOMAIN connection :
           TornDown(K)[k] =
             IF k \in K THEN [connection[k] EXCEPT !.status = "DISCONNECTED", !.token = "REVOKED"]
             ELSE connection[k]
  BY DEF TornDown
<1>3. TornDown(K) \in [DOMAIN connection -> ConnectionRow]
  BY <1>1 DEF TornDown, ConnectionRow, LinkStatus
<1>4. TornDown(K) \in Seq(ConnectionRow) /\ Len(TornDown(K)) = Len(connection)
  BY <1>3, ReplacedInPlace DEF Typed
<1> QED
  BY <1>1, <1>2, <1>4 DEF ConnectionRow

LEMMA Closing ==
  ASSUME Typed, NEW C
  PROVE  /\ Closed(C) \in Seq(ChannelRow)
         /\ DOMAIN Closed(C) = DOMAIN channel
         /\ \A c \in DOMAIN channel :
              /\ Closed(C)[c].of = channel[c].of
              /\ Closed(C)[c].connection = channel[c].connection
              /\ Closed(C)[c].provider = channel[c].provider
              /\ c \in C => Closed(C)[c].status = "DISCONNECTED"
              /\ c \notin C => Closed(C)[c] = channel[c]
<1>1. \A c \in DOMAIN channel : channel[c] \in ChannelRow
  BY RowsAreNumbers
<1>2. /\ DOMAIN Closed(C) = DOMAIN channel
      /\ \A c \in DOMAIN channel :
           Closed(C)[c] =
             IF c \in C THEN [channel[c] EXCEPT !.status = "DISCONNECTED"] ELSE channel[c]
  BY DEF Closed
<1>3. Closed(C) \in [DOMAIN channel -> ChannelRow]
  BY <1>1 DEF Closed, ChannelRow, LinkStatus
<1>4. Closed(C) \in Seq(ChannelRow)
  BY <1>3, ReplacedInPlace DEF Typed
<1> QED
  BY <1>1, <1>2, <1>4 DEF ChannelRow

-----------------------------------------------------------------------------
(* What a step does to the requests.                                       *)

Requesting == request' \in [Requests -> Request]

\* Request r is the only one that moves.
Alone(r) == \A s \in Requests \ {r} : request'[s] = request[s]

LEMMA StartsOne ==
  ASSUME Typed, NEW r \in Requests, NEW q \in Request, Starts(r, q)
  PROVE  Requesting /\ Alone(r) /\ request'[r] = q
  BY DEF Typed, Starts, Requesting, Alone

LEMMA EndsOne ==
  ASSUME Typed, NEW r \in Requests, Ends(r)
  PROVE  Requesting /\ Alone(r) /\ request'[r] = None /\ InFlight(request[r])'
<1>1. None \in Request
  BY DEF None, Request
<1>2. Requesting /\ Alone(r) /\ request'[r] = None
  BY <1>1 DEF Typed, Ends, Requesting, Alone
<1>3. InFlight(None)'
  BY DEF InFlight, None, OnShops
<1> QED
  BY <1>2, <1>3

\* Rows are not deleted, belong to the same shop for ever, and a channel that is closed
\* stays so.
RowsStay ==
  /\ DOMAIN shop \subseteq DOMAIN shop'
  /\ DOMAIN connection \subseteq DOMAIN connection'
  /\ DOMAIN channel \subseteq DOMAIN channel'
  /\ \A k \in DOMAIN connection : connection'[k].of = connection[k].of
  /\ \A c \in DOMAIN channel :
       /\ channel'[c].of = channel[c].of /\ channel'[c].connection = channel[c].connection
       /\ channel[c].status = "DISCONNECTED" => channel'[c].status = "DISCONNECTED"

\* While rows stay, what the other requests have read still holds.
LEMMA ReadsStay ==
  ASSUME IInv, RowsStay, NEW r \in Requests, Alone(r), InFlight(request[r])'
  PROVE  ReadsHold'
<1> SUFFICES ASSUME NEW s \in Requests, s # r
             PROVE  InFlight(request[s])'
  BY DEF ReadsHold
<1>1. request'[s] = request[s] /\ InFlight(request[s])
  BY DEF Alone, IInv, ReadsHold
<1>2. InFlight(request[s])' <=>
        /\ request[s].op \in OnShops => request[s].on \in DOMAIN shop'
        /\ request[s].op \in {"ACTIVE", "INACTIVE"} => request[s].seen # "ARCHIVED"
        /\ request[s].op = "connect" => request[s].seen \in Providers
        /\ request[s].op = "onboard" =>
             request[s].seen \in FacebookUsers
             /\ \A k \in request[s].these :
                  k \in DOMAIN connection' /\ connection'[k].of = request[s].on
        /\ request[s].op = "disconnect" =>
             request[s].next \in DOMAIN channel' /\ channel'[request[s].next].of = request[s].on
        /\ request[s].op = "deauthorize" => request[s].these \subseteq DOMAIN connection'
        /\ request[s].op = "send" => request[s].on \in DOMAIN channel'
        /\ request[s].op = "send" /\ request[s].at = "call" =>
             \/ channel'[request[s].on].connection \in {0, request[s].next}
             \/ channel'[request[s].on].status = "DISCONNECTED"
  BY <1>1 DEF InFlight
<1> QED
  BY <1>1, <1>2 DEF InFlight, RowsStay

\* A step that only reads.
LEMMA Reading ==
  ASSUME IInv, UNCHANGED <<shop, connection, channel>>, Requesting, NEW r \in Requests,
         Alone(r), InFlight(request[r])'
  PROVE  IInv'
<1>1. RowsStay
  BY DEF RowsStay
<1>2. ReadsHold'
  BY <1>1, ReadsStay
<1>3. /\ Live' = Live /\ Primary' = Primary
      /\ \A s : LiveConnections(s)' = LiveConnections(s) /\ ActiveChannels(s)' = ActiveChannels(s)
  BY DEF Live, Primary, LiveConnections, ActiveChannels
<1>4. Typed' /\ RowsExist' /\ TokensFollow'
  BY DEF IInv, Typed, RowsExist, TokensFollow, Requesting
<1>5. UniquePrimary' /\ UniqueConnection' /\ UniqueChannel' /\ ChannelsAreBacked'
  BY <1>3 DEF IInv, UniquePrimary, UniqueConnection, UniqueChannel, ChannelsAreBacked
<1> QED
  BY <1>2, <1>4, <1>5 DEF IInv

\* A step that writes shops, and ends its request.
LEMMA WritingShops ==
  ASSUME IInv, UNCHANGED <<connection, channel>>, NEW r \in Requests,
         Requesting, Alone(r), InFlight(request[r])',
         shop' \in Seq(ShopRow), DOMAIN shop \subseteq DOMAIN shop', UniquePrimary'
  PROVE  IInv'
<1>1. RowsStay
  BY DEF RowsStay
<1>2. ReadsHold'
  BY <1>1, ReadsStay
<1>3. \A s : LiveConnections(s)' = LiveConnections(s) /\ ActiveChannels(s)' = ActiveChannels(s)
  BY DEF LiveConnections, ActiveChannels
<1>4. Typed' /\ RowsExist' /\ TokensFollow'
  BY DEF IInv, Typed, RowsExist, TokensFollow, Requesting
<1>5. /\ \A k \in DOMAIN connection : connection[k].of \in DOMAIN shop
      /\ \A c \in DOMAIN channel : channel[c].of \in DOMAIN shop
  BY DEF IInv, RowsExist
<1>6. UniqueConnection' /\ UniqueChannel' /\ ChannelsAreBacked'
  BY <1>3, <1>5 DEF IInv, UniqueConnection, UniqueChannel, ChannelsAreBacked, LiveConnections,
     ActiveChannels
<1> QED
  BY <1>2, <1>4, <1>6 DEF IInv

\* A step that writes connections and channels.
LEMMA WritingChannels ==
  ASSUME IInv, UNCHANGED shop, NEW r \in Requests, Requesting, Alone(r), InFlight(request[r])',
         connection' \in Seq(ConnectionRow), channel' \in Seq(ChannelRow), RowsStay, RowsExist',
         TokensFollow', UniqueConnection', UniqueChannel', ChannelsAreBacked'
  PROVE  IInv'
<1>1. ReadsHold'
  BY ReadsStay
<1>2. Typed'
  BY DEF IInv, Typed, Requesting
<1>3. UniquePrimary'
  BY DEF IInv, UniquePrimary, Primary, Live
<1> QED
  BY <1>1, <1>2, <1>3 DEF IInv

-----------------------------------------------------------------------------
(* The steps of Shops.                                                     *)

LEMMA CreateKeeps ==
  ASSUME IInv, UNCHANGED <<connection, channel>>, NEW r \in Requests,
         StartCreate(r) \/ CreateWrites(r)
  PROVE  IInv'
<1> DEFINE q == [None EXCEPT !.op = "create", !.at = "write", !.primary = Primary = {}]
<1>1. CASE StartCreate(r)
  <2>1. q \in Request /\ q.op = "create"
    BY DEF None, Request
  <2>2. Starts(r, q) /\ UNCHANGED shop
    BY <1>1 DEF StartCreate
  <2>3. Requesting /\ Alone(r) /\ request'[r] = q
    BY <2>1, <2>2, StartsOne DEF IInv
  <2>4. InFlight(request[r])'
    BY <2>1, <2>3 DEF InFlight, OnShops
  <2> QED
    BY <2>2, <2>3, <2>4, Reading
<1>2. CASE CreateWrites(r)
  <2> DEFINE wanted == request[r].primary
             again == [request EXCEPT ![r].primary = FALSE]
             new == [status |-> "DRAFT", primary |-> wanted]
  <2>1. At(r, "create", "write") /\ request[r] \in Request
    BY <1>2 DEF CreateWrites, IInv, Typed
  <2>2. CASE wanted /\ ~IndexAllows(Primary \cup {Len(shop) + 1})
    <3>1. request' = again /\ UNCHANGED shop
      BY <1>2, <2>2 DEF CreateWrites
    <3>2. [request[r] EXCEPT !.primary = FALSE] \in Request
      BY <2>1 DEF Request
    <3>3. Requesting /\ Alone(r) /\ request'[r] = [request[r] EXCEPT !.primary = FALSE]
      BY <3>1, <3>2 DEF IInv, Typed, Requesting, Alone
    <3>4. request'[r].op = "create"
      BY <2>1, <3>3 DEF At, Request
    <3>5. InFlight(request[r])'
      BY <3>4 DEF InFlight, OnShops
    <3> QED
      BY <3>1, <3>3, <3>5, Reading
  <2>3. CASE ~(wanted /\ ~IndexAllows(Primary \cup {Len(shop) + 1}))
    <3>1. shop' = Append(shop, new) /\ Ends(r)
      BY <1>2, <2>3 DEF CreateWrites
    <3>2. Requesting /\ Alone(r) /\ InFlight(request[r])'
      BY <3>1, EndsOne DEF IInv
    <3>3. shop \in Seq(ShopRow) /\ new \in ShopRow
      BY <2>1 DEF IInv, Typed, Request, ShopRow, ShopStatus
    <3>4. /\ shop' \in Seq(ShopRow)
          /\ DOMAIN shop' = DOMAIN shop \cup {Len(shop) + 1}
          /\ \A s \in DOMAIN shop : shop'[s] = shop[s]
          /\ shop'[Len(shop) + 1] = new
      BY <3>1, <3>3, Appended
    <3>5. Primary' \subseteq IF wanted THEN Primary \cup {Len(shop) + 1} ELSE Primary
      BY <3>4 DEF Primary, Live
    <3>6. Primary \cup {Len(shop) + 1} \subseteq 1 .. Len(shop) + 1
      BY RowsAreNumbers DEF IInv, Primary, Live
    <3>7. wanted => \A s, t \in Primary \cup {Len(shop) + 1} : s = t
      BY <2>3, <3>6, IndexMeansOne DEF IInv
    <3>8. UniquePrimary'
      BY <3>5, <3>7 DEF IInv, UniquePrimary
    <3> QED
      BY <3>2, <3>4, <3>8, WritingShops
  <2> QED
    BY <2>2, <2>3
<1> QED
  BY <1>1, <1>2

LEMMA TransitionKeeps ==
  ASSUME IInv, UNCHANGED <<connection, channel>>, NEW r \in Requests, NEW to \in {"ACTIVE", "INACTIVE"},
         (\E s \in DOMAIN shop : StartTransition(r, s, to)) \/ TransitionWrites(r, to)
  PROVE  IInv'
<1>1. ASSUME NEW s \in DOMAIN shop, StartTransition(r, s, to)
      PROVE  IInv'
  <2> DEFINE q == [None EXCEPT !.op = to, !.at = "write", !.on = s, !.seen = shop[s].status]
  <2>1. s \in Nat /\ shop[s] \in ShopRow
    BY RowsAreNumbers DEF IInv
  <2>2. to \in Allowed(shop[s].status) /\ Starts(r, q) /\ UNCHANGED shop
    BY <1>1 DEF StartTransition
  <2>3. shop[s].status \in ShopStatus \ {"ARCHIVED"}
    BY <2>1, <2>2 DEF Allowed, ShopRow, ShopStatus
  <2>4. q \in Request /\ q.op = to /\ q.on = s /\ q.seen = shop[s].status
    BY <2>1, <2>3 DEF None, Request, OnShops
  <2>5. Requesting /\ Alone(r) /\ request'[r] = q
    BY <2>2, <2>4, StartsOne DEF IInv
  <2>6. InFlight(request[r])'
    BY <2>2, <2>3, <2>4, <2>5 DEF InFlight, OnShops
  <2> QED
    BY <2>2, <2>5, <2>6, Reading
<1>2. CASE TransitionWrites(r, to)
  <2> DEFINE s == request[r].on
  <2>1. At(r, to, "write") /\ Ends(r)
    BY <1>2 DEF TransitionWrites
  <2>2. Requesting /\ Alone(r) /\ InFlight(request[r])'
    BY <2>1, EndsOne DEF IInv
  <2>3. InFlight(request[r]) /\ request[r].op = to
    BY <2>1 DEF IInv, ReadsHold, At
  <2>4. s \in DOMAIN shop /\ request[r].seen # "ARCHIVED"
    BY <2>3 DEF InFlight, OnShops
  <2>5. CASE StillHas(s, request[r].seen)
    <3>1. shop' = [shop EXCEPT ![s].status = to]
      BY <1>2, <2>5 DEF TransitionWrites
    <3>2. /\ \A t \in DOMAIN shop : shop[t] \in ShopRow
          /\ shop[s].status # "ARCHIVED"
      BY <2>4, <2>5, RowsAreNumbers DEF IInv, StillHas
    <3>3. shop' \in [DOMAIN shop -> ShopRow]
      BY <3>1, <3>2 DEF ShopRow, ShopStatus
    <3>4. shop' \in Seq(ShopRow) /\ DOMAIN shop' = DOMAIN shop
      BY <3>3, ReplacedInPlace DEF IInv, Typed
    <3>5. \A t \in DOMAIN shop :
            shop'[t].primary = shop[t].primary
            /\ (shop'[t].status = "ARCHIVED" <=> shop[t].status = "ARCHIVED")
      BY <3>1, <3>2 DEF ShopRow
    <3>6. Primary' = Primary
      BY <3>4, <3>5 DEF Primary, Live
    <3> QED
      BY <2>2, <3>4, <3>6, WritingShops DEF IInv, UniquePrimary
  <2>6. CASE ~StillHas(s, request[r].seen)
    <3>1. UNCHANGED shop
      BY <1>2, <2>6 DEF TransitionWrites
    <3> QED
      BY <3>1, <2>2, Reading
  <2> QED
    BY <2>5, <2>6
<1> QED
  BY <1>1, <1>2

LEMMA SetPrimaryKeeps ==
  ASSUME IInv, UNCHANGED <<connection, channel>>, NEW r \in Requests,
         (\E s \in DOMAIN shop : StartSetPrimary(r, s)) \/ SetPrimaryWrites(r)
  PROVE  IInv'
<1>1. ASSUME NEW s \in DOMAIN shop, StartSetPrimary(r, s)
      PROVE  IInv'
  <2> DEFINE q == [None EXCEPT !.op = "setPrimary", !.at = "write", !.on = s]
  <2>1. q \in Request /\ q.op = "setPrimary" /\ q.on = s
    <3>1. s \in Nat
      BY RowsAreNumbers DEF IInv
    <3> QED
      BY <3>1 DEF None, Request, OnShops
  <2>2. Starts(r, q) /\ UNCHANGED shop
    BY <1>1 DEF StartSetPrimary
  <2>3. Requesting /\ Alone(r) /\ request'[r] = q
    BY <2>1, <2>2, StartsOne DEF IInv
  <2>4. InFlight(request[r])'
    BY <2>1, <2>2, <2>3 DEF InFlight, OnShops
  <2> QED
    BY <2>2, <2>3, <2>4, Reading
<1>2. CASE SetPrimaryWrites(r)
  <2> DEFINE s == request[r].on
  <2>1. Ends(r) /\ shop' = HandOver(s) /\ request[r].op = "setPrimary"
    BY <1>2 DEF SetPrimaryWrites, At
  <2>2. Requesting /\ Alone(r) /\ InFlight(request[r])'
    BY <2>1, EndsOne DEF IInv
  <2>3. CASE shop[s].status = "ARCHIVED"
    <3>1. UNCHANGED shop
      BY <2>1, <2>3 DEF HandOver
    <3> QED
      BY <2>2, <3>1, Reading
  <2>4. CASE shop[s].status # "ARCHIVED"
    <3>1. shop' = [t \in DOMAIN shop |-> [shop[t] EXCEPT !.primary = t = s]]
      BY <2>1, <2>4 DEF HandOver
    <3>2. \A t \in DOMAIN shop : shop[t] \in ShopRow
      BY RowsAreNumbers DEF IInv
    <3>3. shop' \in [DOMAIN shop -> ShopRow]
      BY <3>1, <3>2 DEF ShopRow
    <3>4. shop' \in Seq(ShopRow) /\ DOMAIN shop' = DOMAIN shop
      BY <3>3, ReplacedInPlace DEF IInv, Typed
    <3>5. \A t \in DOMAIN shop : shop'[t].primary = (t = s)
      BY <3>1, <3>2 DEF ShopRow
    <3>6. UniquePrimary'
      BY <3>4, <3>5 DEF UniquePrimary, Primary, Live
    <3> QED
      BY <2>2, <3>4, <3>6, WritingShops
  <2> QED
    BY <2>3, <2>4
<1> QED
  BY <1>1, <1>2

\* The successor of a shop is another live shop, if there is one.
LEMMA SuccessorIsLive ==
  ASSUME Typed, NEW s
  PROVE  /\ Candidate(s) \in Nat
         /\ Live \ {s} # {} => Candidate(s) \in Live \ {s}
<1> DEFINE Having(status) == {t \in DOMAIN shop \ {s} : shop[t].status = status}
           Oldest(S) == CHOOSE t \in S : \A u \in S : t <= u
<1>1. /\ DOMAIN shop \subseteq Nat
      /\ \A t \in DOMAIN shop : shop[t].status \in ShopStatus
  BY RowsAreNumbers DEF ShopRow
<1>2. ASSUME NEW status, Having(status) # {}
      PROVE  Oldest(Having(status)) \in Having(status)
  <2>1. Having(status) \in SUBSET Nat
    BY <1>1
  <2> HIDE DEF Having
  <2> QED
    BY <2>1, <1>2, OldestExists
<1>3. \A status \in {"ACTIVE", "INACTIVE", "DRAFT"} : Having(status) \subseteq Live \ {s}
  BY DEF Live
<1>4. Candidate(s) = CASE Having("ACTIVE") # {}   -> Oldest(Having("ACTIVE"))
                       [] Having("INACTIVE") # {} -> Oldest(Having("INACTIVE"))
                       [] Having("DRAFT") # {}    -> Oldest(Having("DRAFT"))
                       [] OTHER                   -> 0
  BY DEF Candidate
<1>5. Live \ {s} \subseteq Having("ACTIVE") \cup Having("INACTIVE") \cup Having("DRAFT")
  BY <1>1 DEF Live, ShopStatus
<1>6. Live \ {s} \subseteq Nat
  BY <1>1 DEF Live
<1> HIDE DEF Having, Oldest
<1>7. CASE Having("ACTIVE") # {}
  BY <1>2, <1>3, <1>4, <1>6, <1>7
<1>8. CASE Having("ACTIVE") = {} /\ Having("INACTIVE") # {}
  BY <1>2, <1>3, <1>4, <1>6, <1>8
<1>9. CASE Having("ACTIVE") = {} /\ Having("INACTIVE") = {} /\ Having("DRAFT") # {}
  BY <1>2, <1>3, <1>4, <1>6, <1>9
<1>10. CASE Having("ACTIVE") = {} /\ Having("INACTIVE") = {} /\ Having("DRAFT") = {}
  BY <1>4, <1>5, <1>10
<1> QED
  BY <1>7, <1>8, <1>9, <1>10

\* What an archive that commits leaves.
LEMMA ArchiveLeaves ==
  ASSUME IInv, NEW s \in DOMAIN shop, NEW next \in Nat, shop' = Archived(s, next)
  PROVE  /\ shop' \in Seq(ShopRow) /\ DOMAIN shop' = DOMAIN shop
         /\ Live' = Live \ {s}
         /\ Primary' = {t \in Live \ {s} : Archived(s, next)[t].primary}
         /\ \A t \in Live \ {s} : t \in Primary' <=> shop[t].primary \/ t = next
<1>1. /\ DOMAIN shop' = DOMAIN shop
      /\ \A t \in DOMAIN shop :
           shop'[t] = [status  |-> IF t = s THEN "ARCHIVED" ELSE shop[t].status,
                       primary |-> IF t = s THEN FALSE ELSE shop[t].primary \/ t = next]
  BY DEF Archived
<1>2. \A t \in DOMAIN shop : shop[t] \in ShopRow
  BY RowsAreNumbers DEF IInv
<1>3. Archived(s, next) \in [DOMAIN shop -> ShopRow]
  BY <1>2 DEF Archived, ShopRow, ShopStatus
<1>4. shop' \in Seq(ShopRow)
  BY <1>3, ReplacedInPlace DEF IInv, Typed
<1>5. ASSUME NEW t \in DOMAIN shop
      PROVE  /\ shop'[t].status = IF t = s THEN "ARCHIVED" ELSE shop[t].status
             /\ shop'[t].primary <=> t # s /\ (shop[t].primary \/ t = next)
  <2> DEFINE status == IF t = s THEN "ARCHIVED" ELSE shop[t].status
             primary == IF t = s THEN FALSE ELSE shop[t].primary \/ t = next
  <2>1. shop'[t] = [status |-> status, primary |-> primary]
    BY <1>1
  <2>2. primary <=> t # s /\ (shop[t].primary \/ t = next)
    OBVIOUS
  <2> HIDE DEF status, primary
  <2>3. shop'[t].status = status /\ shop'[t].primary = primary
    BY <2>1
  <2> QED
    BY <2>2, <2>3 DEF status
<1>6. /\ shop'[s].status = "ARCHIVED"
      /\ \A t \in DOMAIN shop \ {s} :
           shop'[t].status = shop[t].status /\ (shop'[t].primary <=> shop[t].primary \/ t = next)
  BY <1>5
<1>7. Live' = Live \ {s}
  BY <1>1, <1>6 DEF Live
<1>8. Primary' = {t \in Live' : shop'[t].primary}
  BY DEF Primary
<1> QED
  BY <1>1, <1>4, <1>6, <1>7, <1>8 DEF Live

LEMMA ArchiveKeeps ==
  ASSUME IInv, UNCHANGED <<connection, channel>>, NEW r \in Requests,
         (\E s \in DOMAIN shop : StartArchive(r, s)) \/ ArchiveWrites(r) \/ ArchiveCommits(r)
  PROVE  IInv'
<1>1. ASSUME NEW s \in DOMAIN shop, StartArchive(r, s)
      PROVE  IInv'
  <2> DEFINE q == [None EXCEPT !.op = "archive", !.at = "write", !.on = s,
                               !.primary = shop[s].primary]
  <2>1. s \in Nat /\ shop[s].primary \in BOOLEAN
    BY RowsAreNumbers DEF IInv, ShopRow
  <2>2. q \in Request /\ q.op = "archive" /\ q.on = s
    BY <2>1 DEF None, Request, OnShops
  <2>3. Starts(r, q) /\ UNCHANGED shop
    BY <1>1 DEF StartArchive
  <2>4. Requesting /\ Alone(r) /\ request'[r] = q
    BY <2>2, <2>3, StartsOne DEF IInv
  <2>5. InFlight(request[r])'
    BY <2>2, <2>3, <2>4 DEF InFlight, OnShops
  <2> QED
    BY <2>3, <2>4, <2>5, Reading
<1>2. CASE ArchiveWrites(r)
  <2> DEFINE s == request[r].on
             next == IF request[r].primary THEN Candidate(s) ELSE 0
             q == [request[r] EXCEPT !.at = "promote", !.next = next]
  <2>1. UNCHANGED shop /\ request[r].op = "archive" /\ request[r] \in Request
    BY <1>2 DEF ArchiveWrites, At, IInv, Typed
  <2>2. CASE shop[s].status = "ARCHIVED"
    <3>1. Ends(r)
      BY <1>2, <2>2 DEF ArchiveWrites
    <3>2. Requesting /\ Alone(r) /\ InFlight(request[r])'
      BY <3>1, EndsOne DEF IInv
    <3> QED
      BY <2>1, <3>2, Reading
  <2>3. CASE shop[s].status # "ARCHIVED"
    <3>1. request' = [request EXCEPT ![r].at = "promote", ![r].next = next]
      BY <1>2, <2>3 DEF ArchiveWrites
    <3>2. next \in Nat
      BY SuccessorIsLive DEF IInv
    <3> HIDE DEF next
    <3>3. q \in Request /\ q.op = "archive" /\ q.on = s
      BY <2>1, <3>2 DEF Request
    <3>4. Requesting /\ Alone(r) /\ request'[r] = q
      BY <3>1, <3>3 DEF IInv, Typed, Requesting, Alone
    <3>5. s \in DOMAIN shop
      BY <2>1 DEF IInv, ReadsHold, InFlight, OnShops
    <3>6. InFlight(request[r])'
      BY <2>1, <3>3, <3>4, <3>5 DEF InFlight, OnShops
    <3> QED
      BY <2>1, <3>4, <3>6, Reading
  <2> QED
    BY <2>2, <2>3
<1>3. CASE ArchiveCommits(r)
  <2> DEFINE s == request[r].on
             next == request[r].next
             primary == {t \in Live \ {s} : Archived(s, next)[t].primary}
  <2>1. Ends(r) /\ request[r].op = "archive" /\ request[r] \in Request
    BY <1>3 DEF ArchiveCommits, At, IInv, Typed
  <2>2. s \in DOMAIN shop /\ next \in Nat
    BY <2>1 DEF IInv, ReadsHold, InFlight, OnShops, Request
  <2>3. Requesting /\ Alone(r) /\ InFlight(request[r])'
    BY <2>1, EndsOne DEF IInv
  <2>4. CASE IndexAllows(primary)
    <3>1. shop' = Archived(s, next)
      BY <1>3, <2>4 DEF ArchiveCommits
    <3>2. shop' \in Seq(ShopRow) /\ DOMAIN shop' = DOMAIN shop /\ Primary' = primary
      BY <2>2, <3>1, ArchiveLeaves
    <3>3. primary \subseteq 1 .. Len(shop) + 1
      BY RowsAreNumbers DEF IInv, Live
    <3>4. UniquePrimary'
      BY <2>4, <3>2, <3>3, IndexMeansOne DEF IInv, UniquePrimary
    <3> QED
      BY <2>3, <3>2, <3>4, WritingShops
  <2>5. CASE ~IndexAllows(primary)
    <3>1. UNCHANGED shop
      BY <1>3, <2>5 DEF ArchiveCommits
    <3> QED
      BY <2>3, <3>1, Reading
  <2> QED
    BY <2>4, <2>5
<1> QED
  BY <1>1, <1>2, <1>3

LEMMA ShopStepKeeps ==
  ASSUME IInv, NEW r \in Requests, ShopStep(r)
  PROVE  IInv'
<1>1. UNCHANGED <<connection, channel>> /\ (ShopSteps(r) \/ Fails(r))
  BY DEF ShopStep
<1>2. CASE Fails(r)
  <2>1. Ends(r) /\ UNCHANGED shop
    BY <1>2 DEF Fails
  <2>2. Requesting /\ Alone(r) /\ InFlight(request[r])'
    BY <2>1, EndsOne DEF IInv
  <2> QED
    BY <1>1, <2>1, <2>2, Reading
<1>3. CASE ShopSteps(r)
  BY <1>1, <1>3, CreateKeeps, TransitionKeeps, SetPrimaryKeeps, ArchiveKeeps DEF ShopSteps
<1> QED
  BY <1>1, <1>2, <1>3

-----------------------------------------------------------------------------
(* The steps of Channels.                                                  *)

\* A request of a shop, or of Meta, or of the worker, that starts.
LEMMA StartKeeps ==
  ASSUME IInv, NEW r \in Requests, UNCHANGED <<shop, connection, channel>>,
         NEW q \in Request, Starts(r, q), InFlight(q)
  PROVE  IInv'
<1>1. Requesting /\ Alone(r) /\ request'[r] = q
  BY StartsOne DEF IInv
<1>2. InFlight(request[r])' <=> InFlight(q)
  BY <1>1 DEF InFlight
<1> QED
  BY <1>1, <1>2, Reading

\* A request that ends without a trace.
LEMMA EndKeeps ==
  ASSUME IInv, NEW r \in Requests, UNCHANGED <<shop, connection, channel>>, Ends(r)
  PROVE  IInv'
<1>1. Requesting /\ Alone(r) /\ InFlight(request[r])'
  BY EndsOne DEF IInv
<1> QED
  BY <1>1, Reading

LEMMA ConnectKeeps ==
  ASSUME IInv, NEW r \in Requests,
         \/ \E s \in Connectable \cap DOMAIN shop, provider \in Providers : StartConnect(r, s, provider)
         \/ ConnectReads(r) \/ ConnectWrites(r)
  PROVE  IInv'
<1>1. ASSUME NEW s \in DOMAIN shop, NEW provider \in Providers, StartConnect(r, s, provider)
      PROVE  IInv'
  <2> DEFINE q == [None EXCEPT !.op = "connect", !.at = "read", !.on = s, !.seen = provider]
  <2>1. s \in Nat
    BY RowsAreNumbers DEF IInv
  <2>2. q \in Request /\ q.op = "connect" /\ q.on = s /\ q.seen = provider
    BY <2>1 DEF None, Request, OnShops
  <2>3. InFlight(q)
    BY <2>2 DEF InFlight, OnShops
  <2> QED
    BY <1>1, <2>2, <2>3, StartKeeps DEF StartConnect
<1>2. CASE ConnectReads(r)
  <2>1. UNCHANGED <<shop, connection, channel>> /\ request[r].op = "connect" /\ request[r] \in Request
    BY <1>2 DEF ConnectReads, At, IInv, Typed
  <2>2. CASE ActiveChannels(request[r].on) # {}
    BY <1>2, <2>1, <2>2, EndKeeps DEF ConnectReads
  <2>3. CASE ActiveChannels(request[r].on) = {}
    <3> DEFINE q == [request[r] EXCEPT !.at = "write"]
    <3>1. request' = [request EXCEPT ![r].at = "write"]
      BY <1>2, <2>3 DEF ConnectReads
    <3>2. q \in Request /\ q.op = "connect" /\ q.on = request[r].on /\ q.seen = request[r].seen
      BY <2>1 DEF Request
    <3>3. Requesting /\ Alone(r) /\ request'[r] = q
      BY <3>1, <3>2 DEF IInv, Typed, Requesting, Alone
    <3>4. InFlight(request[r])
      BY DEF IInv, ReadsHold
    <3>5. InFlight(request[r])'
      BY <2>1, <3>2, <3>3, <3>4 DEF InFlight, OnShops
    <3> QED
      BY <2>1, <3>3, <3>5, Reading
  <2> QED
    BY <2>2, <2>3
<1>3. CASE ConnectWrites(r)
  <2> DEFINE s == request[r].on
             new == Channel(s, request[r].seen, 0)
  <2>1. /\ UNCHANGED <<shop, connection>> /\ Ends(r)
        /\ request[r].op = "connect" /\ request[r] \in Request /\ InFlight(request[r])
    BY <1>3 DEF ConnectWrites, At, IInv, Typed, ReadsHold
  <2>2. CASE ~ChannelAllowed(s)
    BY <1>3, <2>1, <2>2, EndKeeps DEF ConnectWrites
  <2>3. CASE ChannelAllowed(s)
    <3>1. channel' = Append(channel, new)
      BY <1>3, <2>3 DEF ConnectWrites
    <3>2. s \in DOMAIN shop /\ request[r].seen \in Providers
      BY <2>1 DEF InFlight, OnShops
    <3>3. new \in ChannelRow /\ new.of = s /\ new.connection = 0
      BY <2>1, <3>2 DEF Channel, ChannelRow, LinkStatus, Request
    <3>4. /\ channel' \in Seq(ChannelRow)
          /\ DOMAIN channel' = DOMAIN channel \cup {Len(channel) + 1}
          /\ \A c \in DOMAIN channel : channel'[c] = channel[c]
          /\ channel'[Len(channel) + 1] = new
      BY <3>1, <3>3, Appended DEF IInv, Typed
    <3>5. Requesting /\ Alone(r) /\ InFlight(request[r])'
      BY <2>1, EndsOne DEF IInv
    <3>6. RowsStay
      BY <2>1, <3>4 DEF RowsStay
    <3>7. RowsExist'
      BY <2>1, <3>2, <3>3, <3>4, RowsAreNumbers DEF IInv, RowsExist
    <3>8. TokensFollow' /\ UniqueConnection' /\ connection' \in Seq(ConnectionRow)
      BY <2>1 DEF IInv, Typed, TokensFollow, UniqueConnection, LiveConnections
    <3>9. \A t \in DOMAIN shop :
            ActiveChannels(t)' \subseteq IF t = s THEN {Len(channel) + 1} ELSE ActiveChannels(t)
      BY <2>3, <3>3, <3>4 DEF ActiveChannels, ChannelAllowed
    <3>10. UniqueChannel'
      BY <2>1, <3>9 DEF IInv, UniqueChannel
    <3>11. ChannelsAreBacked'
      BY <2>1, <3>3, <3>4 DEF IInv, ChannelsAreBacked, LiveConnections
    <3> QED
      BY <2>1, <3>4, <3>5, <3>6, <3>7, <3>8, <3>10, <3>11, WritingChannels
  <2> QED
    BY <2>2, <2>3
<1> QED
  BY <1>1, <1>2, <1>3

\* New connections and channels of an onboarding.
LEMMA OnboardKeeps ==
  ASSUME IInv, NEW r \in Requests,
         \/ \E s \in Connectable \cap DOMAIN shop, u \in FacebookUsers : StartOnboard(r, s, u)
         \/ OnboardReads(r) \/ OnboardWrites(r)
  PROVE  IInv'
<1>1. ASSUME NEW s \in DOMAIN shop, NEW u \in FacebookUsers, StartOnboard(r, s, u)
      PROVE  IInv'
  <2> DEFINE q == [None EXCEPT !.op = "onboard", !.at = "read", !.on = s, !.seen = u]
  <2>1. s \in Nat
    BY RowsAreNumbers DEF IInv
  <2>2. q \in Request /\ q.op = "onboard" /\ q.on = s /\ q.seen = u /\ q.these = {}
    BY <2>1 DEF None, Request, OnShops
  <2>3. InFlight(q)
    BY <2>2 DEF InFlight, OnShops
  <2> QED
    BY <1>1, <2>2, <2>3, StartKeeps DEF StartOnboard
<1>2. CASE OnboardReads(r)
  <2> DEFINE K == LiveConnections(request[r].on)
             q == [request[r] EXCEPT !.at = "write", !.these = K]
  <2>1. /\ UNCHANGED <<shop, connection, channel>>
        /\ request' = [request EXCEPT ![r].at = "write", ![r].these = K]
        /\ request[r].op = "onboard" /\ request[r] \in Request /\ InFlight(request[r])
    BY <1>2 DEF OnboardReads, At, IInv, Typed, ReadsHold
  <2>2. K \subseteq Nat /\ \A k \in K : k \in DOMAIN connection /\ connection[k].of = request[r].on
    BY RowsAreNumbers DEF IInv, LiveConnections
  <2> HIDE DEF K
  <2>3. q \in Request /\ q.op = "onboard" /\ q.on = request[r].on /\ q.seen = request[r].seen
        /\ q.these = K
    BY <2>1, <2>2 DEF Request
  <2>4. Requesting /\ Alone(r) /\ request'[r] = q
    BY <2>1, <2>3 DEF IInv, Typed, Requesting, Alone
  <2>5. InFlight(request[r])'
    BY <2>1, <2>2, <2>3, <2>4 DEF InFlight, OnShops
  <2> QED
    BY <2>1, <2>4, <2>5, Reading
<1>3. CASE OnboardWrites(r)
  <2> DEFINE s == request[r].on
             K == request[r].these
             torn == TornDown(K)
             shut == Closed(ActiveChannels(s))
             bond == [of |-> s, by |-> request[r].seen, status |-> "CONNECTED", token |-> "ACTIVE"]
             new == Channel(s, "META_CLOUD", Len(connection) + 1)
  <2>1. /\ UNCHANGED shop /\ Ends(r)
        /\ request[r].op = "onboard" /\ request[r] \in Request /\ InFlight(request[r])
    BY <1>3 DEF OnboardWrites, At, IInv, Typed, ReadsHold
  <2>2. /\ s \in DOMAIN shop /\ s \in Nat /\ request[r].seen \in FacebookUsers
        /\ \A k \in K : k \in DOMAIN connection /\ connection[k].of = s
    BY <2>1 DEF InFlight, OnShops, Request
  <2>3. Requesting /\ Alone(r) /\ InFlight(request[r])'
    BY <2>1, EndsOne DEF IInv
  <2>4. CASE ~ConnectionAllowed(s, K)
    BY <1>3, <2>1, <2>4, EndKeeps DEF OnboardWrites
  <2>5. CASE ConnectionAllowed(s, K)
    <3>1. connection' = Append(torn, bond) /\ channel' = Append(shut, new)
      BY <1>3, <2>5 DEF OnboardWrites
    <3>2. /\ torn \in Seq(ConnectionRow) /\ DOMAIN torn = DOMAIN connection
          /\ Len(torn) = Len(connection)
          /\ \A k \in DOMAIN connection :
               /\ torn[k].of = connection[k].of
               /\ k \in K => torn[k].status = "DISCONNECTED" /\ torn[k].token = "REVOKED"
               /\ k \notin K => torn[k] = connection[k]
      BY TearingDown DEF IInv
    <3>3. /\ shut \in Seq(ChannelRow) /\ DOMAIN shut = DOMAIN channel
          /\ \A c \in DOMAIN channel :
               /\ shut[c].of = channel[c].of /\ shut[c].connection = channel[c].connection
               /\ c \in ActiveChannels(s) => shut[c].status = "DISCONNECTED"
               /\ c \notin ActiveChannels(s) => shut[c] = channel[c]
      BY Closing DEF IInv
    <3>4. Len(connection) \in Nat /\ DOMAIN connection = 1 .. Len(connection)
      BY RowsAreNumbers DEF IInv
    <3>5. bond \in ConnectionRow
      BY <2>2 DEF ConnectionRow, LinkStatus
    <3>6. /\ new \in ChannelRow /\ new.of = s /\ new.connection = Len(connection) + 1
          /\ new.provider = "META_CLOUD"
      BY <2>2, <3>4 DEF Channel, ChannelRow, LinkStatus, Providers
    <3>7. /\ bond.of = s /\ bond.status = "CONNECTED" /\ bond.token = "ACTIVE"
      OBVIOUS
    <3> DEFINE n == Len(connection) + 1
               m == Len(shut) + 1
    <3> HIDE DEF torn, shut, bond, new, K, s
    <3>8. /\ connection' \in Seq(ConnectionRow)
          /\ DOMAIN connection' = DOMAIN connection \cup {n} /\ Len(connection') = n
          /\ n \notin DOMAIN connection
          /\ \A k \in DOMAIN connection : connection'[k] = torn[k]
          /\ connection'[n] = bond
      <4>1. /\ Append(torn, bond) \in Seq(ConnectionRow)
            /\ DOMAIN Append(torn, bond) = DOMAIN torn \cup {Len(torn) + 1}
            /\ Len(torn) + 1 \notin DOMAIN torn /\ Len(Append(torn, bond)) = Len(torn) + 1
            /\ \A k \in DOMAIN torn : Append(torn, bond)[k] = torn[k]
            /\ Append(torn, bond)[Len(torn) + 1] = bond
        BY <3>2, <3>5, Appended
      <4> QED
        BY <3>1, <3>2, <4>1
    <3>9. /\ channel' \in Seq(ChannelRow)
          /\ DOMAIN channel' = DOMAIN channel \cup {m} /\ m \notin DOMAIN channel
          /\ \A c \in DOMAIN channel : channel'[c] = shut[c]
          /\ channel'[m] = new
      <4>1. /\ Append(shut, new) \in Seq(ChannelRow)
            /\ DOMAIN Append(shut, new) = DOMAIN shut \cup {m} /\ m \notin DOMAIN shut
            /\ \A c \in DOMAIN shut : Append(shut, new)[c] = shut[c]
            /\ Append(shut, new)[m] = new
        BY <3>3, <3>6, Appended
      <4> QED
        BY <3>1, <3>3, <4>1
    <3> HIDE DEF n, m
    <3>10. \A t \in DOMAIN shop :
             LiveConnections(t)' = IF t = s THEN {n} ELSE LiveConnections(t)
      <4> SUFFICES ASSUME NEW t \in DOMAIN shop
                   PROVE  LiveConnections(t)' = IF t = s THEN {n} ELSE LiveConnections(t)
        OBVIOUS
      <4>1. LiveConnections(s) \subseteq K
        BY <2>5 DEF ConnectionAllowed
      <4>2. \A k \in DOMAIN connection :
              k \in LiveConnections(t)' <=> t # s /\ k \in LiveConnections(t)
        BY <2>2, <3>2, <3>8, <4>1 DEF LiveConnections
      <4>3. n \in LiveConnections(t)' <=> t = s
        BY <3>7, <3>8 DEF LiveConnections
      <4>4. LiveConnections(t)' \subseteq DOMAIN connection \cup {n}
        BY <3>8 DEF LiveConnections
      <4>5. LiveConnections(t) \subseteq DOMAIN connection
        BY DEF LiveConnections
      <4>6. CASE t = s
        BY <4>2, <4>3, <4>4, <4>6
      <4>7. CASE t # s
        BY <4>2, <4>3, <4>4, <4>5, <4>7
      <4> QED
        BY <4>6, <4>7
    <3>11. \A t \in DOMAIN shop :
             ActiveChannels(t)' \subseteq IF t = s THEN {m} ELSE ActiveChannels(t)
      BY <3>3, <3>6, <3>9 DEF ActiveChannels
    <3>12. RowsStay
      BY <2>1, <3>2, <3>3, <3>8, <3>9, RowsAreNumbers DEF RowsStay, ActiveChannels, IInv
    <3>13. RowsExist'
      BY <2>1, <2>2, <3>2, <3>3, <3>4, <3>6, <3>7, <3>8, <3>9 DEF IInv, RowsExist, n
    <3>14. TokensFollow'
      BY <3>2, <3>7, <3>8 DEF IInv, TokensFollow
    <3>15. UniqueConnection' /\ UniqueChannel'
      BY <2>1, <3>10, <3>11 DEF IInv, UniqueConnection, UniqueChannel
    <3>16. ChannelsAreBacked'
      <4> DEFINE k(c) == channel[c].connection
      <4>1. ASSUME NEW c \in DOMAIN channel, channel'[c].status = "CONNECTED",
                   channel'[c].connection # 0
            PROVE  /\ channel'[c] = channel[c] /\ channel[c].provider = "META_CLOUD"
                   /\ k(c) \in DOMAIN connection /\ connection'[k(c)] = connection[k(c)]
                   /\ connection[k(c)].of = channel[c].of
                   /\ connection[k(c)].status = "CONNECTED"
        <5>1. c \notin ActiveChannels(s) /\ channel'[c] = channel[c]
          BY <3>3, <3>9, <4>1
        <5>2. channel[c].of # s
          BY <4>1, <5>1 DEF ActiveChannels
        <5>3. /\ channel[c].provider = "META_CLOUD"
              /\ k(c) \in DOMAIN connection /\ connection[k(c)].of = channel[c].of
              /\ connection[k(c)].status = "CONNECTED"
          BY <4>1, <5>1 DEF IInv, ChannelsAreBacked
        <5>4. k(c) \notin K
          BY <2>2, <5>2, <5>3
        <5> QED
          BY <3>2, <3>8, <5>1, <5>3, <5>4
      <4>2. /\ channel'[m].provider = "META_CLOUD" /\ channel'[m].connection = n
            /\ n \in DOMAIN connection' /\ connection'[n].of = channel'[m].of
            /\ connection'[n].status = "CONNECTED"
        BY <3>6, <3>7, <3>8, <3>9 DEF n
      <4> QED
        BY <3>8, <3>9, <4>1, <4>2 DEF ChannelsAreBacked
    <3> QED
      BY <2>1, <2>3, <3>8, <3>9, <3>12, <3>13, <3>14, <3>15, <3>16, WritingChannels
  <2> QED
    BY <2>4, <2>5
<1> QED
  BY <1>1, <1>2, <1>3

\* Connections K are torn down and channels C closed, which are all those that stand on K.
LEMMA TearingDownKeeps ==
  ASSUME IInv, NEW r \in Requests, UNCHANGED shop, Ends(r), NEW K, NEW C,
         connection' = TornDown(K), channel' = Closed(C),
         \A c \in DOMAIN channel :
           channel[c].status = "CONNECTED" /\ channel[c].connection \in K => c \in C
  PROVE  IInv'
<1>1. Requesting /\ Alone(r) /\ InFlight(request[r])'
  BY EndsOne DEF IInv
<1>2. /\ connection' \in Seq(ConnectionRow)
      /\ DOMAIN connection' = DOMAIN connection /\ Len(connection') = Len(connection)
      /\ \A k \in DOMAIN connection :
           /\ connection'[k].of = connection[k].of
           /\ k \in K => connection'[k].status = "DISCONNECTED" /\ connection'[k].token = "REVOKED"
           /\ k \notin K => connection'[k] = connection[k]
  BY TearingDown DEF IInv
<1>3. /\ channel' \in Seq(ChannelRow) /\ DOMAIN channel' = DOMAIN channel
      /\ \A c \in DOMAIN channel :
           /\ channel'[c].of = channel[c].of /\ channel'[c].connection = channel[c].connection
           /\ c \in C => channel'[c].status = "DISCONNECTED"
           /\ c \notin C => channel'[c] = channel[c]
  BY Closing DEF IInv
<1>4. RowsStay
  BY <1>2, <1>3 DEF RowsStay
<1>5. RowsExist'
  BY <1>2, <1>3 DEF IInv, RowsExist
<1>6. TokensFollow'
  BY <1>2 DEF IInv, TokensFollow
<1>7. /\ \A k \in DOMAIN connection : connection'[k].status = "CONNECTED" =>
           connection[k].status = "CONNECTED"
      /\ \A c \in DOMAIN channel : channel'[c].status = "CONNECTED" =>
           c \notin C /\ channel'[c] = channel[c]
  BY <1>2, <1>3
<1>8. \A t \in DOMAIN shop :
        LiveConnections(t)' \subseteq LiveConnections(t) /\ ActiveChannels(t)' \subseteq ActiveChannels(t)
  BY <1>2, <1>3, <1>7 DEF LiveConnections, ActiveChannels
<1>9. UniqueConnection' /\ UniqueChannel'
  BY <1>8 DEF IInv, UniqueConnection, UniqueChannel
<1>10. ChannelsAreBacked'
  <2> SUFFICES ASSUME NEW c \in DOMAIN channel, channel'[c].status = "CONNECTED",
                      channel'[c].connection # 0
               PROVE  /\ channel'[c].provider = "META_CLOUD"
                      /\ channel'[c].connection \in DOMAIN connection'
                      /\ connection'[channel'[c].connection].of = channel'[c].of
                      /\ connection'[channel'[c].connection].status = "CONNECTED"
    BY <1>3 DEF ChannelsAreBacked
  <2>1. c \notin C /\ channel'[c] = channel[c]
    BY <1>7
  <2>2. channel[c].connection \notin K
    BY <2>1
  <2> QED
    BY <1>2, <2>1, <2>2 DEF IInv, ChannelsAreBacked
<1> QED
  BY <1>1, <1>2, <1>3, <1>4, <1>5, <1>6, <1>9, <1>10, WritingChannels

LEMMA DisconnectKeeps ==
  ASSUME IInv, NEW r \in Requests,
         (\E s \in Connectable \cap DOMAIN shop : StartDisconnect(r, s)) \/ DisconnectWrites(r)
  PROVE  IInv'
<1>1. ASSUME NEW s \in DOMAIN shop, StartDisconnect(r, s)
      PROVE  IInv'
  <2>1. PICK c \in ActiveChannels(s) :
          Starts(r, [None EXCEPT !.op = "disconnect", !.at = "write", !.on = s, !.next = c])
    BY <1>1 DEF StartDisconnect
  <2> DEFINE q == [None EXCEPT !.op = "disconnect", !.at = "write", !.on = s, !.next = c]
  <2>2. s \in Nat /\ c \in Nat /\ c \in DOMAIN channel /\ channel[c].of = s
    BY RowsAreNumbers DEF IInv, ActiveChannels
  <2>3. q \in Request /\ q.op = "disconnect" /\ q.on = s /\ q.next = c
    BY <2>2 DEF None, Request, OnShops
  <2>4. InFlight(q)
    BY <2>2, <2>3 DEF InFlight, OnShops
  <2> QED
    BY <1>1, <2>1, <2>3, <2>4, StartKeeps DEF StartDisconnect
<1>2. CASE DisconnectWrites(r)
  <2> DEFINE s == request[r].on
             c == request[r].next
             K == LiveConnections(s)
  <2>1. UNCHANGED shop /\ Ends(r) /\ request[r].op = "disconnect" /\ InFlight(request[r])
    BY <1>2 DEF DisconnectWrites, At, IInv, ReadsHold
  <2>2. s \in DOMAIN shop /\ c \in DOMAIN channel /\ channel[c].of = s
    BY <2>1 DEF InFlight, OnShops
  <2>3. CASE channel[c].status # "CONNECTED"
    BY <1>2, <2>1, <2>3, EndKeeps DEF DisconnectWrites
  <2>4. CASE channel[c].status = "CONNECTED"
    <3>1. channel' = Closed({c}) /\ connection' = TornDown(K)
      BY <1>2, <2>4 DEF DisconnectWrites
    <3>2. ASSUME NEW d \in DOMAIN channel, channel[d].status = "CONNECTED", channel[d].connection \in K
          PROVE  d \in {c}
      <4>1. /\ channel[d].connection \in DOMAIN connection
            /\ connection[channel[d].connection].of = s
        BY <3>2 DEF LiveConnections
      <4>2. channel[d].connection # 0
        BY <4>1, RowsAreNumbers DEF IInv
      <4>3. channel[d].of = s
        BY <3>2, <4>1, <4>2 DEF IInv, ChannelsAreBacked
      <4>4. c \in ActiveChannels(s) /\ d \in ActiveChannels(s)
        BY <2>2, <2>4, <3>2, <4>3 DEF ActiveChannels
      <4> QED
        BY <2>2, <4>4 DEF IInv, UniqueChannel
    <3> HIDE DEF K, c
    <3> QED
      BY <2>1, <3>1, <3>2, TearingDownKeeps
  <2> QED
    BY <2>3, <2>4
<1> QED
  BY <1>1, <1>2

LEMMA DeauthorizeKeeps ==
  ASSUME IInv, NEW r \in Requests,
         (\E u \in FacebookUsers : StartDeauthorize(r, u)) \/ DeauthorizeWrites(r)
  PROVE  IInv'
<1>1. ASSUME NEW u \in FacebookUsers, StartDeauthorize(r, u)
      PROVE  IInv'
  <2> DEFINE K == TokensOf(u)
             q == [None EXCEPT !.op = "deauthorize", !.at = "write", !.these = K]
  <2>1. K \subseteq DOMAIN connection /\ K \subseteq Nat
    BY RowsAreNumbers DEF IInv, TokensOf
  <2>2. Starts(r, q) /\ UNCHANGED <<shop, connection, channel>>
    BY <1>1 DEF StartDeauthorize
  <2> HIDE DEF K
  <2>3. q \in Request /\ q.op = "deauthorize" /\ q.these = K
    BY <2>1 DEF None, Request, OnShops
  <2>4. InFlight(q)
    BY <2>1, <2>3 DEF InFlight, OnShops
  <2> QED
    BY <2>2, <2>3, <2>4, StartKeeps
<1>2. CASE DeauthorizeWrites(r)
  <2> DEFINE K == request[r].these
             shops == {connection[k].of : k \in K}
             C == {c \in UNION {ActiveChannels(s) : s \in shops} : channel[c].provider = "META_CLOUD"}
  <2>1. /\ UNCHANGED shop /\ Ends(r) /\ connection' = TornDown(K) /\ channel' = Closed(C)
        /\ request[r].op = "deauthorize" /\ InFlight(request[r])
    BY <1>2 DEF DeauthorizeWrites, At, IInv, ReadsHold
  <2>2. K \subseteq DOMAIN connection
    BY <2>1 DEF InFlight
  <2>3. ASSUME NEW c \in DOMAIN channel, channel[c].status = "CONNECTED", channel[c].connection \in K
        PROVE  c \in C
    <3>1. channel[c].connection # 0
      BY <2>2, <2>3, RowsAreNumbers DEF IInv
    <3>2. /\ channel[c].provider = "META_CLOUD"
          /\ connection[channel[c].connection].of = channel[c].of
      BY <2>3, <3>1 DEF IInv, ChannelsAreBacked
    <3>3. channel[c].of \in shops
      BY <2>3, <3>2
    <3>4. c \in ActiveChannels(channel[c].of)
      BY <2>3 DEF ActiveChannels
    <3> QED
      BY <3>2, <3>3, <3>4
  <2> HIDE DEF K, C
  <2> QED
    BY <2>1, <2>3, TearingDownKeeps
<1> QED
  BY <1>1, <1>2

LEMMA SendKeeps ==
  ASSUME IInv, NEW r \in Requests,
         (\E c \in DOMAIN channel : StartSend(r, c)) \/ SendResolves(r) \/ SendCalls(r)
  PROVE  IInv'
<1>1. ASSUME NEW c \in DOMAIN channel, StartSend(r, c)
      PROVE  IInv'
  <2> DEFINE q == [None EXCEPT !.op = "send", !.at = "resolve", !.on = c]
  <2>1. c \in Nat
    BY RowsAreNumbers DEF IInv
  <2>2. q \in Request /\ q.op = "send" /\ q.at = "resolve" /\ q.on = c
    BY <2>1 DEF None, Request
  <2>3. InFlight(q)
    BY <2>2 DEF InFlight, OnShops
  <2> QED
    BY <1>1, <2>2, <2>3, StartKeeps DEF StartSend
<1>2. CASE SendResolves(r)
  <2> DEFINE c == request[r].on
             usable == {k \in LiveConnections(channel[c].of) : connection[k].token = "ACTIVE"}
  <2>1. /\ UNCHANGED <<shop, connection, channel>> /\ request[r].op = "send"
        /\ request[r] \in Request /\ InFlight(request[r])
    BY <1>2 DEF SendResolves, At, IInv, Typed, ReadsHold
  <2>2. c \in DOMAIN channel /\ channel[c].of \in DOMAIN shop
    BY <2>1 DEF InFlight, IInv, RowsExist
  <2>3. CASE usable = {}
    BY <1>2, <2>1, <2>3, EndKeeps DEF SendResolves
  <2>4. CASE usable # {}
    <3>1. PICK k \in usable : request' = [request EXCEPT ![r].at = "call", ![r].next = k]
      BY <1>2, <2>4 DEF SendResolves
    <3> DEFINE q == [request[r] EXCEPT !.at = "call", !.next = k]
    <3>2. k \in LiveConnections(channel[c].of) /\ k \in Nat
      BY RowsAreNumbers DEF IInv, LiveConnections
    <3>3. q \in Request /\ q.op = "send" /\ q.on = c /\ q.next = k
      BY <2>1, <3>2 DEF Request
    <3>4. Requesting /\ Alone(r) /\ request'[r] = q
      BY <3>1, <3>3 DEF IInv, Typed, Requesting, Alone
    <3>5. channel[c].connection \in {0, k} \/ channel[c].status = "DISCONNECTED"
      <4> SUFFICES ASSUME channel[c].connection # 0, channel[c].status # "DISCONNECTED"
                   PROVE  channel[c].connection = k
        OBVIOUS
      <4>1. channel[c].status = "CONNECTED"
        BY <2>2, RowsAreNumbers DEF IInv, ChannelRow, LinkStatus
      <4>2. channel[c].connection \in LiveConnections(channel[c].of)
        BY <2>2, <4>1 DEF IInv, ChannelsAreBacked, LiveConnections
      <4> QED
        BY <2>2, <3>2, <4>2 DEF IInv, UniqueConnection
    <3>6. InFlight(request[r])'
      BY <2>1, <2>2, <3>3, <3>4, <3>5 DEF InFlight, OnShops
    <3> QED
      BY <2>1, <3>4, <3>6, Reading
  <2> QED
    BY <2>3, <2>4
<1>3. CASE SendCalls(r)
  BY <1>3, EndKeeps DEF SendCalls
<1> QED
  BY <1>1, <1>2, <1>3

-----------------------------------------------------------------------------
(* The invariant, and what follows from it.                                *)

LEMMA Initially == Init => IInv
<1> SUFFICES ASSUME Init PROVE IInv
  OBVIOUS
<1>1. shop = <<>> /\ connection = <<>> /\ channel = <<>> /\ request = [r \in Requests |-> None]
  BY DEF Init, ShopsInit
<1>2. None \in Request /\ InFlight(None)
  BY DEF None, Request, InFlight, OnShops
<1>3. Typed
  BY <1>1, <1>2, EmptySeq DEF Typed
<1>4. DOMAIN shop = {} /\ DOMAIN connection = {} /\ DOMAIN channel = {}
  BY <1>1, <1>3, RowsAreNumbers, EmptySeq
<1>5. ReadsHold
  BY <1>1, <1>2 DEF ReadsHold
<1>6. /\ RowsExist /\ UniquePrimary /\ TokensFollow /\ UniqueConnection /\ UniqueChannel
      /\ ChannelsAreBacked
  BY <1>4 DEF RowsExist, UniquePrimary, Primary, Live, TokensFollow, UniqueConnection,
     UniqueChannel, ChannelsAreBacked
<1> QED
  BY <1>3, <1>5, <1>6 DEF IInv

LEMMA ChannelStepKeeps ==
  ASSUME IInv, NEW r \in Requests, ChannelSteps(r)
  PROVE  IInv'
BY ConnectKeeps, OnboardKeeps, DisconnectKeeps, DeauthorizeKeeps, SendKeeps
   DEF ChannelSteps, Providers

LEMMA Stuttering ==
  ASSUME IInv, UNCHANGED vars
  PROVE  IInv'
BY DEF vars, IInv, Typed, RowsExist, UniquePrimary, Primary, Live, TokensFollow, UniqueConnection,
   UniqueChannel, LiveConnections, ActiveChannels, ChannelsAreBacked, ReadsHold, InFlight

LEMMA Inductive == IInv /\ [Next]_vars => IInv'
BY ShopStepKeeps, ChannelStepKeeps, Stuttering DEF Next

\* The inductive invariant holds in every reachable state (Shops, Channels).
THEOREM StorefrontInvariant == Spec => []IInv
BY Initially, Inductive, PTL DEF Spec

LEMMA InvariantIsSound == IInv => StorefrontIsSound
<1> SUFFICES ASSUME IInv PROVE StorefrontIsSound
  OBVIOUS
<1>1. TypeOK
  BY RowsAreNumbers DEF IInv, Typed, RowsExist, TypeOK, ShopRow, ShopStatus, ConnectionRow,
     ChannelRow, LinkStatus, Providers
<1>2. IsFiniteSet(Primary)
  BY RowsAreNumbers, FS_Subset DEF IInv, Primary, Live
<1>3. OnePrimary
  BY <1>2, AtMostOne DEF IInv, UniquePrimary, OnePrimary
<1>4. OneLiveToken
  <2>1. ASSUME NEW s \in DOMAIN shop
        PROVE  Cardinality(LiveConnections(s)) <= 1
    <3>1. IsFiniteSet(LiveConnections(s))
      BY RowsAreNumbers, FS_Subset DEF IInv, LiveConnections
    <3> QED
      BY <3>1, AtMostOne DEF IInv, UniqueConnection
  <2> QED
    BY <2>1 DEF IInv, TokensFollow, OneLiveToken
<1> QED
  BY <1>1, <1>3, <1>4 DEF StorefrontIsSound

\* Whatever requests create, promote and archive at the same time, an organization has one
\* primary shop at most; whoever onboards, disconnects or withdraws the application at the
\* same time, a shop has one usable token at most (ShopsService, WhatsAppChannelsService).
THEOREM OneShopOneToken == Spec => []StorefrontIsSound
BY StorefrontInvariant, InvariantIsSound, PTL

\* A message of a channel goes out by the connection that the channel was made with, unless
\* the channel was closed after the job had read it (resolveTenantMetaProvider).
THEOREM SendsGoByTheirConnection == Spec => []SendsUseTheirConnection
<1>1. IInv => SendsUseTheirConnection
  BY DEF IInv, ReadsHold, InFlight, SendsUseTheirConnection, At
<1> QED
  BY <1>1, StorefrontInvariant, PTL

-----------------------------------------------------------------------------
(* The primary shop is handed over.                                        *)

\* A step leaves an organization that has live shops without a primary one.
Orphaning == (Live # {} => Primary # {}) /\ Live' # {} /\ Primary' = {}

LEMMA UnchangedShopsOrphanNobody ==
  ASSUME UNCHANGED shop, Orphaning
  PROVE  FALSE
BY DEF Orphaning, Live, Primary

LEMMA OnlyStaleCreationsOrphan ==
  ASSUME IInv, NEW r \in Requests, CreateWrites(r), Orphaning
  PROVE  request'[r] = None /\ IsStale(request[r])
<1> DEFINE wanted == request[r].primary
           new == [status |-> "DRAFT", primary |-> wanted]
<1>1. request[r].op = "create" /\ request[r] \in Request
  BY DEF CreateWrites, At, IInv, Typed
<1>2. shop' = Append(shop, new) /\ Ends(r)
  BY UnchangedShopsOrphanNobody DEF CreateWrites
<1>3. wanted \in BOOLEAN /\ new \in ShopRow
  BY <1>1 DEF Request, ShopRow, ShopStatus
<1>4. /\ DOMAIN shop' = DOMAIN shop \cup {Len(shop) + 1}
      /\ \A s \in DOMAIN shop : shop'[s] = shop[s]
      /\ shop'[Len(shop) + 1] = new
  BY <1>2, <1>3, Appended DEF IInv, Typed
<1>5. ~wanted
  BY <1>4 DEF Orphaning, Primary, Live
<1>6. Primary = {}
  BY <1>4 DEF Orphaning, Primary, Live
<1>7. request'[r] = None
  BY <1>2, EndsOne DEF IInv
<1> QED
  BY <1>1, <1>5, <1>6, <1>7 DEF IsStale

LEMMA TransitionsOrphanNobody ==
  ASSUME IInv, NEW r \in Requests, NEW to \in {"ACTIVE", "INACTIVE"}, TransitionWrites(r, to), Orphaning
  PROVE  FALSE
<1> DEFINE s == request[r].on
<1>1. request[r].op = to /\ InFlight(request[r])
  BY DEF TransitionWrites, At, IInv, ReadsHold
<1>2. s \in DOMAIN shop /\ request[r].seen # "ARCHIVED"
  BY <1>1 DEF InFlight, OnShops
<1>3. StillHas(s, request[r].seen) /\ shop' = [shop EXCEPT ![s].status = to]
  BY UnchangedShopsOrphanNobody DEF TransitionWrites
<1>4. /\ \A t \in DOMAIN shop : shop[t] \in ShopRow
      /\ shop[s].status # "ARCHIVED"
  BY <1>2, <1>3, RowsAreNumbers DEF IInv, StillHas
<1>5. /\ DOMAIN shop' = DOMAIN shop
      /\ \A t \in DOMAIN shop :
           shop'[t].primary = shop[t].primary
           /\ (shop'[t].status = "ARCHIVED" <=> shop[t].status = "ARCHIVED")
  BY <1>3, <1>4 DEF ShopRow
<1>6. Live' = Live /\ Primary' = Primary
  BY <1>5 DEF Primary, Live
<1> QED
  BY <1>6 DEF Orphaning

LEMMA PromotionsOrphanNobody ==
  ASSUME IInv, NEW r \in Requests, SetPrimaryWrites(r), Orphaning
  PROVE  FALSE
<1> DEFINE s == request[r].on
<1>1. request[r].op = "setPrimary" /\ InFlight(request[r]) /\ shop' = HandOver(s)
  BY DEF SetPrimaryWrites, At, IInv, ReadsHold
<1>2. s \in DOMAIN shop /\ shop[s] \in ShopRow
  BY <1>1, RowsAreNumbers DEF InFlight, OnShops, IInv
<1>3. /\ shop[s].status # "ARCHIVED"
      /\ shop' = [t \in DOMAIN shop |-> [shop[t] EXCEPT !.primary = t = s]]
  BY <1>1, UnchangedShopsOrphanNobody DEF HandOver
<1>4. s \in DOMAIN shop' /\ shop'[s].status = shop[s].status /\ shop'[s].primary = TRUE
  BY <1>2, <1>3 DEF ShopRow
<1> QED
  BY <1>3, <1>4 DEF Orphaning, Primary, Live

LEMMA OnlyStaleArchivesOrphan ==
  ASSUME IInv, NEW r \in Requests, ArchiveCommits(r), Orphaning
  PROVE  request'[r] = None /\ IsStale(request[r])
<1> DEFINE s == request[r].on
           next == request[r].next
<1>1. Ends(r) /\ request[r].op = "archive" /\ request[r] \in Request /\ InFlight(request[r])
  BY DEF ArchiveCommits, At, IInv, Typed, ReadsHold
<1>2. s \in DOMAIN shop /\ next \in Nat
  BY <1>1 DEF InFlight, OnShops, Request
<1>3. shop' = Archived(s, next)
  BY UnchangedShopsOrphanNobody DEF ArchiveCommits
<1>4. /\ Live' = Live \ {s}
      /\ \A t \in Live \ {s} : t \in Primary' <=> shop[t].primary \/ t = next
  BY <1>2, <1>3, ArchiveLeaves
<1>5. request'[r] = None
  BY <1>1, EndsOne DEF IInv
<1>6. CASE ~shop[s].primary
  <2>1. PICK p \in Primary : TRUE
    BY <1>4 DEF Orphaning
  <2>2. p \in Live \ {s} /\ shop[p].primary
    BY <1>6 DEF Primary
  <2> QED
    BY <1>4, <2>2 DEF Orphaning
<1>7. CASE shop[s].primary
  <2>1. Candidate(s) \in Live \ {s}
    BY <1>4, SuccessorIsLive DEF Orphaning, IInv
  <2>2. next # Candidate(s)
    BY <1>4, <2>1 DEF Orphaning
  <2>3. request[r].primary # shop[s].primary \/ next # (IF request[r].primary THEN Candidate(s) ELSE 0)
    <3>1. shop[s].primary = TRUE /\ request[r].primary \in BOOLEAN
      BY <1>1, <1>2, <1>7, RowsAreNumbers DEF IInv, ShopRow, Request
    <3> QED
      BY <2>2, <3>1
  <2> QED
    BY <1>1, <1>5, <2>3 DEF IsStale
<1> QED
  BY <1>6, <1>7

LEMMA OnlyStaleReadsOrphan ==
  ASSUME IInv, [Next]_vars, Orphaning
  PROVE  \E r \in Requests : request'[r] = None /\ IsStale(request[r])
<1>1. CASE UNCHANGED shop
  BY <1>1, UnchangedShopsOrphanNobody
<1>2. CASE shop' # shop
  <2>1. PICK r \in Requests : ShopStep(r) \/ ChannelSteps(r)
    BY <1>2 DEF Next, vars
  <2>2. \/ CreateWrites(r) \/ SetPrimaryWrites(r) \/ ArchiveCommits(r)
        \/ \E to \in {"ACTIVE", "INACTIVE"} : TransitionWrites(r, to)
    BY <1>2, <2>1 DEF ShopStep, ShopSteps, Fails, ChannelSteps, StartCreate, StartTransition,
       StartSetPrimary, StartArchive, ArchiveWrites, StartConnect, ConnectReads, ConnectWrites,
       StartOnboard, OnboardReads, OnboardWrites, StartDisconnect, DisconnectWrites,
       StartDeauthorize, DeauthorizeWrites, StartSend, SendResolves, SendCalls
  <2> QED
    BY <2>2, OnlyStaleCreationsOrphan, TransitionsOrphanNobody, PromotionsOrphanNobody,
       OnlyStaleArchivesOrphan
<1> QED
  BY <1>1, <1>2

\* An organization that has live shops keeps a primary one, unless what a request had read
\* was out of date when it wrote (setPrimary, archive).
THEOREM PrimaryIsInherited == Spec => PrimaryIsHandedOver
<1>1. IInv /\ [Next]_vars =>
        [(Live # {} => Primary # {}) /\ Live' # {} /\ Primary' = {}
           => \E r \in Requests : request'[r] = None /\ IsStale(request[r])]_vars
  BY OnlyStaleReadsOrphan DEF Orphaning
<1> QED
  BY <1>1, StorefrontInvariant, PTL DEF Spec, PrimaryIsHandedOver

-----------------------------------------------------------------------------
(* The thread.                                                             *)

Message == RowStatus \cup {Absent}

PageRequest ==
  [at : {"NONE", "SENT", "READ", "COMMITTED", "ANSWERED", "REFUSED"}, kind : {"SEND", "RETRY"},
   id : {1}, status : Message, awaited : BOOLEAN]

\* A text keeps the identifier of its first try.
OneId ==
  /\ row[2] = Absent /\ entry[2] = NoEntry /\ fetch.rows[2] = Absent
  /\ \A e \in events : e[2] = 1

\* A message that was delivered stays so: nobody may be ahead of it.
DeliveredIsFinal ==
  \/ entry[1].status = "DELIVERED" \/ (\E e \in events : e[3] = "DELIVERED")
  \/ fetch.rows[1] = "DELIVERED" \/ (\E n \in Sends : sending[n].status = "DELIVERED")
  => row[1] = "DELIVERED"

\* The page waits for request n, which made the entry.
WaitsFor(n) ==
  sending[n].at \in {"SENT", "REFUSED"} /\ sending[n].kind = "SEND" /\ sending[n].awaited

\* As long as the server has no message, only the agent's own entry shows it.
OnlyOwnEntry ==
  row[1] = Absent =>
    /\ events = {} /\ fetch.rows[1] = Absent
    /\ ~entry[1].real
    /\ entry[1].status \in {Absent, "PENDING", "FAILED"}
    /\ entry[1].status = "PENDING" => \E n \in Sends : WaitsFor(n)

\* A request that was carried out, or is to retry, has its message.
HasRow(n) ==
  /\ sending[n].at \in {"READ", "COMMITTED", "ANSWERED"} => row[1] # Absent
  /\ sending[n].at # "NONE" /\ sending[n].kind = "RETRY" => row[1] # Absent
  /\ sending[n].at = "ANSWERED" => sending[n].status \in RowStatus

\* Requests are numbered in their order.
RequestsAreSound ==
  \A n \in Sends : HasRow(n) /\ (n > sends => sending[n] = NoRequest)

Told(s) == \E k \in Kinds : <<k, 1, s>> \in events

Behind == row[1] # Absent /\ entry[1].status \notin {row[1], "FAILED"} /\ blind[1] = {}

\* The row's status is told, or will be: what a commit wrote is told of before anything
\* but a status that is told itself changes it.
IsTold ==
  \/ Told(row[1])
  \/ row[1] = "PENDING" /\ \E n \in Sends : sending[n].at = "COMMITTED"

\* An entry that is behind for no known cause catches up: a fetch is or will be under
\* way, a failure is still to be heard, or the row's status is and will be taken.
Excused ==
  Behind =>
    \/ fetch.at # "NONE" \/ link # "UP"
    \/ Told("FAILED")
    \/ /\ IsTold
       /\ entry[1].status = Absent \/ IsStatusUpgrade(entry[1].status, row[1])

ThreadForms ==
  /\ ThreadTypeOK
  /\ sending \in [Sends -> PageRequest] /\ fetch.rows \in [Ids -> Message]

ThreadInv ==
  /\ ThreadForms /\ OneId /\ DeliveredIsFinal /\ OnlyOwnEntry /\ RequestsAreSound /\ Excused

\* The order of the statuses.
LEMMA Ranks ==
  /\ StatusRank["PENDING"] = 0 /\ StatusRank["SENT"] = 2 /\ StatusRank["DELIVERED"] = 3
  /\ RowStatus = {"PENDING", "SENT", "DELIVERED", "FAILED"}
<1>1. DOMAIN StatusRank = {"PENDING", "SENT", "DELIVERED"}
  BY DEF StatusRank
<1> QED
  BY <1>1 DEF StatusRank, RowStatus

\* Which status may follow which.
LEMMA Upgrades ==
  ASSUME NEW a \in RowStatus, NEW b \in RowStatus
  PROVE  IsStatusUpgrade(a, b) <=>
           \/ a = "PENDING" /\ b \in {"SENT", "DELIVERED", "FAILED"}
           \/ a = "SENT" /\ b \in {"DELIVERED", "FAILED"}
  BY Ranks DEF IsStatusUpgrade

\* What a step that explains itself leaves unexplained.
LEMMA Explained ==
  ASSUME ThreadForms, NEW causes \in SUBSET Causes, Explains(1, causes)
  PROVE  /\ blind' \in [Ids -> SUBSET Causes]
         /\ blind'[1] = IF entry'[1].status = row'[1] THEN {} ELSE blind[1] \cup causes
  BY DEF ThreadForms, ThreadTypeOK, Explains, Ids

\* A step with no cause of its own leaves what was told before.
LEMMA ExplainedBefore ==
  ASSUME ThreadForms, Explains(1, {})
  PROVE  /\ blind' \in [Ids -> SUBSET Causes]
         /\ blind'[1] = IF entry'[1].status = row'[1] THEN {} ELSE blind[1]
<1>1. {} \in SUBSET Causes
  OBVIOUS
<1> QED
  BY <1>1, Explained

\* What a merge leaves, and a patch.
LEMMA Merges ==
  ASSUME NEW old, old.status \in Message, NEW s \in RowStatus
  PROVE  Merged(old, s) = IF old.status = Absent \/ IsStatusUpgrade(old.status, s)
                          THEN s ELSE old.status
  BY DEF Merged

\* What a status event, or an error, leaves of the entry.
LEMMA Patches ==
  ASSUME ThreadForms, NEW s \in RowStatus
  PROVE  /\ Patched(1, s) \in [Ids -> [status : Message, real : BOOLEAN]]
         /\ Patched(1, s)[2] = entry[2]
         /\ Patched(1, s)[1].real = entry[1].real
         /\ Patched(1, s)[1].status =
              IF entry[1].status # Absent /\ IsStatusUpgrade(entry[1].status, s)
              THEN s ELSE entry[1].status
<1>1. entry \in [Ids -> [status : Message, real : BOOLEAN]]
  BY DEF ThreadForms, ThreadTypeOK, Message
<1>2. 1 \in Ids /\ 2 \in Ids
  BY DEF Ids
<1> QED
  BY <1>1, <1>2 DEF Patched, Message

\* One request changes.
LEMMA Slot ==
  ASSUME ThreadForms, NEW n \in Sends, NEW q \in PageRequest,
         sending' = [sending EXCEPT ![n] = q]
  PROVE  /\ sending' \in [Sends -> PageRequest] /\ sending'[n] = q
         /\ \A k \in Sends \ {n} : sending'[k] = sending[k]
  BY DEF ThreadForms

\* What is of the form of the proof is of the type of the module.
LEMMA RequestTypes ==
  ASSUME NEW f \in [Sends -> PageRequest]
  PROVE  f \in [Sends -> SendRequest]
<1> SUFFICES ASSUME NEW q \in PageRequest
             PROVE  q \in SendRequest
  OBVIOUS
<1>1. {1} \subseteq Ids
  BY DEF Ids
<1> QED
  BY <1>1 DEF SendRequest, PageRequest, Message

\* Nobody waits, and nothing goes on.
LEMMA NothingAsked == NoRequest \in PageRequest
  BY DEF NoRequest, PageRequest, Message

\* A request under way is one of the text, and has its number.
LEMMA UnderWay ==
  ASSUME ThreadInv, NEW n \in Sends
  PROVE  /\ sending[n] \in PageRequest /\ sending[n].id = 1
         /\ sending[n].at # "NONE" => n <= sends
         /\ sends \in 0 .. MaxSends
<1>1. sending[n] \in PageRequest /\ sends \in 0 .. MaxSends
  BY DEF ThreadInv, ThreadForms, ThreadTypeOK
<1>2. ASSUME n > sends
      PROVE  sending[n].at = "NONE"
  BY <1>2 DEF ThreadInv, RequestsAreSound, NoRequest
<1>3. n \in Nat /\ sends \in Nat
  BY <1>1, ThreadAssumption DEF Sends, ThreadAssumption
<1> QED
  BY <1>1, <1>2, <1>3 DEF PageRequest

\* The request that comes next takes a number of its own.
LEMMA Asked ==
  ASSUME ThreadInv, NEW kind \in {"SEND", "RETRY"}, NEW awaited \in BOOLEAN,
         Asks(kind, 1, awaited)
  PROVE  \E n \in Sends, q \in PageRequest :
           /\ sending' = [sending EXCEPT ![n] = q] /\ sending[n] = NoRequest
           /\ q = [at |-> "SENT", kind |-> kind, id |-> 1, status |-> Absent,
                   awaited |-> awaited]
           /\ sends' = n /\ sends' \in sends .. MaxSends
<1> DEFINE n == sends + 1
           q == [at |-> "SENT", kind |-> kind, id |-> 1, status |-> Absent, awaited |-> awaited]
<1>1. sends \in 0 .. MaxSends /\ sends < MaxSends
  BY DEF Asks, ThreadInv, ThreadForms, ThreadTypeOK
<1>2. n \in Sends /\ n > sends /\ n \in sends .. MaxSends
  BY <1>1, ThreadAssumption DEF Sends, ThreadAssumption
<1>3. sending[n] = NoRequest
  BY <1>2 DEF ThreadInv, RequestsAreSound
<1>4. q \in PageRequest
  BY DEF PageRequest, Message
<1>5. sending' = [sending EXCEPT ![n] = q] /\ sends' = n
  BY Zenon DEF Asks
<1> QED
  BY <1>2, <1>3, <1>4, <1>5

\* What one request becomes agrees with the row: what the invariant says of requests.
LEMMA RequestsKeep ==
  ASSUME ThreadInv, NEW n \in Sends, NEW q \in PageRequest,
         sending' = [sending EXCEPT ![n] = q],
         sends' \in sends .. MaxSends, n <= sends',
         row'[1] = Absent => row[1] = Absent,
         q.at \in {"READ", "COMMITTED", "ANSWERED"} => row'[1] # Absent,
         q.at # "NONE" /\ q.kind = "RETRY" => row'[1] # Absent,
         q.at = "ANSWERED" => q.status \in RowStatus
  PROVE  RequestsAreSound'
<1>1. sends \in Nat /\ sends' \in Nat /\ sends <= sends' /\ Sends \subseteq Nat
  BY ThreadAssumption DEF ThreadInv, ThreadForms, ThreadTypeOK, ThreadAssumption, Sends
<1> SUFFICES ASSUME NEW k \in Sends
             PROVE  HasRow(k)' /\ (k > sends' => sending'[k] = NoRequest)
  BY DEF RequestsAreSound
<1>2. CASE k = n
  <2>1. sending'[k] = q
    BY <1>2, Slot DEF ThreadInv
  <2>2. ~(k > sends')
    BY <1>1, <1>2
  <2> QED
    BY <2>1, <2>2 DEF HasRow
<1>3. CASE k # n
  <2>1. sending'[k] = sending[k]
    BY <1>3, Slot DEF ThreadInv
  <2>2. HasRow(k) /\ (k > sends => sending[k] = NoRequest)
    BY DEF ThreadInv, RequestsAreSound
  <2>3. k > sends' => k > sends
    BY <1>1
  <2> QED
    BY <2>1, <2>2, <2>3 DEF HasRow
<1> QED
  BY <1>2, <1>3

\* A step that changes one request, and nothing that is shown, stored or told.
LEMMA RequestStepKeeps ==
  ASSUME ThreadInv, NEW n \in Sends, NEW q \in PageRequest,
         sending' = [sending EXCEPT ![n] = q],
         UNCHANGED <<row, entry, cached, events, fetch, link, blind, own, mishaps>>,
         sends' \in sends .. MaxSends, n <= sends',
         q.status = "DELIVERED" => row[1] = "DELIVERED",
         row[1] = Absent /\ WaitsFor(n)
           => q.at \in {"SENT", "REFUSED"} /\ q.kind = "SEND" /\ q.awaited,
         q.at \in {"READ", "COMMITTED", "ANSWERED"} => row[1] # Absent,
         q.at # "NONE" /\ q.kind = "RETRY" => row[1] # Absent,
         q.at = "ANSWERED" => q.status \in RowStatus,
         sending[n].at = "COMMITTED" => q.at = "COMMITTED"
  PROVE  ThreadInv'
<1>1. /\ sending' \in [Sends -> PageRequest] /\ sending'[n] = q
      /\ \A k \in Sends \ {n} : sending'[k] = sending[k]
  BY Slot DEF ThreadInv
<1>2. /\ row' = row /\ entry' = entry /\ cached' = cached /\ events' = events
      /\ fetch' = fetch /\ link' = link /\ blind' = blind /\ own' = own /\ mishaps' = mishaps
  OBVIOUS
<1>3. ThreadForms'
  <2>1. sends' \in 0 .. MaxSends
    BY ThreadAssumption DEF ThreadAssumption, ThreadInv, ThreadForms, ThreadTypeOK
  <2>2. sending' \in [Sends -> SendRequest]
    BY <1>1, RequestTypes
  <2> QED
    BY <1>1, <1>2, <2>1, <2>2 DEF ThreadInv, ThreadForms, ThreadTypeOK
<1>4. OneId'
  BY <1>2 DEF ThreadInv, OneId
<1>5. DeliveredIsFinal'
  BY <1>1, <1>2 DEF ThreadInv, DeliveredIsFinal
<1>6. OnlyOwnEntry'
  <2>1. ASSUME row[1] = Absent, NEW k \in Sends, WaitsFor(k)
        PROVE  WaitsFor(k)'
    <3>1. CASE k = n
      BY <1>1, <2>1, <3>1 DEF WaitsFor
    <3>2. CASE k # n
      <4>1. sending'[k] = sending[k]
        BY <1>1, <3>2
      <4> QED
        BY <2>1, <4>1 DEF WaitsFor
    <3> QED
      BY <3>1, <3>2
  <2>2. SUFFICES ASSUME row[1] = Absent, entry[1].status = "PENDING"
                 PROVE  (\E k \in Sends : WaitsFor(k))'
    BY <1>2 DEF ThreadInv, OnlyOwnEntry
  <2>3. \E k \in Sends : WaitsFor(k)
    BY <2>2 DEF ThreadInv, OnlyOwnEntry
  <2> QED
    BY <2>1, <2>2, <2>3
<1>7. RequestsAreSound'
  BY <1>2, RequestsKeep
<1>8. Excused'
  <2>1. ASSUME NEW k \in Sends, sending[k].at = "COMMITTED"
        PROVE  sending'[k].at = "COMMITTED"
    BY <1>1, <2>1
  <2>2. IsTold => IsTold'
    BY <1>2, <2>1 DEF IsTold, Told
  <2> QED
    BY <1>2, <2>2 DEF ThreadInv, Excused, Behind, Told
<1> QED
  BY <1>3, <1>4, <1>5, <1>6, <1>7, <1>8 DEF ThreadInv

\* The agent writes the text, ...
LEMMA WriteKeeps ==
  ASSUME ThreadInv, Write
  PROVE  ThreadInv'
<1>1. PICK n \in Sends, q \in PageRequest :
        /\ sending' = [sending EXCEPT ![n] = q]
        /\ q = [at |-> "SENT", kind |-> "SEND", id |-> 1, status |-> Absent, awaited |-> TRUE]
        /\ sends' = n /\ sends' \in sends .. MaxSends
  <2>1. Asks("SEND", 1, TRUE) /\ TRUE \in BOOLEAN
    BY DEF Write
  <2> QED
    BY <2>1, Asked
<1>2. /\ row[1] = Absent
      /\ UNCHANGED <<row, events, fetch, link, own, mishaps>> /\ cached' = TRUE
      /\ entry' = [entry EXCEPT ![1] = [status |-> "PENDING", real |-> FALSE]]
      /\ Explains(1, {})
  BY DEF Write
<1>3. /\ blind' \in [Ids -> SUBSET Causes]
      /\ blind'[1] = IF entry'[1].status = row'[1] THEN {} ELSE blind[1]
  BY <1>2, ExplainedBefore DEF ThreadInv
<1>4. /\ entry' \in [Ids -> [status : Message, real : BOOLEAN]]
      /\ entry'[1] = [status |-> "PENDING", real |-> FALSE] /\ entry'[2] = entry[2]
  BY <1>2, Ranks DEF ThreadInv, ThreadForms, ThreadTypeOK, Ids, Message
<1>5. /\ sending' \in [Sends -> PageRequest] /\ sending'[n] = q
      /\ \A k \in Sends \ {n} : sending'[k] = sending[k]
  BY <1>1, Slot DEF ThreadInv
<1>6. ThreadForms'
  <2>1. sends' \in 0 .. MaxSends
    BY <1>1, ThreadAssumption DEF ThreadAssumption, ThreadInv, ThreadForms, ThreadTypeOK
  <2>2. sending' \in [Sends -> SendRequest]
    BY <1>5, RequestTypes
  <2> QED
    BY <1>2, <1>3, <1>4, <1>5, <2>1, <2>2 DEF ThreadInv, ThreadForms, ThreadTypeOK, Message
<1>7. OneId'
  BY <1>2, <1>4 DEF ThreadInv, OneId
<1>8. DeliveredIsFinal'
  BY <1>1, <1>2, <1>4, <1>5 DEF ThreadInv, DeliveredIsFinal, Absent
<1>9. OnlyOwnEntry'
  <2>1. WaitsFor(n)'
    BY <1>1, <1>5 DEF WaitsFor
  <2> QED
    BY <1>2, <1>4, <2>1 DEF ThreadInv, OnlyOwnEntry
<1>10. RequestsAreSound'
  <2>1. /\ n <= sends' /\ row'[1] = row[1]
        /\ q.at = "SENT" /\ q.kind = "SEND"
    BY <1>1, <1>2, ThreadAssumption DEF Sends, ThreadAssumption
  <2> QED
    BY <1>1, <2>1, RequestsKeep
<1>11. Excused'
  BY <1>2 DEF Excused, Behind
<1> QED
  BY <1>6, <1>7, <1>8, <1>9, <1>10, <1>11 DEF ThreadInv

\* ... sends it again, ...
LEMMA ResendKeeps ==
  ASSUME ThreadInv, Resend(1)
  PROVE  ThreadInv'
<1>1. PICK n \in Sends, q \in PageRequest :
        /\ sending' = [sending EXCEPT ![n] = q] /\ sending[n] = NoRequest
        /\ q = [at |-> "SENT", kind |-> "SEND", id |-> 1, status |-> Absent, awaited |-> TRUE]
        /\ sends' = n /\ sends' \in sends .. MaxSends
  <2>1. Asks("SEND", 1, TRUE) /\ TRUE \in BOOLEAN
    BY DEF Resend, SameId
  <2> QED
    BY <2>1, Asked
<1>2. /\ entry[1] = [status |-> "FAILED", real |-> FALSE]
      /\ UNCHANGED <<row, cached, events, fetch, link, own, mishaps>>
      /\ entry' = [entry EXCEPT ![1] = [status |-> Merged(entry[1], "PENDING"), real |-> FALSE]]
      /\ Explains(1, {})
  BY DEF Resend, SameId
<1>3. entry' = entry
  <2>1. entry[1].status = "FAILED"
    BY <1>2
  <2>2. Merged(entry[1], "PENDING") = "FAILED"
    BY <2>1 DEF Merged, Absent, IsStatusUpgrade
  <2>3. entry \in [Ids -> [status : Message, real : BOOLEAN]] /\ 1 \in Ids
    BY DEF ThreadInv, ThreadForms, ThreadTypeOK, Ids, Message
  <2> QED
    BY <1>2, <2>2, <2>3
<1>4. /\ blind' \in [Ids -> SUBSET Causes]
      /\ blind'[1] = IF entry[1].status = row[1] THEN {} ELSE blind[1]
  BY <1>2, <1>3, ExplainedBefore DEF ThreadInv
<1>5. /\ sending' \in [Sends -> PageRequest] /\ sending'[n] = q
      /\ \A k \in Sends \ {n} : sending'[k] = sending[k]
  BY <1>1, Slot DEF ThreadInv
<1>6. ThreadForms'
  <2>1. sends' \in 0 .. MaxSends
    BY <1>1, ThreadAssumption DEF ThreadAssumption, ThreadInv, ThreadForms, ThreadTypeOK
  <2>2. sending' \in [Sends -> SendRequest]
    BY <1>5, RequestTypes
  <2> QED
    BY <1>2, <1>3, <1>4, <1>5, <2>1, <2>2 DEF ThreadInv, ThreadForms, ThreadTypeOK
<1>7. OneId'
  BY <1>2, <1>3 DEF ThreadInv, OneId
<1>8. DeliveredIsFinal'
  BY <1>1, <1>2, <1>3, <1>5 DEF ThreadInv, DeliveredIsFinal, Absent
<1>9. OnlyOwnEntry'
  BY <1>2, <1>3 DEF ThreadInv, OnlyOwnEntry
<1>10. RequestsAreSound'
  <2>1. /\ n <= sends' /\ row'[1] = row[1]
        /\ q.at = "SENT" /\ q.kind = "SEND"
    BY <1>1, <1>2, ThreadAssumption DEF Sends, ThreadAssumption
  <2> QED
    BY <1>1, <2>1, RequestsKeep
<1>11. Excused'
  BY <1>2, <1>3 DEF Excused, Behind
<1> QED
  BY <1>6, <1>7, <1>8, <1>9, <1>10, <1>11 DEF ThreadInv

\* ... or has the server retry it, as a colleague may.
LEMMA AskRetryKeeps ==
  ASSUME ThreadInv, AskRetry(1) \/ AskRetryElsewhere(1)
  PROVE  ThreadInv'
<1>1. PICK awaited \in BOOLEAN : Asks("RETRY", 1, awaited)
  BY DEF AskRetry, AskRetryElsewhere
<1>2. PICK n \in Sends, q \in PageRequest :
        /\ sending' = [sending EXCEPT ![n] = q] /\ sending[n] = NoRequest
        /\ q = [at |-> "SENT", kind |-> "RETRY", id |-> 1, status |-> Absent,
                awaited |-> awaited]
        /\ sends' = n /\ sends' \in sends .. MaxSends
  BY <1>1, Asked
<1>3. UNCHANGED <<row, entry, cached, events, fetch, link, blind, own, mishaps>>
  BY DEF AskRetry, AskRetryElsewhere
<1>4. row[1] # Absent
  <2>1. CASE AskRetry(1)
    <3>1. entry[1].real
      BY <2>1 DEF AskRetry
    <3> QED
      BY <3>1 DEF ThreadInv, OnlyOwnEntry
  <2>2. CASE AskRetryElsewhere(1)
    BY <2>2 DEF AskRetryElsewhere, Absent
  <2> QED
    BY <2>1, <2>2
<1>5. /\ q.at = "SENT" /\ q.kind = "RETRY" /\ q.status = Absent
      /\ sending[n].at = "NONE" /\ n <= sends'
  BY <1>2, ThreadAssumption DEF NoRequest, Sends, ThreadAssumption
<1>6. q.status # "DELIVERED"
  BY <1>5 DEF Absent
<1> QED
  BY <1>2, <1>3, <1>4, <1>5, <1>6, RequestStepKeeps

\* The server looks at the message to retry, ...
LEMMA ReadRetryKeeps ==
  ASSUME ThreadInv, NEW n \in Sends, ReadRetry(n)
  PROVE  ThreadInv'
<1> DEFINE q == [sending[n] EXCEPT !.at = "READ"]
<1>1. /\ sending[n] \in PageRequest /\ sending[n].id = 1 /\ sends \in 0 .. MaxSends
      /\ sending[n].at = "SENT" /\ sending[n].kind = "RETRY" /\ n <= sends
      /\ row[1] = "FAILED"
      /\ UNCHANGED <<row, entry, cached, events, fetch, link, blind, own, mishaps>>
      /\ sends' = sends /\ sending' = [sending EXCEPT ![n] = q]
  BY UnderWay DEF ReadRetry
<1>2. /\ q \in PageRequest /\ q.at = "READ" /\ q.kind = "RETRY"
      /\ q.status = sending[n].status
  BY <1>1 DEF PageRequest
<1>3. sends' \in sends .. MaxSends /\ n <= sends' /\ row[1] # Absent
  BY <1>1, ThreadAssumption DEF ThreadAssumption, Absent
<1>4. q.status = "DELIVERED" => row[1] = "DELIVERED"
  BY <1>2 DEF ThreadInv, DeliveredIsFinal
<1> HIDE DEF q
<1> QED
  BY <1>1, <1>2, <1>3, <1>4, RequestStepKeeps

\* ... makes the message, or puts it back in the queue, ...
LEMMA CommitKeeps ==
  ASSUME ThreadInv, NEW n \in Sends, Commit(n)
  PROVE  ThreadInv'
<1> DEFINE q == [sending[n] EXCEPT !.at = "COMMITTED"]
<1>1. /\ sending[n] \in PageRequest /\ sending[n].id = 1 /\ sends \in 0 .. MaxSends
      /\ row[1] \in {Absent, "FAILED"}
      /\ row[1] = Absent => sending[n].kind = "SEND"
      /\ sending[n].at # "NONE"
      /\ UNCHANGED <<entry, cached, events, fetch, link, own, sends, mishaps>>
      /\ row' = [row EXCEPT ![1] = "PENDING"] /\ Explains(1, {})
      /\ sending' = [sending EXCEPT ![n] = q]
  BY UnderWay DEF Commit, StillFailed, Absent
<1>2. n <= sends
  BY <1>1, UnderWay
<1>3. /\ q \in PageRequest /\ q.at = "COMMITTED" /\ q.status = sending[n].status
  BY <1>1 DEF PageRequest
<1>4. row'[1] = "PENDING" /\ row'[2] = row[2] /\ row' \in [Ids -> Message]
  BY <1>1, Ranks DEF ThreadInv, ThreadForms, ThreadTypeOK, Ids, Message
<1>5. /\ blind' \in [Ids -> SUBSET Causes]
      /\ blind'[1] = IF entry'[1].status = row'[1] THEN {} ELSE blind[1]
  BY <1>1, ExplainedBefore DEF ThreadInv
<1> HIDE DEF q
<1>6. /\ sending' \in [Sends -> PageRequest] /\ sending'[n] = q
      /\ \A k \in Sends \ {n} : sending'[k] = sending[k]
  BY <1>1, <1>3, Slot DEF ThreadInv
<1>7. ThreadForms'
  <2>1. sending' \in [Sends -> SendRequest]
    BY <1>6, RequestTypes
  <2> QED
    BY <1>1, <1>4, <1>5, <1>6, <2>1 DEF ThreadInv, ThreadForms, ThreadTypeOK, Message
<1>8. OneId'
  BY <1>1, <1>4 DEF ThreadInv, OneId
<1>9. DeliveredIsFinal'
  BY <1>1, <1>3, <1>6 DEF ThreadInv, DeliveredIsFinal, Absent
<1>10. OnlyOwnEntry'
  BY <1>4 DEF OnlyOwnEntry, Absent
<1>11. RequestsAreSound'
  <2>1. /\ sends' \in sends .. MaxSends /\ n <= sends' /\ row'[1] # Absent
    BY <1>1, <1>2, <1>4, ThreadAssumption DEF ThreadAssumption, Absent
  <2> QED
    BY <1>1, <1>3, <2>1, RequestsKeep
<1>12. Excused'
  <2>1. IsTold'
    BY <1>3, <1>4, <1>6 DEF IsTold
  <2>2. CASE row[1] = Absent
    <3>1. entry[1].status \in {Absent, "PENDING", "FAILED"}
      BY <2>2 DEF ThreadInv, OnlyOwnEntry
    <3> QED
      BY <1>1, <1>4, <2>1, <3>1 DEF Excused, Behind
  <2>3. CASE row[1] = "FAILED"
    <3>1. Behind' => Behind
      BY <1>1, <1>4, <1>5, <2>3 DEF Behind, Absent
    <3>2. IsTold => Told("FAILED")
      BY <2>3 DEF IsTold
    <3> QED
      BY <1>1, <3>1, <3>2 DEF ThreadInv, Excused, Told
  <2> QED
    BY <1>1, <2>2, <2>3
<1> QED
  BY <1>7, <1>8, <1>9, <1>10, <1>11, <1>12 DEF ThreadInv

\* What becomes of a request that is carried out or refused.
LEMMA AnswersEffect ==
  ASSUME ThreadInv, NEW n \in Sends, NEW at \in {"ANSWERED", "REFUSED"}, NEW s \in Message,
         Answers(n, at, s)
  PROVE  \E q \in PageRequest :
           /\ sending' = [sending EXCEPT ![n] = q]
           /\ \/ q.at = at /\ q.status = s /\ q.kind = sending[n].kind /\ q.awaited
              \/ q = NoRequest /\ ~sending[n].awaited
<1>1. sending[n] \in PageRequest
  BY UnderWay
<1>2. CASE sending[n].awaited
  <2> DEFINE q == [sending[n] EXCEPT !.at = at, !.status = s]
  <2>1. /\ q \in PageRequest /\ q.at = at /\ q.status = s /\ q.kind = sending[n].kind
        /\ q.awaited = sending[n].awaited
    BY <1>1 DEF PageRequest
  <2>2. sending' = [sending EXCEPT ![n] = q]
    BY <1>2 DEF Answers
  <2> HIDE DEF q
  <2> QED
    BY <1>2, <2>1, <2>2
<1>3. CASE ~sending[n].awaited
  <2>1. sending' = [sending EXCEPT ![n] = NoRequest]
    BY <1>3 DEF Answers
  <2> QED
    BY <1>3, <2>1, NothingAsked
<1> QED
  BY <1>2, <1>3

\* ... tells of it and answers, ...
LEMMA FinalizeOutboundKeeps ==
  ASSUME ThreadInv, NEW n \in Sends, FinalizeOutbound(n)
  PROVE  ThreadInv'
<1>1. /\ sending[n] \in PageRequest /\ sending[n].id = 1 /\ sends \in 0 .. MaxSends
      /\ sending[n].at = "COMMITTED" /\ n <= sends
      /\ UNCHANGED <<row, entry, cached, fetch, link, blind, own, sends, mishaps>>
      /\ Answers(n, "ANSWERED", row[1])
  BY UnderWay DEF FinalizeOutbound
<1>2. row[1] \in RowStatus /\ row[1] \in Message /\ row[1] # Absent
  BY <1>1 DEF ThreadInv, RequestsAreSound, HasRow, ThreadForms, ThreadTypeOK, Ids, Message
<1>3. PICK k \in Kinds : events' = events \cup {<<k, 1, row[1]>>}
  BY <1>1 DEF FinalizeOutbound, Tells, Kinds
<1>4. PICK q \in PageRequest :
        /\ sending' = [sending EXCEPT ![n] = q]
        /\ \/ q.at = "ANSWERED" /\ q.status = row[1]
           \/ q = NoRequest
  BY <1>1, <1>2, AnswersEffect
<1>5. /\ sending' \in [Sends -> PageRequest] /\ sending'[n] = q
      /\ \A j \in Sends \ {n} : sending'[j] = sending[j]
  BY <1>4, Slot DEF ThreadInv
<1>6. ThreadForms'
  <2>1. sending' \in [Sends -> SendRequest]
    BY <1>5, RequestTypes
  <2>2. events' \subseteq Kinds \X Ids \X RowStatus
    BY <1>2, <1>3 DEF ThreadInv, ThreadForms, ThreadTypeOK, Ids
  <2> QED
    BY <1>1, <1>5, <2>1, <2>2 DEF ThreadInv, ThreadForms, ThreadTypeOK
<1>7. OneId'
  BY <1>1, <1>3 DEF ThreadInv, OneId
<1>8. DeliveredIsFinal'
  BY <1>1, <1>3, <1>4, <1>5 DEF ThreadInv, DeliveredIsFinal, NoRequest, Absent
<1>9. OnlyOwnEntry'
  BY <1>1, <1>2 DEF OnlyOwnEntry
<1>10. RequestsAreSound'
  <2>1. /\ sends' \in sends .. MaxSends /\ n <= sends' /\ row'[1] = row[1]
    BY <1>1, ThreadAssumption DEF ThreadAssumption
  <2>2. q.at = "ANSWERED" => q.status \in RowStatus
    BY <1>2, <1>4 DEF NoRequest
  <2> QED
    BY <1>2, <1>4, <2>1, <2>2, RequestsKeep DEF NoRequest
<1>11. Excused'
  <2>1. Told(row[1])'
    BY <1>1, <1>3 DEF Told
  <2>2. IsTold'
    BY <1>1, <2>1 DEF IsTold
  <2>3. Told("FAILED") => Told("FAILED")'
    BY <1>3 DEF Told
  <2> QED
    BY <1>1, <2>2, <2>3 DEF ThreadInv, Excused, Behind
<1> QED
  BY <1>6, <1>7, <1>8, <1>9, <1>10, <1>11 DEF ThreadInv

\* ... finds it there already, ...
LEMMA AnswerExistingKeeps ==
  ASSUME ThreadInv, NEW n \in Sends, AnswerExisting(n)
  PROVE  ThreadInv'
<1>1. /\ sending[n].id = 1 /\ sends \in 0 .. MaxSends
      /\ sending[n].at = "SENT" /\ n <= sends /\ row[1] # Absent
      /\ UNCHANGED <<row, entry, cached, events, fetch, link, blind, own, mishaps>>
      /\ sends' = sends /\ Answers(n, "ANSWERED", row[1])
  BY UnderWay DEF AnswerExisting
<1>2. row[1] \in RowStatus /\ row[1] \in Message
  BY <1>1 DEF ThreadInv, ThreadForms, ThreadTypeOK, Ids, Message
<1>3. PICK q \in PageRequest :
        /\ sending' = [sending EXCEPT ![n] = q]
        /\ \/ q.at = "ANSWERED" /\ q.status = row[1]
           \/ q = NoRequest
  BY <1>1, <1>2, AnswersEffect
<1>4. /\ q.status = "DELIVERED" => row[1] = "DELIVERED"
      /\ q.at = "ANSWERED" => q.status \in RowStatus
  BY <1>2, <1>3 DEF NoRequest, Absent
<1>5. sends' \in sends .. MaxSends /\ n <= sends'
  BY <1>1, ThreadAssumption DEF ThreadAssumption
<1> QED
  BY <1>1, <1>3, <1>4, <1>5, RequestStepKeeps

\* ... or refuses.
LEMMA RefuseKeeps ==
  ASSUME ThreadInv, NEW n \in Sends, Refuse(n)
  PROVE  ThreadInv'
<1>1. /\ sends \in 0 .. MaxSends
      /\ sending[n].at \in {"SENT", "READ"} /\ n <= sends
      /\ UNCHANGED <<row, entry, cached, events, fetch, link, blind, own, mishaps>>
      /\ sends' = sends /\ Answers(n, "REFUSED", Absent)
  BY UnderWay DEF Refuse
<1>2. Absent \in Message
  BY DEF Message
<1>3. PICK q \in PageRequest :
        /\ sending' = [sending EXCEPT ![n] = q]
        /\ \/ q.at = "REFUSED" /\ q.status = Absent /\ q.kind = sending[n].kind /\ q.awaited
           \/ q = NoRequest /\ ~sending[n].awaited
  BY <1>1, <1>2, AnswersEffect
<1>4. /\ q.status # "DELIVERED" /\ q.at \in {"REFUSED", "NONE"}
      /\ WaitsFor(n) => q.at = "REFUSED" /\ q.kind = "SEND" /\ q.awaited
  BY <1>3 DEF NoRequest, Absent, WaitsFor
<1>5. q.at # "NONE" /\ q.kind = "RETRY" => row[1] # Absent
  BY <1>1, <1>3 DEF NoRequest, ThreadInv, RequestsAreSound, HasRow
<1>6. sends' \in sends .. MaxSends /\ n <= sends'
  BY <1>1, ThreadAssumption DEF ThreadAssumption
<1> QED
  BY <1>1, <1>3, <1>4, <1>5, <1>6, RequestStepKeeps

\* The API may die, and tell nobody of what it did.
LEMMA DiesKeeps ==
  ASSUME ThreadInv, NEW n \in Sends, Dies(n)
  PROVE  ThreadInv'
<1> DEFINE causes == IF sending[n].at = "COMMITTED" THEN {"LOST"} ELSE {}
<1>1. /\ sending[n].id = 1 /\ sends \in 0 .. MaxSends
      /\ ~sending[n].awaited /\ n <= sends
      /\ UNCHANGED <<row, entry, cached, events, fetch, link, own, sends, mishaps>>
      /\ sending' = [sending EXCEPT ![n] = NoRequest]
      /\ Explains(1, causes)
  BY UnderWay DEF Dies
<1>2. causes \in SUBSET Causes
  BY DEF Causes
<1>3. sending[n].at = "COMMITTED" => "LOST" \in causes
  OBVIOUS
<1> HIDE DEF causes
<1>4. /\ blind' \in [Ids -> SUBSET Causes]
      /\ blind'[1] = IF entry'[1].status = row'[1] THEN {} ELSE blind[1] \cup causes
  BY <1>1, <1>2, Explained DEF ThreadInv
<1>5. /\ sending' \in [Sends -> PageRequest] /\ sending'[n] = NoRequest
      /\ \A k \in Sends \ {n} : sending'[k] = sending[k]
  BY <1>1, Slot, NothingAsked DEF ThreadInv
<1>6. ThreadForms'
  <2>1. sending' \in [Sends -> SendRequest]
    BY <1>5, RequestTypes
  <2> QED
    BY <1>1, <1>4, <1>5, <2>1 DEF ThreadInv, ThreadForms, ThreadTypeOK
<1>7. OneId'
  BY <1>1 DEF ThreadInv, OneId
<1>8. DeliveredIsFinal'
  BY <1>1, <1>5 DEF ThreadInv, DeliveredIsFinal, NoRequest, Absent
<1>9. OnlyOwnEntry'
  <2>1. ASSUME NEW k \in Sends, WaitsFor(k)
        PROVE  WaitsFor(k)'
    <3>1. k # n
      BY <1>1, <2>1 DEF WaitsFor
    <3>2. sending'[k] = sending[k]
      BY <1>5, <3>1
    <3> QED
      BY <2>1, <3>2 DEF WaitsFor
  <2> QED
    BY <1>1, <2>1 DEF ThreadInv, OnlyOwnEntry
<1>10. RequestsAreSound'
  <2>1. /\ sends' \in sends .. MaxSends /\ n <= sends' /\ row'[1] = row[1]
    BY <1>1, ThreadAssumption DEF ThreadAssumption
  <2> QED
    BY <1>1, <2>1, RequestsKeep, NothingAsked DEF NoRequest
<1>11. Excused'
  <2> SUFFICES ASSUME Behind'
               PROVE  \/ fetch.at # "NONE" \/ link # "UP"
                      \/ Told("FAILED")
                      \/ /\ IsTold'
                         /\ entry[1].status = Absent \/ IsStatusUpgrade(entry[1].status, row[1])
    BY <1>1 DEF Excused, Told
  <2>1. blind[1] = {} /\ "LOST" \notin causes
    BY <1>4 DEF Behind
  <2>2. Behind
    BY <1>1, <2>1 DEF Behind
  <2>3. ASSUME NEW k \in Sends, sending[k].at = "COMMITTED"
        PROVE  sending'[k].at = "COMMITTED"
    BY <1>3, <1>5, <2>1, <2>3
  <2>4. IsTold => IsTold'
    BY <1>1, <2>3 DEF IsTold, Told
  <2> QED
    BY <2>2, <2>4 DEF ThreadInv, Excused
<1> QED
  BY <1>6, <1>7, <1>8, <1>9, <1>10, <1>11 DEF ThreadInv

\* Somebody else writes it.
LEMMA WrittenElsewhereKeeps ==
  ASSUME ThreadInv, WrittenElsewhere
  PROVE  ThreadInv'
<1>1. /\ row[1] = Absent
      /\ UNCHANGED <<entry, sending, sends, fetch, link>>
      /\ row'[1] = "PENDING" /\ row'[2] = row[2]
      /\ events' = events \cup {<<"CREATED", 1, "PENDING">>}
  BY DEF WrittenElsewhere, Tells, ThreadForms, ThreadTypeOK, Ids, ThreadInv, OneId
<1>2. /\ blind' \in [Ids -> SUBSET Causes]
      /\ blind'[1] = IF entry'[1].status = row'[1] THEN {} ELSE blind[1]
  BY ExplainedBefore DEF WrittenElsewhere, ThreadInv
<1>3. ThreadForms'
  BY <1>1, <1>2, Ranks, ThreadAssumption
     DEF WrittenElsewhere, Tells, ThreadForms, ThreadTypeOK, Ids, ThreadInv, PageRequest,
         Message, Kinds, Links, ThreadAssumption
<1>4. OneId'
  BY <1>1 DEF ThreadInv, OneId
<1>5. DeliveredIsFinal'
  BY <1>1 DEF ThreadInv, DeliveredIsFinal, Absent
<1>6. OnlyOwnEntry'
  BY <1>1 DEF ThreadInv, OnlyOwnEntry, WaitsFor, Absent
<1>7. RequestsAreSound'
  BY <1>1 DEF ThreadInv, RequestsAreSound, HasRow, OnlyOwnEntry, Absent
<1>8. Excused'
  BY <1>1, <1>2, Ranks, Upgrades
     DEF ThreadInv, ThreadForms, Excused, Behind, IsTold, Told, Absent, OnlyOwnEntry,
         ThreadTypeOK, Ids, Message, Kinds
<1> QED
  BY <1>3, <1>4, <1>5, <1>6, <1>7, <1>8 DEF ThreadInv

\* The socket breaks, ...
LEMMA CutKeeps ==
  ASSUME ThreadInv, Disconnect
  PROVE  ThreadInv'
<1>1. /\ UNCHANGED <<row, entry, sending, sends, events, fetch, blind>>
      /\ link' = "DOWN"
  BY DEF Disconnect, ThreadForms, ThreadTypeOK, Ids, ThreadInv, OneId
<1>2. blind' = blind
  BY <1>1
<1>3. ThreadForms'
  BY <1>1, <1>2, Ranks, ThreadAssumption
     DEF Disconnect, ThreadForms, ThreadTypeOK, Ids, ThreadInv, PageRequest, Message, Kinds,
         Links, ThreadAssumption
<1>4. OneId'
  BY <1>1 DEF ThreadInv, OneId
<1>5. DeliveredIsFinal'
  BY <1>1 DEF ThreadInv, DeliveredIsFinal
<1>6. OnlyOwnEntry'
  BY <1>1 DEF ThreadInv, OnlyOwnEntry, WaitsFor, Absent
<1>7. RequestsAreSound'
  BY <1>1 DEF ThreadInv, RequestsAreSound, HasRow, OnlyOwnEntry, Absent
<1>8. Excused'
  BY <1>1, <1>2, Ranks, Upgrades
     DEF ThreadInv, ThreadForms, Excused, Behind, IsTold, Told, Absent, OnlyOwnEntry,
         ThreadTypeOK, Ids, Message, Kinds
<1> QED
  BY <1>3, <1>4, <1>5, <1>6, <1>7, <1>8 DEF ThreadInv

\* ... joins again, ...
LEMMA RejoinKeeps ==
  ASSUME ThreadInv, Rejoin
  PROVE  ThreadInv'
<1>1. /\ UNCHANGED <<row, entry, sending, sends, events, fetch, blind>>
      /\ link' = "JOINED"
  BY DEF Rejoin, ThreadForms, ThreadTypeOK, Ids, ThreadInv, OneId
<1>2. blind' = blind
  BY <1>1
<1>3. ThreadForms'
  BY <1>1, <1>2, Ranks, ThreadAssumption
     DEF Rejoin, ThreadForms, ThreadTypeOK, Ids, ThreadInv, PageRequest, Message, Kinds,
         Links, ThreadAssumption
<1>4. OneId'
  BY <1>1 DEF ThreadInv, OneId
<1>5. DeliveredIsFinal'
  BY <1>1 DEF ThreadInv, DeliveredIsFinal
<1>6. OnlyOwnEntry'
  BY <1>1 DEF ThreadInv, OnlyOwnEntry, WaitsFor, Absent
<1>7. RequestsAreSound'
  BY <1>1 DEF ThreadInv, RequestsAreSound, HasRow, OnlyOwnEntry, Absent
<1>8. Excused'
  BY <1>1, <1>2, Ranks, Upgrades
     DEF ThreadInv, ThreadForms, Excused, Behind, IsTold, Told, Absent, OnlyOwnEntry,
         ThreadTypeOK, Ids, Message, Kinds
<1> QED
  BY <1>3, <1>4, <1>5, <1>6, <1>7, <1>8 DEF ThreadInv

\* ... and the thread is fetched again.
LEMMA ReconcileKeeps ==
  ASSUME ThreadInv, Reconcile
  PROVE  ThreadInv'
<1>1. /\ link = "JOINED"
      /\ UNCHANGED <<row, entry, sending, sends, events, blind>>
      /\ link' = "UP"
      /\ fetch'.at # "NONE" /\ fetch'.rows[2] = Absent
      /\ fetch'.rows[1] \in {fetch.rows[1], Absent}
  BY DEF Reconcile, FetchAsked, NoFetch, ThreadForms, ThreadTypeOK, Ids, ThreadInv, OneId
<1>2. blind' = blind
  BY <1>1
<1>3. ThreadForms'
  BY <1>1, <1>2, Ranks, ThreadAssumption
     DEF Reconcile, FetchAsked, NoFetch, ThreadForms, ThreadTypeOK, Ids, ThreadInv,
         PageRequest, Message, Kinds, Links, ThreadAssumption
<1>4. OneId'
  BY <1>1 DEF ThreadInv, OneId
<1>5. DeliveredIsFinal'
  BY <1>1 DEF ThreadInv, DeliveredIsFinal, Absent
<1>6. OnlyOwnEntry'
  BY <1>1 DEF ThreadInv, OnlyOwnEntry, WaitsFor, Absent
<1>7. RequestsAreSound'
  BY <1>1 DEF ThreadInv, RequestsAreSound, HasRow, OnlyOwnEntry, Absent
<1>8. Excused'
  BY <1>1, <1>2, Ranks, Upgrades
     DEF ThreadInv, ThreadForms, Excused, Behind, IsTold, Told, Absent, OnlyOwnEntry,
         ThreadTypeOK, Ids, Message, Kinds
<1> QED
  BY <1>3, <1>4, <1>5, <1>6, <1>7, <1>8 DEF ThreadInv

\* The fetch reads what the server has.
LEMMA ReadThreadKeeps ==
  ASSUME ThreadInv, ReadThread
  PROVE  ThreadInv'
<1>1. /\ UNCHANGED <<row, entry, sending, sends, events, link, blind>>
      /\ fetch' = [at |-> "READ", rows |-> row]
  BY DEF ReadThread, ThreadForms, ThreadTypeOK, Ids, ThreadInv, OneId
<1>2. blind' = blind
  BY <1>1
<1>3. ThreadForms'
  BY <1>1, <1>2, Ranks, ThreadAssumption
     DEF ReadThread, ThreadForms, ThreadTypeOK, Ids, ThreadInv, PageRequest, Message, Kinds,
         Links, ThreadAssumption
<1>4. OneId'
  BY <1>1 DEF ThreadInv, OneId
<1>5. DeliveredIsFinal'
  BY <1>1 DEF ThreadInv, DeliveredIsFinal
<1>6. OnlyOwnEntry'
  BY <1>1 DEF ThreadInv, OnlyOwnEntry, WaitsFor, Absent
<1>7. RequestsAreSound'
  BY <1>1 DEF ThreadInv, RequestsAreSound, HasRow, OnlyOwnEntry, Absent
<1>8. Excused'
  BY <1>1, <1>2, Ranks, Upgrades
     DEF ThreadInv, ThreadForms, Excused, Behind, IsTold, Told, Absent, OnlyOwnEntry,
         ThreadTypeOK, Ids, Message, Kinds
<1> QED
  BY <1>3, <1>4, <1>5, <1>6, <1>7, <1>8 DEF ThreadInv

\* An answer is merged into the entry, which it may bring or advance.
LEMMA HearAnswerKeeps ==
  ASSUME ThreadInv, NEW n \in Sends, HearAnswer(n)
  PROVE  ThreadInv'
<1> DEFINE s == sending[n].status
           causes == IF IsStatusUpgrade(row[1], s) THEN {"LATE"} ELSE {}
<1>1. /\ sending[n].at = "ANSWERED" /\ sending[n].id = 1 /\ sends \in 0 .. MaxSends
      /\ n <= sends
      /\ UNCHANGED <<row, cached, events, fetch, link, own, sends, mishaps>>
      /\ sending' = [sending EXCEPT ![n] = NoRequest]
  BY UnderWay DEF HearAnswer
<1>2. /\ entry' = [entry EXCEPT ![1] = [status |-> Merged(entry[1], s), real |-> TRUE]]
      /\ Explains(1, causes)
  BY <1>1 DEF HearAnswer, Upserted, Overtakes
<1>3. row[1] # Absent /\ row[1] \in RowStatus /\ s \in RowStatus
  BY <1>1 DEF ThreadInv, RequestsAreSound, HasRow, ThreadForms, ThreadTypeOK, Ids, Message
<1>4. s = "DELIVERED" => row[1] = "DELIVERED"
  BY DEF ThreadInv, DeliveredIsFinal
<1>5. causes \in SUBSET Causes
  BY DEF Causes
<1>6. /\ blind' \in [Ids -> SUBSET Causes]
      /\ blind'[1] = IF entry'[1].status = row'[1] THEN {} ELSE blind[1] \cup causes
  BY <1>2, <1>5, Explained DEF ThreadInv
<1> DEFINE m == Merged(entry[1], s)
<1>7. m = IF entry[1].status = Absent \/ IsStatusUpgrade(entry[1].status, s) THEN s ELSE entry[1].status
  BY <1>3, Merges DEF ThreadInv, ThreadForms, ThreadTypeOK, Message, Ids
<1>8. entry[1].status \in Message /\ m \in Message
  BY <1>3, <1>7 DEF ThreadInv, ThreadForms, ThreadTypeOK, Message, Ids
<1>9. /\ entry' \in [Ids -> [status : Message, real : BOOLEAN]]
      /\ entry'[1] = [status |-> m, real |-> TRUE] /\ entry'[2] = entry[2]
  BY <1>2, <1>8 DEF ThreadInv, ThreadForms, ThreadTypeOK, Message, Ids
<1>10. /\ sending' \in [Sends -> PageRequest] /\ sending'[n] = NoRequest
       /\ \A k \in Sends \ {n} : sending'[k] = sending[k]
  BY <1>1, Slot, NothingAsked DEF ThreadInv
<1>11. IsStatusUpgrade(row[1], s) => "LATE" \in causes
  OBVIOUS
<1> HIDE DEF m, s, causes
<1>12. ThreadForms'
  <2>1. sending' \in [Sends -> SendRequest]
    BY <1>10, RequestTypes
  <2> QED
    BY <1>1, <1>6, <1>9, <1>10, <2>1 DEF ThreadInv, ThreadForms, ThreadTypeOK, Message
<1>13. OneId' /\ OnlyOwnEntry'
  BY <1>1, <1>3, <1>9 DEF ThreadInv, OneId, OnlyOwnEntry
<1>14. DeliveredIsFinal'
  BY <1>1, <1>4, <1>7, <1>9, <1>10 DEF ThreadInv, DeliveredIsFinal, NoRequest, Absent
<1>15. RequestsAreSound'
  <2>1. /\ sends' \in sends .. MaxSends /\ n <= sends' /\ row'[1] = row[1]
    BY <1>1, ThreadAssumption DEF ThreadAssumption
  <2> QED
    BY <1>1, <2>1, RequestsKeep, NothingAsked DEF NoRequest
<1>16. Excused'
  <2> DEFINE e == entry[1].status
  <2>1. e \in RowStatus \cup {Absent}
    BY <1>8 DEF Message
  <2>2. m = IF e = Absent \/ IsStatusUpgrade(e, s) THEN s ELSE e
    BY <1>7
  <2> SUFFICES ASSUME Behind', fetch.at = "NONE", link = "UP", ~Told("FAILED")
               PROVE  IsTold' /\ (m = Absent \/ IsStatusUpgrade(m, row[1]))
    BY <1>1, <1>9 DEF Excused, Told
  <2>3. blind[1] = {} /\ causes = {} /\ m \notin {row[1], "FAILED"}
    <3>1. entry'[1].status = m
      BY <1>9
    <3> QED
      BY <1>1, <1>6, <3>1 DEF Behind
  <2>4. ~IsStatusUpgrade(row[1], s)
    BY <1>11, <2>3
  <2> HIDE DEF e
  <2>5. e \notin {row[1], "FAILED"}
    BY <1>3, <2>1, <2>2, <2>3, <2>4, Ranks, Upgrades DEF Absent
  <2>6. Behind
    BY <1>3, <2>3, <2>5 DEF Behind, e
  <2>7. IsTold /\ (e = Absent \/ IsStatusUpgrade(e, row[1]))
    BY <2>6 DEF ThreadInv, Excused, e
  <2>8. ASSUME NEW k \in Sends, sending[k].at = "COMMITTED"
        PROVE  sending'[k].at = "COMMITTED"
    BY <1>1, <1>10, <2>8
  <2>9. IsTold'
    BY <1>1, <2>7, <2>8 DEF IsTold, Told
  <2>10. m = s => IsStatusUpgrade(m, row[1])
    BY <1>3, <1>4, <2>3, <2>4, Ranks, Upgrades
  <2> QED
    BY <2>2, <2>7, <2>9, <2>10
<1> QED
  BY <1>12, <1>13, <1>14, <1>15, <1>16 DEF ThreadInv

\* A request that failed, for all that the page knows: what is shown of the message, and
\* what the request becomes, which may still be carried out.
LEMMA ErrorKeeps ==
  ASSUME ThreadInv, NEW n \in Sends, AfterError(n), NEW q \in PageRequest,
         sending' = [sending EXCEPT ![n] = q], mishaps' \in 0 .. MaxMishaps,
         sending[n].at # "NONE",
         q = NoRequest \/ (q.at = sending[n].at /\ q.status = sending[n].status
                             /\ q.kind = sending[n].kind),
         sending[n].at = "COMMITTED" => q.at = "COMMITTED"
  PROVE  ThreadInv'
<1>1. /\ sending[n] \in PageRequest /\ sending[n].id = 1 /\ n <= sends
      /\ sends \in 0 .. MaxSends
      /\ UNCHANGED <<row, cached, events, fetch, link, own, sends>>
      /\ entry' = IF sending[n].kind = "SEND" THEN Patched(1, "FAILED") ELSE entry
      /\ Explains(1, {})
  BY UnderWay DEF AfterError
<1>2. /\ blind' \in [Ids -> SUBSET Causes]
      /\ blind'[1] = IF entry'[1].status = row'[1] THEN {} ELSE blind[1]
  BY <1>1, ExplainedBefore DEF ThreadInv
<1>3. "FAILED" \in RowStatus
  BY Ranks
<1>4. /\ entry' \in [Ids -> [status : Message, real : BOOLEAN]]
      /\ entry'[2] = entry[2] /\ entry'[1].real = entry[1].real
      /\ entry'[1].status = IF /\ sending[n].kind = "SEND" /\ entry[1].status # Absent
                               /\ IsStatusUpgrade(entry[1].status, "FAILED")
                            THEN "FAILED" ELSE entry[1].status
  BY <1>1, <1>3, Patches DEF ThreadInv, ThreadForms, ThreadTypeOK, Message
<1>5. /\ sending' \in [Sends -> PageRequest] /\ sending'[n] = q
      /\ \A k \in Sends \ {n} : sending'[k] = sending[k]
  BY Slot DEF ThreadInv
<1>6. ThreadForms'
  <2>1. sending' \in [Sends -> SendRequest]
    BY <1>5, RequestTypes
  <2> QED
    BY <1>1, <1>2, <1>4, <1>5, <2>1 DEF ThreadInv, ThreadForms, ThreadTypeOK, Message
<1>7. OneId'
  BY <1>1, <1>4 DEF ThreadInv, OneId
<1>8. DeliveredIsFinal'
  <2>1. q.status = "DELIVERED" => row[1] = "DELIVERED"
    BY DEF ThreadInv, DeliveredIsFinal, NoRequest, Absent
  <2> QED
    BY <1>1, <1>4, <1>5, <2>1 DEF ThreadInv, DeliveredIsFinal
<1>9. OnlyOwnEntry'
  <2> SUFFICES ASSUME row[1] = Absent
               PROVE  /\ events = {} /\ fetch.rows[1] = Absent /\ ~entry[1].real
                      /\ entry'[1].status \in {Absent, "FAILED"}
    BY <1>1, <1>4 DEF OnlyOwnEntry, Absent
  <2>1. /\ events = {} /\ fetch.rows[1] = Absent /\ ~entry[1].real
        /\ entry[1].status \in {Absent, "PENDING", "FAILED"}
    BY DEF ThreadInv, OnlyOwnEntry
  <2>2. sending[n].kind = "SEND"
    BY <1>1 DEF ThreadInv, RequestsAreSound, HasRow, PageRequest
  <2>3. IsStatusUpgrade("PENDING", "FAILED")
    BY Ranks, Upgrades
  <2> QED
    BY <1>4, <2>1, <2>2, <2>3 DEF Absent
<1>10. RequestsAreSound'
  <2>1. /\ sends' \in sends .. MaxSends /\ n <= sends' /\ row'[1] = row[1]
    BY <1>1, ThreadAssumption DEF ThreadAssumption
  <2>2. HasRow(n)
    BY DEF ThreadInv, RequestsAreSound
  <2>3. /\ q.at \in {"READ", "COMMITTED", "ANSWERED"} => row[1] # Absent
        /\ q.at # "NONE" /\ q.kind = "RETRY" => row[1] # Absent
        /\ q.at = "ANSWERED" => q.status \in RowStatus
    BY <2>2 DEF HasRow, NoRequest
  <2> QED
    BY <2>1, <2>3, RequestsKeep
<1>11. Excused'
  <2> SUFFICES ASSUME Behind'
               PROVE  \/ fetch.at # "NONE" \/ link # "UP"
                      \/ Told("FAILED")
                      \/ /\ IsTold'
                         /\ \/ entry'[1].status = Absent
                            \/ IsStatusUpgrade(entry'[1].status, row[1])
    BY <1>1 DEF Excused, Told
  <2>1. entry'[1].status = entry[1].status
    BY <1>4 DEF Behind
  <2>2. blind[1] = {}
    BY <1>2 DEF Behind
  <2>3. Behind
    BY <1>1, <2>1, <2>2 DEF Behind
  <2>4. ASSUME NEW k \in Sends, sending[k].at = "COMMITTED"
        PROVE  sending'[k].at = "COMMITTED"
    BY <1>5, <2>4
  <2>5. IsTold => IsTold'
    BY <1>1, <2>4 DEF IsTold, Told
  <2> QED
    BY <2>1, <2>3, <2>5 DEF ThreadInv, Excused
<1> QED
  BY <1>6, <1>7, <1>8, <1>9, <1>10, <1>11 DEF ThreadInv

\* A refusal ...
LEMMA HearRefusalKeeps ==
  ASSUME ThreadInv, NEW n \in Sends, HearRefusal(n)
  PROVE  ThreadInv'
<1>1. mishaps' \in 0 .. MaxMishaps
  BY DEF HearRefusal, ThreadInv, ThreadForms, ThreadTypeOK
<1>2. /\ sending[n].at = "REFUSED" /\ AfterError(n)
      /\ sending' = [sending EXCEPT ![n] = NoRequest]
  BY DEF HearRefusal
<1> QED
  BY <1>1, <1>2, ErrorKeeps, NothingAsked

\* ... or an answer that does not come.
LEMMA GiveUpKeeps ==
  ASSUME ThreadInv, NEW n \in Sends, GiveUp(n)
  PROVE  ThreadInv'
<1>1. mishaps' \in 0 .. MaxMishaps
  BY ThreadAssumption DEF GiveUp, ThreadInv, ThreadForms, ThreadTypeOK, ThreadAssumption
<1>2. sending[n] \in PageRequest
  BY UnderWay
<1> DEFINE q == IF sending[n].at = "ANSWERED" THEN NoRequest
                ELSE [sending[n] EXCEPT !.awaited = FALSE]
<1>3. /\ sending[n].at \in {"SENT", "READ", "COMMITTED", "ANSWERED"} /\ AfterError(n)
      /\ sending' = [sending EXCEPT ![n] = q]
  BY DEF GiveUp
<1>4. CASE sending[n].at = "ANSWERED"
  BY <1>1, <1>3, <1>4, ErrorKeeps, NothingAsked
<1>5. CASE sending[n].at # "ANSWERED"
  <2>1. /\ q \in PageRequest /\ q.at = sending[n].at /\ q.status = sending[n].status
        /\ q.kind = sending[n].kind
    BY <1>2, <1>5 DEF PageRequest
  <2> HIDE DEF q
  <2> QED
    BY <1>1, <1>3, <2>1, ErrorKeeps
<1> QED
  BY <1>4, <1>5

\* The answer of a fetch replaces the cache, and says whether it is behind.
LEMMA HearThreadKeeps ==
  ASSUME ThreadInv, HearThread
  PROVE  ThreadInv'
<1>1. /\ UNCHANGED <<row, events, sending, sends, link>>
      /\ fetch'.at = "NONE" /\ fetch'.rows = [i \in Ids |-> Absent]
      /\ entry'[1] = [status |-> fetch.rows[1], real |-> fetch.rows[1] # Absent]
      /\ entry'[2] = [status |-> fetch.rows[2], real |-> fetch.rows[2] # Absent]
      /\ blind'[1] = IF fetch.rows[1] = row[1] THEN {} ELSE {"OVERTAKEN"}
  BY DEF HearThread, Ids, NoFetch
<1>2. ThreadForms'
  <2>1. entry' \in [Ids -> [status : Message, real : BOOLEAN]]
    BY DEF HearThread, ThreadInv, ThreadForms
  <2>2. blind' \in [Ids -> SUBSET Causes]
    BY DEF HearThread, Causes
  <2>3. fetch'.rows \in [Ids -> Message]
    BY <1>1 DEF Message
  <2> QED
    BY <1>1, <2>1, <2>2, <2>3 DEF HearThread, ThreadInv, ThreadForms, ThreadTypeOK, Message
<1>3. OneId'
  BY <1>1 DEF ThreadInv, OneId, NoEntry, Ids
<1>6. OnlyOwnEntry'
  <2> SUFFICES ASSUME row'[1] = Absent
               PROVE  /\ events' = {} /\ fetch'.rows[1] = Absent
                      /\ ~entry'[1].real /\ entry'[1].status = Absent
    BY DEF OnlyOwnEntry, Absent
  <2>1. events = {} /\ fetch.rows[1] = Absent
    BY <1>1 DEF ThreadInv, OnlyOwnEntry
  <2>2. (fetch.rows[1] # Absent) = FALSE
    BY <2>1
  <2>3. entry'[1] = [status |-> Absent, real |-> FALSE]
    BY <1>1, <2>1, <2>2
  <2> QED
    BY <1>1, <2>1, <2>3 DEF Ids
<1>7. DeliveredIsFinal'
  BY <1>1 DEF ThreadInv, DeliveredIsFinal, Ids, Absent
<1>4. RequestsAreSound'
  BY <1>1 DEF ThreadInv, RequestsAreSound, HasRow
<1>5. Excused'
  BY <1>1 DEF Excused, Behind
<1> QED
  BY <1>2, <1>3, <1>4, <1>5, <1>6, <1>7 DEF ThreadInv

\* The message moves on, and is told of or not.
LEMMA ProgressKeeps ==
  ASSUME ThreadInv, NEW i \in Ids, NEW to \in RowStatus, Progress(i, to)
  PROVE  ThreadInv'
<1>1. i = 1
  BY DEF Progress, ThreadInv, OneId, Ids
<1>2. /\ row[1] \in RowStatus /\ IsStatusUpgrade(row[1], to)
      /\ row' = [row EXCEPT ![1] = to]
      /\ UNCHANGED <<entry, sending, sends, fetch, link>>
  BY <1>1 DEF Progress, ThreadInv, ThreadForms, ThreadTypeOK, Ids
<1>3. row'[1] = to /\ row'[2] = row[2] /\ to # Absent /\ row[1] # Absent
  BY <1>1, <1>2, Ranks DEF ThreadInv, ThreadForms, ThreadTypeOK, Ids, Absent
<1>4. \/ /\ events' = events \cup {<<"STATUS", 1, to>>}
         /\ blind' \in [Ids -> SUBSET Causes]
         /\ blind'[1] = IF entry'[1].status = row'[1] THEN {} ELSE blind[1]
      \/ /\ events' = events
         /\ blind' \in [Ids -> SUBSET Causes]
         /\ blind'[1] = IF entry'[1].status = row'[1] THEN {} ELSE blind[1] \cup {"LOST"}
  <2>1. CASE Tells("STATUS", i, to) /\ Explains(i, {})
    BY <1>1, <2>1, ExplainedBefore DEF Tells, ThreadInv
  <2>2. CASE Explains(i, {"LOST"}) /\ UNCHANGED events
    <3>1. {"LOST"} \in SUBSET Causes
      BY DEF Causes
    <3> QED
      BY <1>1, <2>2, <3>1, Explained DEF ThreadInv
  <2> QED
    BY <2>1, <2>2 DEF Progress
<1>5. ThreadForms'
  BY <1>1, <1>2, <1>4, ThreadAssumption
     DEF Progress, ThreadInv, ThreadForms, ThreadTypeOK, Ids, Kinds, ThreadAssumption
<1>6. OneId'
  BY <1>2, <1>3, <1>4 DEF ThreadInv, OneId
<1>7. DeliveredIsFinal'
  <2>1. row[1] # "DELIVERED"
    BY <1>2, Ranks, Upgrades
  <2> QED
    BY <1>2, <1>3, <1>4, <2>1 DEF ThreadInv, DeliveredIsFinal
<1>8. OnlyOwnEntry'
  BY <1>3 DEF OnlyOwnEntry
<1>9. RequestsAreSound'
  BY <1>2, <1>3 DEF ThreadInv, RequestsAreSound, HasRow
<1>10. Excused'
  BY <1>2, <1>3, <1>4, Ranks, Upgrades
     DEF ThreadInv, ThreadForms, ThreadTypeOK, Excused, Behind, IsTold, Told, Absent, Ids, Kinds
<1> QED
  BY <1>5, <1>6, <1>7, <1>8, <1>9, <1>10 DEF ThreadInv

\* An event is heard, in any order.
LEMMA HearKeeps ==
  ASSUME ThreadInv, NEW e \in events, Hear(e)
  PROVE  ThreadInv'
<1>1. PICK k \in Kinds, s \in RowStatus : e = <<k, 1, s>>
  BY DEF ThreadInv, ThreadForms, ThreadTypeOK, OneId
<1>2. /\ row[1] # Absent /\ row[1] \in RowStatus
      /\ entry \in [Ids -> [status : Message, real : BOOLEAN]]
      /\ entry[1].status \in Message
  BY DEF ThreadInv, OnlyOwnEntry, ThreadForms, ThreadTypeOK, Message, Ids
<1>3. /\ row' = row /\ sending' = sending /\ sends' = sends /\ fetch' = fetch /\ link' = link
      /\ events' = events \ {e}
  BY DEF Hear
<1> DEFINE causes == (IF k = "STATUS" /\ entry[1].status = Absent THEN {"EARLY"} ELSE {})
                      \cup (IF IsStatusUpgrade(row[1], s) THEN {"LATE"} ELSE {})
<1>4. causes \in SUBSET Causes
  BY DEF Causes
<1>5. Explains(1, causes)
  BY <1>1 DEF Hear, Overtakes
<1> HIDE DEF causes
<1>6. /\ blind' \in [Ids -> SUBSET Causes]
      /\ blind'[1] = IF entry'[1].status = row'[1] THEN {} ELSE blind[1] \cup causes
  BY <1>4, <1>5, Explained DEF ThreadInv
<1>7. /\ entry' \in [Ids -> [status : Message, real : BOOLEAN]]
      /\ entry'[2] = entry[2]
      /\ entry'[1].status =
           IF IF entry[1].status = Absent THEN k = "CREATED" ELSE IsStatusUpgrade(entry[1].status, s)
           THEN s ELSE entry[1].status
  <2>1. CASE k = "CREATED"
    <3>1. entry' = [entry EXCEPT ![1] = [status |-> Merged(entry[1], s), real |-> TRUE]]
      BY <1>1, <2>1 DEF Hear, Upserted
    <3>2. Merged(entry[1], s) = IF entry[1].status = Absent \/ IsStatusUpgrade(entry[1].status, s)
                                THEN s ELSE entry[1].status
      BY <1>2, Merges
    <3>3. Merged(entry[1], s) \in Message
      BY <1>2, <3>2 DEF Message
    <3> QED
      BY <1>2, <2>1, <3>1, <3>2, <3>3 DEF Ids
  <2>2. CASE k # "CREATED"
    <3>1. entry' = Patched(1, s)
      BY <1>1, <2>2 DEF Hear
    <3> QED
      BY <2>2, <3>1, Patches DEF ThreadInv
  <2> QED
    BY <2>1, <2>2
<1>8. ThreadForms'
  BY <1>3, <1>6, <1>7 DEF Hear, ThreadInv, ThreadForms, ThreadTypeOK, Message
<1>9. OneId' /\ OnlyOwnEntry' /\ RequestsAreSound'
  BY <1>2, <1>3, <1>7 DEF ThreadInv, OneId, OnlyOwnEntry, RequestsAreSound, HasRow
<1>10. s = "DELIVERED" => row[1] = "DELIVERED"
  BY <1>1 DEF ThreadInv, DeliveredIsFinal
<1>11. DeliveredIsFinal'
  BY <1>3, <1>7, <1>10 DEF ThreadInv, DeliveredIsFinal
<1>12. Excused'
  <2> DEFINE a == entry[1].status
             b == entry'[1].status
  <2>1. b = IF IF a = Absent THEN k = "CREATED" ELSE IsStatusUpgrade(a, s) THEN s ELSE a
    BY <1>7
  <2>2. (k = "STATUS" \/ k = "CREATED") /\ a \in RowStatus \cup {Absent}
    BY <1>2 DEF Kinds, Message
  <2> SUFFICES ASSUME Behind', fetch.at = "NONE", link = "UP"
               PROVE  \/ Told("FAILED")'
                      \/ /\ IsTold'
                         /\ b = Absent \/ IsStatusUpgrade(b, row[1])
    BY <1>3 DEF Excused
  <2>3. blind[1] = {} /\ causes = {} /\ b \notin {row[1], "FAILED"}
    BY <1>3, <1>6 DEF Behind
  <2>4. /\ a = Absent => b = s /\ k = "CREATED"
        /\ ~IsStatusUpgrade(row[1], s)
    BY <2>1, <2>2, <2>3 DEF causes
  <2>5. b # Absent /\ b \in RowStatus /\ s \in RowStatus
    BY <2>1, <2>2, <2>4, Ranks DEF Absent
  <2> HIDE DEF a, b, causes
  <2>6. a # row[1] /\ a # "FAILED"
    BY <1>2, <2>1, <2>2, <2>3, <2>4, <2>5, Ranks, Upgrades DEF Absent
  <2>7. Behind
    BY <1>2, <2>3, <2>6 DEF Behind, a
  <2>8. \/ Told("FAILED")
        \/ /\ IsTold
           /\ a = Absent \/ IsStatusUpgrade(a, row[1])
    BY <2>7 DEF ThreadInv, Excused, a
  <2>9. a # Absent /\ s = "FAILED" => a = "DELIVERED"
    BY <2>1, <2>2, <2>3, <2>6, Ranks, Upgrades
  <2>10. a = "DELIVERED" => row[1] = "DELIVERED"
    BY DEF ThreadInv, DeliveredIsFinal, a
  <2>11. s # "FAILED"
    BY <2>3, <2>4, <2>6, <2>9, <2>10
  <2>12. Told("FAILED") => Told("FAILED")'
    BY <1>1, <1>3, <2>11 DEF Told
  <2>13. s # row[1] \/ ~(a = Absent \/ IsStatusUpgrade(a, row[1]))
    BY <2>1, <2>3, <2>4
  <2>14. s # row[1] /\ IsTold => IsTold'
    BY <1>1, <1>3 DEF IsTold, Told
  <2>15. IsStatusUpgrade(s, row[1]) \/ s = row[1]
    BY <1>2, <1>10, <2>4, <2>5, <2>11, Ranks, Upgrades
  <2>16. b = a \/ b = s
    BY <2>1
  <2> QED
    BY <2>3, <2>8, <2>12, <2>13, <2>14, <2>15, <2>16
<1> QED
  BY <1>8, <1>9, <1>11, <1>12 DEF ThreadInv

\* An event that nobody hears leaves the thread to the next reconnection.
LEMMA DropKeeps ==
  ASSUME ThreadInv, NEW e \in events, Drop(e)
  PROVE  ThreadInv'
<1>1. /\ link = "DOWN" /\ events' = events \ {e}
      /\ UNCHANGED <<row, entry, cached, sending, fetch, link, blind, own, sends, mishaps>>
  BY DEF Drop
<1>2. ThreadForms'
  BY <1>1 DEF ThreadInv, ThreadForms, ThreadTypeOK
<1>3. OneId' /\ DeliveredIsFinal' /\ OnlyOwnEntry' /\ RequestsAreSound'
  BY <1>1 DEF ThreadInv, OneId, DeliveredIsFinal, OnlyOwnEntry, WaitsFor, RequestsAreSound, HasRow
<1>4. Excused'
  BY <1>1 DEF Excused
<1> QED
  BY <1>2, <1>3, <1>4 DEF ThreadInv

\* Every step keeps what relates the thread to its row.
LEMMA ThreadStepKeeps == ThreadInv /\ [ThreadNext]_threadVars => ThreadInv'
<1> SUFFICES ASSUME ThreadInv, [ThreadNext]_threadVars
             PROVE  ThreadInv'
  OBVIOUS
<1>1. ASSUME NEW i \in Ids, Resend(i) \/ AskRetry(i) \/ AskRetryElsewhere(i)
      PROVE  ThreadInv'
  <2>1. i = 1
    <3>1. row[2] = Absent /\ entry[2].status = Absent
      BY DEF ThreadInv, OneId, NoEntry
    <3>2. \/ entry[i] = [status |-> "FAILED", real |-> FALSE]
          \/ entry[i] = [status |-> "FAILED", real |-> TRUE]
          \/ row[i] = "FAILED"
      BY <1>1, Zenon DEF Resend, AskRetry, AskRetryElsewhere
    <3> QED
      BY <3>1, <3>2 DEF Ids, Absent
  <2> QED
    BY <1>1, <2>1, ResendKeeps, AskRetryKeeps
<1>2. ASSUME NEW n \in Sends,
             \/ ReadRetry(n) \/ Commit(n) \/ FinalizeOutbound(n) \/ AnswerExisting(n)
             \/ Refuse(n) \/ Dies(n) \/ HearAnswer(n) \/ HearRefusal(n) \/ GiveUp(n)
      PROVE  ThreadInv'
  BY <1>2, ReadRetryKeeps, CommitKeeps, FinalizeOutboundKeeps, AnswerExistingKeeps,
     RefuseKeeps, DiesKeeps, HearAnswerKeeps, HearRefusalKeeps, GiveUpKeeps
<1>3. CASE UNCHANGED threadVars
  <2>1. UNCHANGED <<row, entry, cached, sending, events, fetch, link, blind, own, sends, mishaps>>
    BY <1>3 DEF threadVars
  <2>2. ThreadForms'
    BY <2>1 DEF ThreadInv, ThreadForms, ThreadTypeOK
  <2>3. /\ OneId' /\ DeliveredIsFinal' /\ OnlyOwnEntry' /\ RequestsAreSound' /\ Excused'
    BY <2>1 DEF ThreadInv, OneId, DeliveredIsFinal, OnlyOwnEntry, WaitsFor, RequestsAreSound,
                HasRow, Excused, Behind, IsTold, Told
  <2> QED
    BY <2>2, <2>3 DEF ThreadInv
<1> QED
  BY <1>1, <1>2, <1>3, WriteKeeps, WrittenElsewhereKeeps, CutKeeps, RejoinKeeps,
     ReconcileKeeps, ReadThreadKeeps, HearThreadKeeps, ProgressKeeps, HearKeeps, DropKeeps
     DEF ThreadNext

\* The page opens on an empty cache and waits for its first fetch.
LEMMA ThreadInitSound == ThreadInit => ThreadInv
<1> SUFFICES ASSUME ThreadInit
             PROVE  ThreadInv
  OBVIOUS
<1>1. sending = [n \in Sends |-> NoRequest] /\ sending \in [Sends -> PageRequest]
  BY NothingAsked DEF ThreadInit
<1>2. ThreadForms
  <2>1. ThreadTypeOK
    <3>1. row \in [Ids -> RowStatus \cup {Absent}] /\ blind \in [Ids -> SUBSET Causes]
      BY DEF ThreadInit
    <3>2. entry \in [Ids -> [status : RowStatus \cup {Absent}, real : BOOLEAN]]
      BY DEF ThreadInit, NoEntry
    <3>3. fetch.at = "ASKED" /\ link = "JOINED" /\ events = {}
      BY DEF ThreadInit, NoFetch
    <3>4. cached \in BOOLEAN /\ own \in BOOLEAN
      BY DEF ThreadInit
    <3>5. sends \in 0 .. MaxSends /\ mishaps \in 0 .. MaxMishaps
      BY ThreadAssumption DEF ThreadInit, ThreadAssumption
    <3>6. sending \in [Sends -> SendRequest]
      BY <1>1, RequestTypes
    <3> QED
      BY <3>1, <3>2, <3>3, <3>4, <3>5, <3>6 DEF ThreadTypeOK, Links
  <2>2. fetch.rows \in [Ids -> Message]
    BY DEF ThreadInit, NoFetch, Message
  <2> QED
    BY <1>1, <2>1, <2>2 DEF ThreadForms
<1>3. OneId /\ OnlyOwnEntry /\ Excused
  BY DEF ThreadInit, OneId, OnlyOwnEntry, Excused, Behind, NoEntry, NoFetch, Ids, Absent
<1>4. DeliveredIsFinal /\ RequestsAreSound
  BY <1>1 DEF ThreadInit, DeliveredIsFinal, RequestsAreSound, HasRow, NoEntry, NoRequest, NoFetch,
              Ids, Absent
<1> QED
  BY <1>2, <1>3, <1>4 DEF ThreadInv

\* The inductive invariant of the thread holds throughout.
THEOREM ThreadInvariant == ThreadSpec => []ThreadInv
  BY ThreadInitSound, ThreadStepKeeps, PTL DEF ThreadSpec

\* A thread at rest shows what the server has, or FAILED, or differs for a cause that is
\* known, in whatever order answers, events and fetches came and requests overlapped.
THEOREM ThreadKeepsUpHolds == ThreadSpec => []ThreadKeepsUp
<1>1. ASSUME ThreadInv
      PROVE  ThreadKeepsUp
  <2> SUFFICES ASSUME AtRest, NEW i \in Ids
               PROVE  \/ entry[i].status \in {row[i], "FAILED"}
                      \/ row[i] # Absent /\ blind[i] # {}
    BY <1>1 DEF ThreadInv, ThreadForms, ThreadKeepsUp
  <2>1. CASE i = 2
    BY <1>1, <2>1 DEF ThreadInv, OneId, NoEntry
  <2>2. CASE i = 1 /\ row[1] = Absent
    BY <1>1, <2>2 DEF ThreadInv, OnlyOwnEntry, WaitsFor, AtRest
  <2>3. CASE i = 1 /\ row[1] # Absent
    BY <1>1, <2>3 DEF ThreadInv, Excused, Behind, IsTold, Told, AtRest
  <2> QED
    BY <2>1, <2>2, <2>3 DEF Ids
<1> QED
  BY <1>1, ThreadInvariant, PTL

\* A copy is handed over by a commit only.
LEMMA CopiesAreCommitted ==
  ASSUME ThreadInv, ThreadNext, NEW n \in Sends,
         sending[n].at # "COMMITTED", sending'[n].at = "COMMITTED"
  PROVE  Commit(n)
<1>1. ASSUME NEW k \in Sends, NEW q \in PageRequest, q.at # "COMMITTED",
             sending' = [sending EXCEPT ![k] = q]
      PROVE  FALSE
  BY <1>1, Slot DEF ThreadInv
<1>2. NoRequest.at # "COMMITTED"
  BY DEF NoRequest
<1>3. sending' # sending
  OBVIOUS
<1>4. ASSUME NEW kind \in {"SEND", "RETRY"}, NEW awaited \in BOOLEAN, Asks(kind, 1, awaited)
      PROVE  FALSE
  BY <1>1, <1>4, Asked
<1>5. ASSUME NEW i \in Ids, Resend(i) \/ AskRetry(i) \/ AskRetryElsewhere(i)
      PROVE  FALSE
  <2>1. i = 1
    <3>1. row[2] = Absent /\ entry[2].status = Absent
      BY DEF ThreadInv, OneId, NoEntry
    <3>2. \/ entry[i] = [status |-> "FAILED", real |-> FALSE]
          \/ entry[i] = [status |-> "FAILED", real |-> TRUE]
          \/ row[i] = "FAILED"
      BY <1>5, Zenon DEF Resend, AskRetry, AskRetryElsewhere
    <3> QED
      BY <3>1, <3>2 DEF Ids, Absent
  <2>2. \E kind \in {"SEND", "RETRY"}, awaited \in BOOLEAN : Asks(kind, 1, awaited)
    BY <1>5, <2>1 DEF Resend, SameId, AskRetry, AskRetryElsewhere
  <2> QED
    BY <1>4, <2>2
<1>6. ~Write
  <2>1. Write => Asks("SEND", 1, TRUE) /\ TRUE \in BOOLEAN
    BY DEF Write
  <2> QED
    BY <1>4, <2>1
<1>7. ASSUME NEW k \in Sends, NEW at \in {"ANSWERED", "REFUSED"}, NEW s \in Message,
             Answers(k, at, s)
      PROVE  FALSE
  BY <1>1, <1>2, <1>7, AnswersEffect
<1>8. ASSUME NEW k \in Sends, FinalizeOutbound(k) \/ AnswerExisting(k) \/ Refuse(k)
      PROVE  FALSE
  <2>1. sending[k].id = 1 /\ row[1] \in Message /\ Absent \in Message
    BY UnderWay DEF ThreadInv, ThreadForms, ThreadTypeOK, Ids, Message
  <2> QED
    BY <1>7, <1>8, <2>1 DEF FinalizeOutbound, AnswerExisting, Refuse
<1>9. ASSUME NEW k \in Sends, Dies(k) \/ HearAnswer(k) \/ HearRefusal(k)
      PROVE  FALSE
  <2>1. sending' = [sending EXCEPT ![k] = NoRequest]
    BY <1>9 DEF Dies, HearAnswer, HearRefusal
  <2> QED
    BY <1>1, <1>2, <2>1, NothingAsked
<1>10. ASSUME NEW k \in Sends, ReadRetry(k)
       PROVE  FALSE
  <2>1. sending[k] \in PageRequest
    BY UnderWay
  <2>2. [sending[k] EXCEPT !.at = "READ"] \in PageRequest
    BY <2>1 DEF PageRequest
  <2>3. [sending[k] EXCEPT !.at = "READ"].at # "COMMITTED"
    BY <2>1 DEF PageRequest
  <2> QED
    BY <1>1, <1>10, <2>2, <2>3 DEF ReadRetry
<1>11. ASSUME NEW k \in Sends, GiveUp(k)
       PROVE  FALSE
  <2>1. sending[k] \in PageRequest /\ sending \in [Sends -> PageRequest]
    BY UnderWay DEF ThreadInv, ThreadForms
  <2>2. [sending[k] EXCEPT !.awaited = FALSE].at = sending[k].at
    BY <2>1 DEF PageRequest
  <2>3. sending'[n].at \in {sending[n].at, NoRequest.at}
    BY <1>11, <2>1, <2>2 DEF GiveUp
  <2> QED
    BY <1>2, <2>3
<1>12. ASSUME NEW k \in Sends, Commit(k)
       PROVE  k = n
  <2>1. sending \in [Sends -> PageRequest]
    BY DEF ThreadInv, ThreadForms
  <2> QED
    BY <1>12, <2>1 DEF Commit
<1>13. \/ \E k \in Sends : Commit(k)
       \/ sending' = sending
  BY <1>5, <1>6, <1>8, <1>9, <1>10, <1>11
     DEF ThreadNext, WrittenElsewhere, Disconnect, Rejoin, Reconcile, ReadThread, HearThread,
         Progress, Hear, Drop
<1> QED
  BY <1>3, <1>12, <1>13

\* A copy of a text is handed to the worker only when the server has none, or one that
\* failed, however many requests of the agent and of colleagues overlap.
THEOREM OneCopyAtATimeHolds == ThreadSpec => OneCopyAtATime
<1>1. ThreadInv /\ [ThreadNext]_threadVars =>
        [\A n \in Sends : sending[n].at # "COMMITTED" /\ sending'[n].at = "COMMITTED"
           => \A j \in Ids : row[j] \in {Absent, "FAILED"}]_threadVars
  <2> SUFFICES ASSUME ThreadInv, ThreadNext, NEW n \in Sends,
                      sending[n].at # "COMMITTED", sending'[n].at = "COMMITTED"
               PROVE  \A j \in Ids : row[j] \in {Absent, "FAILED"}
    OBVIOUS
  <2>1. Commit(n)
    BY CopiesAreCommitted
  <2>2. sending[n].id = 1
    BY UnderWay
  <2>3. row[1] \in {Absent, "FAILED"}
    BY <2>1, <2>2 DEF Commit, StillFailed
  <2>4. row[2] = Absent
    BY DEF ThreadInv, OneId
  <2> QED
    BY <2>3, <2>4 DEF Ids
<1> QED
  BY <1>1, ThreadInvariant, PTL DEF ThreadSpec, OneCopyAtATime
==============================================================================
