----------------------------- MODULE BrowserProofs -----------------------------
(***************************************************************************)
(* Proofs about Browser, for any number of tabs, sessions, faults and acts *)
(* of users.  A family has one session that may be used because a claim    *)
(* leaves it none until the successor is created; and a token that is      *)
(* reused belongs, while no connection has broken, to a family that is     *)
(* dead already.  And the types of Gateway.                                *)
(***************************************************************************)
EXTENDS Browser, Gateway, TLAPS, SequenceTheorems, FiniteSetTheorems

-----------------------------------------------------------------------------
(* The inductive invariant.                                                *)

Rows == sessions \in Seq(SessionRecord) /\ Len(sessions) \in 1 .. MaxSessions

\* A family is named after its first session; a session that was replaced has ended.
Lines ==
  \A s \in DOMAIN sessions :
    /\ sessions[s].family <= s
    /\ sessions[s].next # 0 =>
         /\ ~IsLive(s)
         /\ sessions[s].next \in (s + 1) .. Len(sessions)
         /\ sessions[sessions[s].next].family = sessions[s].family

OneLive ==
  \A s, u \in DOMAIN sessions :
    IsLive(s) /\ IsLive(u) /\ sessions[s].family = sessions[u].family => s = u

\* A token is one of a session, or 0.
Known == 0 .. Len(sessions)

Tokens ==
  /\ call \in [Tabs -> Call] /\ act \in [Clients -> Act] /\ cookie \in Known
  /\ \A t \in Tabs :
       /\ call[t].token \in Known /\ call[t].new \in Known
       /\ call[t].at \in {"READ", "CLAIMED", "CREATED"} => call[t].token # 0
  /\ \A c \in Clients :
       /\ act[c].token \in Known /\ act[c].new \in Known
       /\ act[c].op = "logout" /\ act[c].at = "READ" => act[c].token # 0

\* Who has claimed a session will create its successor, the only live one.
Claims ==
  \A t \in Tabs : call[t].at = "CLAIMED" =>
    /\ \A s \in Family(sessions[call[t].token].family) : ~IsLive(s)
    /\ \A u \in Tabs :
         /\ call[u].at = "CLAIMED"
         /\ sessions[call[u].token].family = sessions[call[t].token].family
         => u = t

\* Requests that may still create a session.
Refreshing == {t \in Tabs : call[t].at \in {"SENT", "READ", "CLAIMED"}}
Entering == {c \in Clients : act[c].op \in {"login", "change"} /\ act[c].at \in {"SENT", "READ"}}

HasRoom == Len(sessions) + Cardinality(Refreshing) + Cardinality(Entering) <= MaxSessions

Held ==
  /\ account \in Account /\ acts \in 0 .. MaxActs /\ faults \in 0 .. MaxFaults
  /\ tab \in [Tabs -> Tab] /\ lock \in Tabs \cup {Free}
  /\ channel \in [Tabs -> Seq(Messages)]
  /\ aged \subseteq DOMAIN sessions

IInv == Rows /\ Lines /\ OneLive /\ Tokens /\ Claims /\ HasRoom /\ Held

-----------------------------------------------------------------------------
(* Sessions.                                                               *)

LEMMA SessionsAreNumbers ==
  ASSUME Rows
  PROVE  /\ DOMAIN sessions = 1 .. Len(sessions) /\ Len(sessions) \in Nat \ {0}
         /\ \A s \in DOMAIN sessions : sessions[s] \in SessionRecord
BY LenProperties, ElementOfSeq DEF Rows

\* A sequence whose elements are replaced in place stays a sequence.
LEMMA ReplacedInPlace ==
  ASSUME NEW S, NEW s \in Seq(S), NEW f \in [DOMAIN s -> S]
  PROVE  f \in Seq(S) /\ Len(f) = Len(s) /\ DOMAIN f = DOMAIN s
<1>1. Len(s) \in Nat /\ DOMAIN s = 1 .. Len(s)
  BY LenProperties
<1>2. f \in Seq(S)
  BY <1>1, SeqDef
<1>3. DOMAIN f = 1 .. Len(f) /\ Len(f) \in Nat
  BY <1>2, LenProperties
<1> QED
  BY <1>1, <1>2, <1>3

\* An element that is appended comes last, and the others stay where they are.
LEMMA Appended ==
  ASSUME NEW S, NEW s \in Seq(S), NEW e \in S
  PROVE  /\ Append(s, e) \in Seq(S) /\ Len(Append(s, e)) = Len(s) + 1
         /\ \A i \in DOMAIN s : Append(s, e)[i] = s[i]
         /\ Append(s, e)[Len(s) + 1] = e
<1>1. Len(s) \in Nat /\ DOMAIN s = 1 .. Len(s)
  BY LenProperties
<1>2. /\ Append(s, e) \in Seq(S) /\ Len(Append(s, e)) = Len(s) + 1
      /\ \A i \in 1 .. Len(s) : Append(s, e)[i] = s[i]
      /\ Append(s, e)[Len(s) + 1] = e
  BY AppendProperties
<1> QED
  BY <1>1, <1>2

\* What a step may do to the sessions there are: end them.
Kept ==
  \A s \in DOMAIN sessions :
    /\ sessions'[s].family = sessions[s].family
    /\ sessions'[s].end = "LIVE" => sessions[s].end = "LIVE"

NextsStay(S) == \A s \in S : sessions'[s].next = sessions[s].next

Revokes ==
  /\ sessions' \in Seq(SessionRecord) /\ Len(sessions') = Len(sessions)
  /\ Kept /\ NextsStay(DOMAIN sessions)

\* A session that is the first of its family is added.
Opens ==
  /\ sessions' \in Seq(SessionRecord) /\ Len(sessions') = NextId
  /\ Kept /\ NextsStay(DOMAIN sessions)
  /\ sessions'[NextId] = FirstOfFamily

\* A session s that has been claimed gets its successor.
Succeeds(s) ==
  /\ s \in DOMAIN sessions /\ \A u \in Family(sessions[s].family) : ~IsLive(u)
  /\ sessions' \in Seq(SessionRecord) /\ Len(sessions') = NextId
  /\ Kept /\ NextsStay(DOMAIN sessions \ {s})
  /\ sessions'[s].next = NextId
  /\ sessions'[NextId] = Successor(s)

LEMMA SessionsGrow ==
  ASSUME Rows, Revokes \/ (NextId <= MaxSessions /\ (Opens \/ \E s : Succeeds(s)))
  PROVE  /\ Rows' /\ Kept
         /\ DOMAIN sessions = 1 .. Len(sessions) /\ DOMAIN sessions' = 1 .. Len(sessions')
         /\ Len(sessions) \in Nat \ {0} /\ Len(sessions') \in Nat
         /\ \/ Len(sessions') = Len(sessions) /\ Revokes
            \/ Len(sessions') = Len(sessions) + 1 /\ (Opens \/ \E s : Succeeds(s))
<1>1. DOMAIN sessions = 1 .. Len(sessions) /\ Len(sessions) \in Nat \ {0}
  BY SessionsAreNumbers
<1>2. sessions' \in Seq(SessionRecord)
  BY DEF Revokes, Opens, Succeeds
<1>3. DOMAIN sessions' = 1 .. Len(sessions') /\ Len(sessions') \in Nat
  BY <1>2, LenProperties
<1>4. Kept
  BY DEF Revokes, Opens, Succeeds
<1>5. Len(sessions) <= MaxSessions /\ MaxSessions \in Nat
  BY <1>1, SessionsAssumption DEF Rows
<1>6. CASE Revokes
  <2>1. Len(sessions') = Len(sessions)
    BY <1>6 DEF Revokes
  <2>2. Rows'
    BY <1>2, <2>1 DEF Rows
  <2> QED
    BY <1>1, <1>3, <1>4, <1>6, <2>1, <2>2
<1>7. CASE NextId <= MaxSessions /\ (Opens \/ \E s : Succeeds(s))
  <2>1. Len(sessions') = Len(sessions) + 1
    BY <1>7 DEF Opens, Succeeds, NextId
  <2>2. Len(sessions') \in 1 .. MaxSessions
    BY <1>1, <1>3, <1>5, <1>7, <2>1 DEF NextId
  <2> QED
    BY <1>1, <1>2, <1>3, <1>4, <1>7, <2>1, <2>2 DEF Rows
<1> QED
  BY <1>6, <1>7

\* Nothing is lost, and a session that is added is new, with a family of its own unless it
\* is a successor.
LEMMA SessionsStay ==
  ASSUME Rows, Lines, Revokes \/ (NextId <= MaxSessions /\ (Opens \/ \E s : Succeeds(s)))
  PROVE  /\ Known \subseteq Known' /\ DOMAIN sessions \subseteq DOMAIN sessions'
         /\ \A s \in DOMAIN sessions' : s \in DOMAIN sessions \/ s = NextId
         /\ \A s \in DOMAIN sessions : s # NextId /\ sessions[s].family # NextId
         /\ \A s \in Known : s # 0 => s \in DOMAIN sessions
         /\ \A s : Succeeds(s) => ~Revokes /\ ~Opens /\ Len(sessions') = Len(sessions) + 1
         /\ Opens => ~Revokes /\ Len(sessions') = Len(sessions) + 1
         /\ ~Revokes => NextId \in DOMAIN sessions' /\ NextId \in Known'
<1>1. /\ Len(sessions) \in Nat /\ Len(sessions') \in Nat
      /\ Len(sessions') = Len(sessions) \/ Len(sessions') = Len(sessions) + 1
  BY SessionsGrow
<1>2. DOMAIN sessions = 1 .. Len(sessions) /\ DOMAIN sessions' = 1 .. Len(sessions')
  BY SessionsGrow
<1>3. Known \subseteq Known'
  BY <1>1 DEF Known
<1>4. 1 .. Len(sessions) \subseteq 1 .. Len(sessions')
  BY <1>1
<1>5. \A s \in 1 .. Len(sessions') : s \in 1 .. Len(sessions) \/ s = Len(sessions) + 1
  BY <1>1
<1>6. \A s \in DOMAIN sessions : sessions[s].family \in Nat /\ sessions[s].family <= s
  BY SessionsAreNumbers DEF Lines, SessionRecord
<1>7. \A s \in DOMAIN sessions : s # NextId /\ sessions[s].family # NextId
  <2>1. DOMAIN sessions = 1 .. Len(sessions)
    BY <1>2
  <2> QED
    BY <1>1, <1>6, <2>1 DEF NextId
<1>8. \A s \in Known : s # 0 => s \in 1 .. Len(sessions)
  BY <1>1 DEF Known
<1>9. \A s : Succeeds(s) => ~Revokes /\ ~Opens /\ Len(sessions') = Len(sessions) + 1
  <2> SUFFICES ASSUME NEW s, Succeeds(s)
               PROVE  ~Revokes /\ ~Opens /\ Len(sessions') = Len(sessions) + 1
    OBVIOUS
  <2>1. Len(sessions') = Len(sessions) + 1 /\ ~Revokes
    BY <1>1 DEF Succeeds, Revokes, NextId
  <2>2. s \in DOMAIN sessions /\ sessions'[NextId].family = sessions[s].family
    BY DEF Succeeds, Successor
  <2>3. ~Opens
    BY <1>7, <2>2 DEF Opens, FirstOfFamily
  <2> QED
    BY <2>1, <2>3
<1>10. Opens => ~Revokes /\ Len(sessions') = Len(sessions) + 1
  BY <1>1 DEF Opens, Revokes, NextId
<1>11. ASSUME ~Revokes
       PROVE  NextId \in 1 .. Len(sessions') /\ NextId \in Known'
  <2>1. Len(sessions') = Len(sessions) + 1
    BY <1>9, <1>10, <1>11
  <2> QED
    BY <1>1, <2>1 DEF NextId, Known
<1>12. \A s \in DOMAIN sessions' : s \in DOMAIN sessions \/ s = NextId
  BY <1>2, <1>5 DEF NextId
<1> QED
  BY <1>2, <1>3, <1>4, <1>7, <1>8, <1>9, <1>10, <1>11, <1>12

\* Families keep their names and chains, and one live session, whatever a step does to
\* them.
LEMMA LinesStay ==
  ASSUME Rows, Lines, OneLive, Revokes \/ (NextId <= MaxSessions /\ (Opens \/ \E s : Succeeds(s)))
  PROVE  Lines' /\ OneLive'
<1>1. /\ DOMAIN sessions = 1 .. Len(sessions) /\ DOMAIN sessions' = 1 .. Len(sessions')
      /\ Len(sessions) \in Nat \ {0} /\ Kept
  BY SessionsGrow
<1>2. \A s \in DOMAIN sessions : sessions[s] \in SessionRecord
  BY SessionsAreNumbers
<1>3. CASE Revokes
  BY <1>1, <1>3 DEF Revokes, Kept, NextsStay, Lines, OneLive, IsLive
<1>4. CASE Opens
  <2>1. /\ DOMAIN sessions' = DOMAIN sessions \cup {NextId} /\ NextId \notin DOMAIN sessions
        /\ sessions'[NextId].family = NextId /\ sessions'[NextId].next = 0
    BY <1>1, <1>4 DEF Opens, NextId, FirstOfFamily
  <2>2. Lines'
    BY <1>1, <1>2, <1>4, <2>1 DEF Opens, Kept, NextsStay, Lines, IsLive, NextId
  <2>3. OneLive'
    BY <1>1, <1>2, <1>4, <2>1 DEF Opens, Kept, Lines, OneLive, IsLive, NextId
  <2> QED
    BY <2>2, <2>3
<1>5. CASE \E s : Succeeds(s)
  <2>1. PICK s : Succeeds(s)
    BY <1>5
  <2>2. /\ DOMAIN sessions' = DOMAIN sessions \cup {NextId} /\ NextId \notin DOMAIN sessions
        /\ sessions'[NextId].family = sessions[s].family /\ sessions'[NextId].next = 0
    BY <1>1, <2>1 DEF Succeeds, NextId, Successor
  <2>3. Lines'
    <3> SUFFICES ASSUME NEW u \in DOMAIN sessions'
                 PROVE  /\ sessions'[u].family <= u
                        /\ sessions'[u].next # 0 =>
                             /\ sessions'[u].end # "LIVE"
                             /\ sessions'[u].next \in (u + 1) .. Len(sessions')
                             /\ sessions'[sessions'[u].next].family = sessions'[u].family
      BY DEF Lines, IsLive
    <3>1. CASE u = NextId
      <4>1. s \in 1 .. Len(sessions) /\ sessions[s].family <= s /\ sessions[s].family \in Nat
        BY <1>1, <1>2, <2>1 DEF Succeeds, Lines, SessionRecord
      <4> QED
        BY <1>1, <2>2, <3>1, <4>1 DEF NextId
    <3>2. CASE u = s
      BY <1>1, <2>1, <2>2, <3>2 DEF Succeeds, Kept, Family, Lines, IsLive, NextId
    <3>3. CASE u \in DOMAIN sessions \ {s}
      BY <1>1, <2>1, <2>2, <3>3 DEF Succeeds, Kept, NextsStay, Lines, IsLive, NextId
    <3> QED
      BY <2>2, <3>1, <3>2, <3>3
  <2>4. OneLive'
    <3>1. ASSUME NEW u \in DOMAIN sessions, sessions'[u].end = "LIVE"
          PROVE  /\ sessions[u].end = "LIVE" /\ sessions'[u].family = sessions[u].family
                 /\ sessions[u].family # sessions[s].family
      BY <2>1, <3>1 DEF Succeeds, Kept, Family, IsLive
    <3> QED
      BY <2>2, <3>1 DEF OneLive, IsLive
  <2> QED
    BY <2>3, <2>4
<1> QED
  BY <1>3, <1>4, <1>5

-----------------------------------------------------------------------------
(* What handlers do to the sessions.                                       *)

LEMMA Untouched ==
  ASSUME Rows, UNCHANGED sessions
  PROVE  Revokes
BY DEF Rows, Revokes, Kept, NextsStay

\* The result of an updateMany.
LEMMA RevokedRows ==
  ASSUME Rows, NEW S, NEW reason \in Ends \ {"LIVE"}
  PROVE  LET left == Revoked(S, reason) IN
         /\ left \in Seq(SessionRecord) /\ Len(left) = Len(sessions)
         /\ DOMAIN left = DOMAIN sessions
         /\ \A s \in DOMAIN sessions :
              /\ left[s].family = sessions[s].family /\ left[s].next = sessions[s].next
              /\ left[s].end = "LIVE" => sessions[s].end = "LIVE" /\ s \notin S
              /\ left[s].end # sessions[s].end => left[s].end = reason
<1> DEFINE left == Revoked(S, reason)
<1>1. \A s \in DOMAIN sessions : sessions[s] \in SessionRecord
  BY SessionsAreNumbers
<1>2. left \in [DOMAIN sessions -> SessionRecord]
  BY <1>1 DEF Revoked, SessionRecord
<1>3. left \in Seq(SessionRecord) /\ Len(left) = Len(sessions) /\ DOMAIN left = DOMAIN sessions
  BY <1>2, ReplacedInPlace DEF Rows
<1>4. ASSUME NEW s \in DOMAIN sessions
      PROVE  /\ left[s].family = sessions[s].family /\ left[s].next = sessions[s].next
             /\ left[s].end = "LIVE" => sessions[s].end = "LIVE" /\ s \notin S
             /\ left[s].end # sessions[s].end => left[s].end = reason
  <2>1. CASE s \in S /\ IsLive(s)
    BY <1>1, <2>1 DEF Revoked, SessionRecord
  <2>2. CASE ~(s \in S /\ IsLive(s))
    BY <2>2 DEF Revoked, IsLive
  <2> QED
    BY <2>1, <2>2
<1> QED
  BY <1>3, <1>4

LEMMA Revoking ==
  ASSUME Rows, NEW S, NEW reason \in Ends \ {"LIVE"}, sessions' = Revoked(S, reason)
  PROVE  Revokes
BY RevokedRows DEF Revokes, Kept, NextsStay

\* One session is given its end.
LEMMA Ending ==
  ASSUME Rows, NEW s \in DOMAIN sessions, NEW reason \in Ends \ {"LIVE"},
         sessions' = [sessions EXCEPT ![s].end = reason]
  PROVE  Revokes /\ sessions'[s].end = reason
<1>1. \A u \in DOMAIN sessions : sessions[u] \in SessionRecord
  BY SessionsAreNumbers
<1>2. sessions' \in [DOMAIN sessions -> SessionRecord]
  BY <1>1 DEF SessionRecord
<1>3. sessions' \in Seq(SessionRecord) /\ Len(sessions') = Len(sessions)
  BY <1>2, ReplacedInPlace DEF Rows
<1>4. Kept /\ NextsStay(DOMAIN sessions) /\ sessions'[s].end = reason
  BY <1>1 DEF Kept, NextsStay, SessionRecord
<1> QED
  BY <1>3, <1>4 DEF Revokes

\* A first session is added to what an updateMany has left.
LEMMA Opening ==
  ASSUME Rows, NextId <= MaxSessions, NEW left \in Seq(SessionRecord), Len(left) = Len(sessions),
         \A s \in DOMAIN sessions :
           /\ left[s].family = sessions[s].family /\ left[s].next = sessions[s].next
           /\ left[s].end = "LIVE" => sessions[s].end = "LIVE",
         sessions' = Append(left, FirstOfFamily)
  PROVE  Opens
<1>1. FirstOfFamily \in SessionRecord
  BY SessionsAreNumbers, SessionsAssumption DEF FirstOfFamily, SessionRecord, Ends, NextId
<1>2. DOMAIN left = DOMAIN sessions
  BY SessionsAreNumbers, LenProperties
<1> HIDE DEF FirstOfFamily
<1>3. /\ sessions' \in Seq(SessionRecord) /\ Len(sessions') = Len(sessions) + 1
      /\ \A s \in DOMAIN sessions : sessions'[s] = left[s]
      /\ sessions'[Len(sessions) + 1] = FirstOfFamily
  BY <1>1, <1>2, Appended
<1> QED
  BY <1>3 DEF Opens, Kept, NextsStay, NextId

LEMMA Succeeding ==
  ASSUME Rows, NextId <= MaxSessions, NEW s \in DOMAIN sessions,
         \A u \in Family(sessions[s].family) : ~IsLive(u),
         sessions' = Append([sessions EXCEPT ![s].next = NextId], Successor(s))
  PROVE  Succeeds(s)
<1> DEFINE left == [sessions EXCEPT ![s].next = NextId]
           new == Successor(s)
<1>1. /\ \A u \in DOMAIN sessions : sessions[u] \in SessionRecord
      /\ NextId \in 0 .. MaxSessions /\ MaxSessions \in Nat
  BY SessionsAreNumbers, SessionsAssumption DEF NextId
<1>2. left \in [DOMAIN sessions -> SessionRecord]
  BY <1>1 DEF SessionRecord
<1>3. left \in Seq(SessionRecord) /\ Len(left) = Len(sessions) /\ DOMAIN left = DOMAIN sessions
  BY <1>2, ReplacedInPlace DEF Rows
<1>4. new \in SessionRecord
  BY <1>1 DEF Successor, SessionRecord, Ends
<1>5. /\ \A u \in DOMAIN sessions :
           left[u].family = sessions[u].family /\ left[u].end = sessions[u].end
      /\ \A u \in DOMAIN sessions \ {s} : left[u].next = sessions[u].next
      /\ left[s].next = NextId
  BY <1>1 DEF SessionRecord
<1>6. sessions' = Append(left, new)
  OBVIOUS
<1> HIDE DEF left, new
<1>7. /\ sessions' \in Seq(SessionRecord) /\ Len(sessions') = Len(sessions) + 1
      /\ \A u \in DOMAIN sessions : sessions'[u] = left[u]
      /\ sessions'[Len(sessions) + 1] = new
  <2>1. /\ Append(left, new) \in Seq(SessionRecord) /\ Len(Append(left, new)) = Len(left) + 1
        /\ \A u \in DOMAIN left : Append(left, new)[u] = left[u]
        /\ Append(left, new)[Len(left) + 1] = new
    BY <1>3, <1>4, Appended
  <2> QED
    BY <1>3, <1>6, <2>1
<1> QED
  BY <1>5, <1>7 DEF Succeeds, Kept, NextsStay, NextId, new

-----------------------------------------------------------------------------
(* Room for the sessions that requests may create.                         *)

LEMMA WaitingIsFinite ==
  /\ IsFiniteSet(Refreshing) /\ IsFiniteSet(Entering)
  /\ Cardinality(Refreshing) \in Nat /\ Cardinality(Entering) \in Nat
<1>1. IsFiniteSet(Clients)
  BY SessionsAssumption, FS_AddElement DEF Clients
<1>2. IsFiniteSet(Refreshing) /\ IsFiniteSet(Entering)
  BY <1>1, SessionsAssumption, FS_Subset DEF Refreshing, Entering
<1> QED
  BY <1>2, FS_CardinalityType

\* Who may create a session finds room for it.
LEMMA RoomForOne ==
  ASSUME Rows, HasRoom, Refreshing # {} \/ Entering # {}
  PROVE  NextId <= MaxSessions
<1>1. Cardinality(Refreshing) # 0 \/ Cardinality(Entering) # 0
  BY WaitingIsFinite, FS_EmptySet
<1> QED
  BY <1>1, WaitingIsFinite, SessionsAreNumbers, SessionsAssumption DEF HasRoom, NextId

\* A request leaves its place to the session it creates, and takes one only if there is
\* room.
LEMMA RoomKept ==
  ASSUME Rows, HasRoom, NEW x,
         \/ /\ Refreshing' \subseteq Refreshing /\ Entering' \subseteq Entering
            /\ Len(sessions') = Len(sessions)
         \/ /\ Room /\ Len(sessions') = Len(sessions)
            /\ \/ Refreshing' \subseteq Refreshing \cup {x} /\ Entering' \subseteq Entering
               \/ Refreshing' \subseteq Refreshing /\ Entering' \subseteq Entering \cup {x}
         \/ /\ Len(sessions') = Len(sessions) + 1
            /\ \/ /\ x \in Refreshing /\ Refreshing' \subseteq Refreshing \ {x}
                  /\ Entering' \subseteq Entering
               \/ /\ x \in Entering /\ Refreshing' \subseteq Refreshing
                  /\ Entering' \subseteq Entering \ {x}
  PROVE  HasRoom'
<1> DEFINE R == Refreshing
           E == Entering
<1>1. /\ IsFiniteSet(R) /\ IsFiniteSet(E) /\ Cardinality(R) \in Nat /\ Cardinality(E) \in Nat
      /\ Len(sessions) \in Nat
  BY WaitingIsFinite, SessionsAreNumbers
<1> HIDE DEF R, E
<1>2. /\ IsFiniteSet(R \cup {x}) /\ Cardinality(R \cup {x}) <= Cardinality(R) + 1
      /\ IsFiniteSet(E \cup {x}) /\ Cardinality(E \cup {x}) <= Cardinality(E) + 1
  <2>1. /\ IsFiniteSet(R \cup {x})
        /\ Cardinality(R \cup {x}) = IF x \in R THEN Cardinality(R) ELSE Cardinality(R) + 1
    BY <1>1, FS_AddElement
  <2>2. /\ IsFiniteSet(E \cup {x})
        /\ Cardinality(E \cup {x}) = IF x \in E THEN Cardinality(E) ELSE Cardinality(E) + 1
    BY <1>1, FS_AddElement
  <2> QED
    BY <1>1, <2>1, <2>2
<1>3. /\ IsFiniteSet(R \ {x}) /\ IsFiniteSet(E \ {x})
      /\ x \in R => Cardinality(R \ {x}) = Cardinality(R) - 1
      /\ x \in E => Cardinality(E \ {x}) = Cardinality(E) - 1
  BY <1>1, FS_RemoveElement
<1>4. ASSUME NEW S, NEW T, IsFiniteSet(T), S \subseteq T
      PROVE  Cardinality(S) <= Cardinality(T) /\ Cardinality(S) \in Nat /\ Cardinality(T) \in Nat
  BY <1>4, FS_Subset, FS_CardinalityType
<1>5. MaxSessions \in Nat
  BY SessionsAssumption
<1>6. Room => Len(sessions) + Cardinality(R) + Cardinality(E) < MaxSessions
  BY DEF Room, R, E, Refreshing, Entering
<1>7. HasRoom' <=> Len(sessions') + Cardinality(R') + Cardinality(E') <= MaxSessions
  BY DEF HasRoom, R, E
<1>8. CASE /\ R' \subseteq R /\ E' \subseteq E
           /\ Len(sessions') = Len(sessions)
  BY <1>1, <1>4, <1>5, <1>7, <1>8 DEF HasRoom, R, E
<1>9. CASE /\ Room /\ Len(sessions') = Len(sessions)
           /\ \/ R' \subseteq R \cup {x} /\ E' \subseteq E
              \/ R' \subseteq R /\ E' \subseteq E \cup {x}
  <2>1. CASE R' \subseteq R \cup {x} /\ E' \subseteq E
    <3>1. Cardinality(R') <= Cardinality(R) + 1 /\ Cardinality(E') <= Cardinality(E)
      BY <1>1, <1>2, <1>4, <2>1
    <3>2. Cardinality(R') \in Nat /\ Cardinality(E') \in Nat
      BY <1>1, <1>2, <1>4, <2>1
    <3> QED
      BY <1>1, <1>5, <1>6, <1>7, <1>9, <3>1, <3>2
  <2>2. CASE R' \subseteq R /\ E' \subseteq E \cup {x}
    <3>1. Cardinality(R') <= Cardinality(R) /\ Cardinality(E') <= Cardinality(E) + 1
      BY <1>1, <1>2, <1>4, <2>2
    <3>2. Cardinality(R') \in Nat /\ Cardinality(E') \in Nat
      BY <1>1, <1>2, <1>4, <2>2
    <3> QED
      BY <1>1, <1>5, <1>6, <1>7, <1>9, <3>1, <3>2
  <2> QED
    BY <1>9, <2>1, <2>2
<1>10. CASE /\ Len(sessions') = Len(sessions) + 1
            /\ \/ x \in R /\ R' \subseteq R \ {x} /\ E' \subseteq E
               \/ x \in E /\ R' \subseteq R /\ E' \subseteq E \ {x}
  <2>1. Len(sessions) + Cardinality(R) + Cardinality(E) <= MaxSessions
    BY DEF HasRoom, R, E
  <2>2. CASE x \in R /\ R' \subseteq R \ {x} /\ E' \subseteq E
    <3>1. Cardinality(R') <= Cardinality(R) - 1 /\ Cardinality(E') <= Cardinality(E)
      BY <1>1, <1>3, <1>4, <2>2
    <3>2. Cardinality(R') \in Nat /\ Cardinality(E') \in Nat
      BY <1>1, <1>3, <1>4, <2>2
    <3> QED
      BY <1>1, <1>5, <1>7, <1>10, <2>1, <3>1, <3>2
  <2>3. CASE x \in E /\ R' \subseteq R /\ E' \subseteq E \ {x}
    <3>1. Cardinality(R') <= Cardinality(R) /\ Cardinality(E') <= Cardinality(E) - 1
      BY <1>1, <1>3, <1>4, <2>3
    <3>2. Cardinality(R') \in Nat /\ Cardinality(E') \in Nat
      BY <1>1, <1>3, <1>4, <2>3
    <3> QED
      BY <1>1, <1>5, <1>7, <1>10, <2>1, <3>1, <3>2
  <2> QED
    BY <1>10, <2>2, <2>3
<1> QED
  BY <1>8, <1>9, <1>10 DEF R, E

-----------------------------------------------------------------------------
(* What a step does to the requests.                                       *)

\* The refresh of tab t comes to `at', with `new' as the session it brings.
CallGoes(t, at, new) ==
  /\ call' \in [Tabs -> Call]
  /\ \A u \in Tabs \ {t} : call'[u] = call[u]
  /\ call'[t].at = at /\ call'[t].new = new
  /\ call'[t].token = call[t].token /\ call'[t].heard = call[t].heard

ActGoes(c, at, new) ==
  /\ act' \in [Clients -> Act]
  /\ \A d \in Clients \ {c} : act'[d] = act[d]
  /\ act'[c].at = at /\ act'[c].new = new /\ act'[c].op = act[c].op
  /\ act'[c].token = act[c].token /\ act'[c].heard = act[c].heard

LEMMA CallStep ==
  ASSUME Tokens, NEW t \in Tabs, NEW at \in {"SENT", "READ", "CLAIMED", "CREATED", "ANSWERED"},
         NEW new \in 0 .. MaxSessions,
         \/ call' = [call EXCEPT ![t].at = at, ![t].new = new]
         \/ call' = [call EXCEPT ![t].at = at] /\ new = call[t].new
  PROVE  CallGoes(t, at, new)
BY DEF Tokens, Call, CallGoes

LEMMA ActStep ==
  ASSUME Tokens, NEW c \in Clients, NEW at \in {"READ", "ANSWERED"}, NEW new \in 0 .. MaxSessions,
         \/ act' = [act EXCEPT ![c].at = at, ![c].new = new]
         \/ act' = [act EXCEPT ![c].at = at] /\ new = act[c].new
  PROVE  ActGoes(c, at, new)
BY DEF Tokens, Act, ActGoes

\* Claims hold as long as no call claims, and the one that creates a successor gives up
\* its claim.
LEMMA ClaimsStay ==
  ASSUME Rows, Lines, Tokens, Claims,
         Revokes \/ (NextId <= MaxSessions /\ (Opens \/ \E s : Succeeds(s))),
         \A t \in Tabs : call'[t].at = "CLAIMED" =>
           /\ call[t].at = "CLAIMED" /\ call'[t].token = call[t].token
           /\ \A s : Succeeds(s) => sessions[s].family # sessions[call[t].token].family
  PROVE  Claims'
<1>1. /\ Kept /\ \A s \in DOMAIN sessions' : s \in DOMAIN sessions \/ s = NextId
      /\ \A s \in DOMAIN sessions : sessions[s].family # NextId
      /\ \A s \in Known : s # 0 => s \in DOMAIN sessions
  BY SessionsGrow, SessionsStay
<1> SUFFICES ASSUME NEW t \in Tabs, call'[t].at = "CLAIMED"
             PROVE  /\ \A s \in Family(sessions[call[t].token].family)' : sessions'[s].end # "LIVE"
                    /\ \A u \in Tabs :
                         /\ call'[u].at = "CLAIMED"
                         /\ sessions'[call'[u].token].family = sessions'[call'[t].token].family
                         => u = t
  BY DEF Claims, IsLive
<1>3. \A u \in Tabs : call'[u].at = "CLAIMED" =>
        /\ call[u].at = "CLAIMED" /\ call'[u].token = call[u].token
        /\ call[u].token \in DOMAIN sessions
        /\ sessions'[call[u].token].family = sessions[call[u].token].family
  BY <1>1 DEF Tokens, Kept
<1> DEFINE f == sessions[call[t].token].family
<1>4. Family(sessions[call[t].token].family)' = {s \in DOMAIN sessions' : sessions'[s].family = f}
  BY <1>3 DEF Family
<1>5. /\ \A s \in DOMAIN sessions : sessions[s].family = f => sessions[s].end # "LIVE"
      /\ \A u \in Tabs : call[u].at = "CLAIMED" /\ sessions[call[u].token].family = f => u = t
  BY <1>3 DEF Claims, Family, IsLive
<1>6. f # NextId
  BY <1>1, <1>3
<1> HIDE DEF f
<1>7. ASSUME NEW s \in DOMAIN sessions', sessions'[s].family = f
      PROVE  sessions'[s].end # "LIVE"
  <2>1. CASE s \in DOMAIN sessions
    BY <1>1, <1>5, <1>7, <2>1 DEF Kept
  <2>2. CASE s \notin DOMAIN sessions
    <3>1. s = NextId /\ (Opens \/ \E u : Succeeds(u))
      <4>1. s = NextId /\ ~Revokes
        BY <1>1, <1>7, <2>2, SessionsGrow, SessionsAreNumbers DEF Revokes
      <4> QED
        BY <4>1
    <3>2. CASE Opens
      BY <1>6, <1>7, <3>1, <3>2 DEF Opens, FirstOfFamily
    <3>3. CASE \E u : Succeeds(u)
      <4>1. PICK u : Succeeds(u)
        BY <3>3
      <4>2. sessions'[s].family = sessions[u].family
        BY <3>1, <4>1 DEF Succeeds, Successor
      <4> QED
        BY <1>7, <4>1, <4>2 DEF f
    <3> QED
      BY <3>1, <3>2, <3>3
  <2> QED
    BY <2>1, <2>2
<1>8. ASSUME NEW u \in Tabs, call'[u].at = "CLAIMED",
             sessions'[call'[u].token].family = sessions'[call'[t].token].family
      PROVE  u = t
  BY <1>3, <1>5, <1>8 DEF f
<1> QED
  BY <1>4, <1>7, <1>8

-----------------------------------------------------------------------------
(* A request at the API comes one step further.                            *)

LEMMA CallDone ==
  ASSUME IInv, UNCHANGED browserVars, UNCHANGED <<account, act, acts>>,
         NEW t \in Tabs, NEW at \in {"READ", "CREATED", "ANSWERED"},
         NEW new \in Known', CallGoes(t, at, new),
         at # "ANSWERED" => call[t].token # 0,
         at = "READ" => call[t].at = "SENT",
         \/ Revokes
         \/ at = "CREATED" /\ call[t].at = "CLAIMED" /\ Succeeds(call[t].token)
  PROVE  IInv'
<1>1. NextId <= MaxSessions \/ Revokes
  <2>1. CASE call[t].at = "CLAIMED"
    BY <2>1, RoomForOne DEF IInv, Refreshing
  <2> QED
    BY <2>1
<1>2. Revokes \/ (NextId <= MaxSessions /\ (Opens \/ \E s : Succeeds(s)))
  BY <1>1
<1>3. /\ Rows' /\ Known \subseteq Known' /\ DOMAIN sessions \subseteq DOMAIN sessions'
      /\ \A s : Succeeds(s) => ~Revokes /\ ~Opens
  BY <1>2, SessionsGrow, SessionsStay DEF IInv
<1>4. Lines' /\ OneLive'
  BY <1>2, LinesStay DEF IInv
<1>5. Tokens'
  <2>1. Known \subseteq Known'
    BY <1>3
  <2>2. cookie' = cookie /\ act' = act
    BY DEF browserVars
  <2>3. ASSUME NEW u \in Tabs
        PROVE  /\ call'[u].token \in Known' /\ call'[u].new \in Known'
               /\ call'[u].at \in {"READ", "CLAIMED", "CREATED"} => call'[u].token # 0
    <3>1. CASE u = t
      BY <2>1, <3>1 DEF IInv, Tokens, CallGoes
    <3>2. CASE u # t
      BY <2>1, <3>2 DEF IInv, Tokens, CallGoes
    <3> QED
      BY <3>1, <3>2
  <2> QED
    BY <2>1, <2>2, <2>3 DEF IInv, Tokens, CallGoes
<1>6. Claims'
  <2>1. ASSUME NEW u \in Tabs, call'[u].at = "CLAIMED"
        PROVE  /\ call[u].at = "CLAIMED" /\ call'[u].token = call[u].token
               /\ \A s : Succeeds(s) => sessions[s].family # sessions[call[u].token].family
    <3>1. u # t /\ call'[u] = call[u]
      BY <2>1 DEF CallGoes
    <3>2. ASSUME NEW s, Succeeds(s)
          PROVE  sessions[s].family # sessions[call[u].token].family
      <4>1. ~Revokes
        BY <1>3, <3>2
      <4>2. call[t].at = "CLAIMED" /\ Succeeds(call[t].token)
        BY <4>1
      <4>3. sessions[s].family = sessions[call[t].token].family
        BY <3>2, <4>2 DEF Succeeds, Successor
      <4> QED
        BY <2>1, <3>1, <4>2, <4>3 DEF IInv, Claims
    <3> QED
      BY <2>1, <3>1, <3>2
  <2> QED
    BY <1>2, <2>1, ClaimsStay DEF IInv
<1>7. HasRoom'
  <2>1. Entering' = Entering
    BY DEF Entering
  <2>2. CASE Revokes
    <3>1. Refreshing' \subseteq Refreshing
      BY DEF Refreshing, CallGoes
    <3> QED
      BY <2>1, <2>2, <3>1, RoomKept DEF IInv, Revokes
  <2>3. CASE at = "CREATED" /\ call[t].at = "CLAIMED" /\ Succeeds(call[t].token)
    <3>1. t \in Refreshing /\ Refreshing' \subseteq Refreshing \ {t}
      BY <2>3 DEF Refreshing, CallGoes
    <3>2. Len(sessions') = Len(sessions) + 1
      BY <2>3 DEF Succeeds, NextId
    <3> QED
      BY <2>1, <3>1, <3>2, RoomKept DEF IInv
  <2> QED
    BY <2>2, <2>3
<1>8. Held'
  BY <1>3 DEF IInv, Held, browserVars
<1> QED
  BY <1>3, <1>4, <1>5, <1>6, <1>7, <1>8 DEF IInv

LEMMA ActDone ==
  ASSUME IInv, UNCHANGED browserVars, UNCHANGED <<account, call, acts>>,
         NEW c \in Clients, NEW at \in {"READ", "ANSWERED"},
         NEW new \in Known', ActGoes(c, at, new),
         at = "READ" => act[c].at = "SENT" /\ (act[c].op = "logout" => act[c].token # 0),
         \/ Revokes
         \/ /\ at = "ANSWERED" /\ act[c].at = "READ" /\ act[c].op \in {"login", "change"}
            /\ Opens
  PROVE  IInv'
<1>1. NextId <= MaxSessions \/ Revokes
  <2>1. CASE act[c].at = "READ" /\ act[c].op \in {"login", "change"}
    BY <2>1, RoomForOne DEF IInv, Entering
  <2> QED
    BY <2>1
<1>2. Revokes \/ (NextId <= MaxSessions /\ (Opens \/ \E s : Succeeds(s)))
  BY <1>1
<1>3. /\ Rows' /\ Known \subseteq Known' /\ DOMAIN sessions \subseteq DOMAIN sessions'
      /\ \A s : Succeeds(s) => ~Revokes /\ ~Opens
  BY <1>2, SessionsGrow, SessionsStay DEF IInv
<1>4. Lines' /\ OneLive'
  BY <1>2, LinesStay DEF IInv
<1>5. Tokens'
  <2>1. Known \subseteq Known'
    BY <1>3
  <2>2. cookie' = cookie /\ call' = call
    BY DEF browserVars
  <2>3. ASSUME NEW d \in Clients
        PROVE  /\ act'[d].token \in Known' /\ act'[d].new \in Known'
               /\ act'[d].op = "logout" /\ act'[d].at = "READ" => act'[d].token # 0
    <3>1. CASE d = c
      BY <2>1, <3>1 DEF IInv, Tokens, ActGoes
    <3>2. CASE d # c
      BY <2>1, <3>2 DEF IInv, Tokens, ActGoes
    <3> QED
      BY <3>1, <3>2
  <2> QED
    BY <2>1, <2>2, <2>3 DEF IInv, Tokens, ActGoes
<1>6. Claims'
  <2>1. \A s : ~Succeeds(s)
    BY <1>3
  <2> QED
    BY <1>2, <2>1, ClaimsStay DEF IInv
<1>7. HasRoom'
  <2>1. Refreshing' = Refreshing
    BY DEF Refreshing
  <2>2. CASE Revokes
    <3>1. Entering' \subseteq Entering
      BY DEF Entering, ActGoes
    <3> QED
      BY <2>1, <2>2, <3>1, RoomKept DEF IInv, Revokes
  <2>3. CASE /\ at = "ANSWERED" /\ act[c].at = "READ" /\ act[c].op \in {"login", "change"}
             /\ Opens
    <3>1. c \in Entering /\ Entering' \subseteq Entering \ {c}
      BY <2>3 DEF Entering, ActGoes
    <3>2. Len(sessions') = Len(sessions) + 1
      BY <2>3 DEF Opens, NextId
    <3> QED
      BY <2>1, <3>1, <3>2, RoomKept DEF IInv
  <2> QED
    BY <2>2, <2>3
<1>8. Held'
  BY <1>3 DEF IInv, Held, browserVars
<1> QED
  BY <1>3, <1>4, <1>5, <1>6, <1>7, <1>8 DEF IInv

\* What the token of a call that is handled tells.
LEMMA CallToken ==
  ASSUME IInv, NEW t \in Tabs
  PROVE  /\ call[t] \in Call /\ call[t].new \in Known /\ call[t].token \in Known
         /\ Known \subseteq 0 .. MaxSessions /\ 0 \in Known
         /\ call[t].token # 0 => call[t].token \in DOMAIN sessions
         /\ call[t].at \in {"READ", "CLAIMED", "CREATED"} => call[t].token # 0
<1>1. Len(sessions) \in Nat /\ Len(sessions) <= MaxSessions /\ MaxSessions \in Nat
  BY SessionsAreNumbers, SessionsAssumption DEF IInv, Rows
<1>2. Known \subseteq 0 .. MaxSessions /\ 0 \in Known
  BY <1>1 DEF Known
<1>3. \A s \in Known : s # 0 => s \in DOMAIN sessions
  BY SessionsAreNumbers DEF IInv, Known
<1> QED
  BY <1>2, <1>3 DEF IInv, Tokens

LEMMA ReadKeeps ==
  ASSUME IInv, NEW t \in Tabs, CallReads(t), UNCHANGED browserVars
  PROVE  IInv'
<1> DEFINE s == call[t].token
<1>1. call[t].at = "SENT" /\ UNCHANGED <<account, act, acts>>
  BY DEF CallReads
<1>2. /\ call[t].new \in 0 .. MaxSessions /\ 0 \in 0 .. MaxSessions
      /\ call[t].new \in Known /\ 0 \in Known /\ Rows /\ Tokens
  BY CallToken DEF IInv
<1>3. CASE Answered(t, 0) /\ UNCHANGED sessions
  <2>1. CallGoes(t, "ANSWERED", 0)
    BY <1>2, <1>3, CallStep DEF Answered
  <2>2. Revokes /\ 0 \in Known'
    BY <1>2, <1>3, Untouched DEF Known
  <2> QED
    BY <1>1, <2>1, <2>2, CallDone
<1>4. CASE s # 0 /\ call' = [call EXCEPT ![t].at = "READ"] /\ UNCHANGED sessions
  <2>1. CallGoes(t, "READ", call[t].new)
    BY <1>2, <1>4, CallStep
  <2>2. Revokes /\ call[t].new \in Known'
    BY <1>2, <1>4, Untouched DEF Known
  <2> QED
    BY <1>1, <1>4, <2>1, <2>2, CallDone
<1>5. CASE /\ sessions' = Revoked(Family(sessions[s].family), "REUSE_DETECTED")
           /\ Answered(t, 0)
  <2>1. CallGoes(t, "ANSWERED", 0)
    BY <1>2, <1>5, CallStep DEF Answered
  <2>2. Revokes
    BY <1>2, <1>5, Revoking DEF Ends
  <2>3. 0 \in Known'
    BY <1>2, <2>2 DEF Revokes, Known
  <2> QED
    BY <1>1, <2>1, <2>2, <2>3, CallDone
<1> QED
  BY <1>3, <1>4, <1>5 DEF CallReads

LEMMA ClaimKeeps ==
  ASSUME IInv, NEW t \in Tabs, CallClaims(t), UNCHANGED browserVars
  PROVE  IInv'
<1> DEFINE s == call[t].token
<1>1. call[t].at = "READ" /\ UNCHANGED <<account, act, acts>>
  BY DEF CallClaims
<1>2. /\ call[t].new \in 0 .. MaxSessions /\ 0 \in 0 .. MaxSessions
      /\ call[t].new \in Known /\ 0 \in Known /\ Rows /\ Tokens
      /\ s \in DOMAIN sessions
  BY <1>1, CallToken DEF IInv
<1>3. CASE Answered(t, 0) /\ UNCHANGED sessions
  <2>1. CallGoes(t, "ANSWERED", 0)
    BY <1>2, <1>3, CallStep DEF Answered
  <2>2. Revokes /\ 0 \in Known'
    BY <1>2, <1>3, Untouched DEF Known
  <2> QED
    BY <1>1, <2>1, <2>2, CallDone
<1>4. CASE /\ IsLive(s) /\ sessions' = [sessions EXCEPT ![s].end = "ROTATED"]
           /\ call' = [call EXCEPT ![t].at = "CLAIMED"]
  <2>1. CallGoes(t, "CLAIMED", call[t].new)
    BY <1>2, <1>4, CallStep
  <2>2. Revokes /\ sessions'[s].end = "ROTATED"
    BY <1>2, <1>4, Ending DEF Ends
  <2>3. /\ Rows' /\ Kept /\ Lines' /\ OneLive' /\ Known' = Known
        /\ DOMAIN sessions' = DOMAIN sessions
    <3>1. Known' = Known
      BY <2>2 DEF Revokes, Known
    <3>2. DOMAIN sessions' = DOMAIN sessions
      BY <2>2, SessionsGrow DEF Revokes, IInv
    <3> QED
      BY <2>2, <3>1, <3>2, SessionsGrow, LinesStay DEF IInv
  <2>4. Tokens'
    <3>1. cookie' = cookie /\ act' = act
      BY <1>1 DEF browserVars
    <3> QED
      BY <1>1, <1>2, <2>1, <2>3, <3>1 DEF Tokens, CallGoes
  <2>5. Claims'
    <3>1. \A u \in Tabs : call'[u].token = call[u].token
      BY <2>1 DEF CallGoes
    <3>2. \A u \in Tabs : call'[u].at = "CLAIMED" => call[u].at = "CLAIMED" \/ u = t
      BY <2>1 DEF CallGoes
    <3>3. ASSUME NEW u \in Tabs, call[u].at = "CLAIMED"
          PROVE  /\ call[u].token \in DOMAIN sessions
                 /\ sessions[call[u].token].family # sessions[s].family
      <4>1. call[u].token \in DOMAIN sessions
        BY <3>3, CallToken
      <4> QED
        BY <1>2, <1>4, <3>3, <4>1 DEF IInv, Claims, Family
    <3>4. \A u \in DOMAIN sessions :
            sessions[u].family = sessions[s].family => sessions'[u].end # "LIVE"
      BY <1>2, <1>4, <2>2, <2>3 DEF Kept, IInv, OneLive, IsLive
    <3>5. ASSUME NEW u \in Tabs, call'[u].at = "CLAIMED"
          PROVE  /\ \A v \in DOMAIN sessions' :
                      sessions'[v].family = sessions'[call'[u].token].family
                        => sessions'[v].end # "LIVE"
                 /\ \A w \in Tabs :
                      /\ call'[w].at = "CLAIMED"
                      /\ sessions'[call'[w].token].family = sessions'[call'[u].token].family
                      => w = u
      <4>1. CASE u = t
        BY <1>2, <2>3, <3>1, <3>2, <3>3, <3>4, <4>1 DEF Kept
      <4>2. CASE u # t
        <5>1. call[u].at = "CLAIMED" /\ call[u].token \in DOMAIN sessions
          BY <3>2, <3>3, <3>5, <4>2
        <5>2. \A v \in DOMAIN sessions :
                sessions[v].family = sessions[call[u].token].family => sessions[v].end # "LIVE"
          BY <5>1 DEF IInv, Claims, Family, IsLive
        <5>3. \A w \in Tabs :
                /\ call[w].at = "CLAIMED"
                /\ sessions[call[w].token].family = sessions[call[u].token].family
                => w = u
          BY <5>1 DEF IInv, Claims
        <5> QED
          BY <1>2, <2>3, <3>1, <3>2, <3>3, <5>1, <5>2, <5>3 DEF Kept
      <4> QED
        BY <4>1, <4>2
    <3> QED
      BY <3>5 DEF Claims, Family, IsLive
  <2>6. HasRoom'
    <3>1. Refreshing' \subseteq Refreshing /\ Entering' = Entering
      BY <1>1, <2>1 DEF Refreshing, Entering, CallGoes
    <3> QED
      BY <2>2, <3>1, RoomKept DEF IInv, Revokes
  <2>7. Held'
    BY <1>1, <2>3 DEF IInv, Held, browserVars
  <2> QED
    BY <2>3, <2>4, <2>5, <2>6, <2>7 DEF IInv
<1> QED
  BY <1>3, <1>4 DEF CallClaims, Claimable

LEMMA SuccessorKeeps ==
  ASSUME IInv, NEW t \in Tabs, CallCreates(t), UNCHANGED browserVars
  PROVE  IInv' /\ Succeeds(call[t].token) /\ CallGoes(t, "CREATED", NextId)
<1> DEFINE s == call[t].token
<1>1. /\ call[t].at = "CLAIMED" /\ UNCHANGED <<account, act, acts>>
      /\ sessions' = Append([sessions EXCEPT ![s].next = NextId], Successor(s))
      /\ call' = [call EXCEPT ![t].at = "CREATED", ![t].new = NextId]
  BY DEF CallCreates
<1>2. NextId <= MaxSessions
  BY <1>1, RoomForOne DEF IInv, Refreshing
<1>3. NextId \in 0 .. MaxSessions
  BY <1>2, SessionsAreNumbers, SessionsAssumption DEF NextId, IInv
<1>4. s \in DOMAIN sessions /\ s # 0 /\ \A u \in Family(sessions[s].family) : ~IsLive(u)
  BY <1>1, CallToken DEF IInv, Claims
<1>5. Succeeds(s)
  BY <1>1, <1>2, <1>4, Succeeding DEF IInv
<1>6. CallGoes(t, "CREATED", NextId)
  BY <1>1, <1>3, CallStep DEF IInv
<1>7. NextId \in Known'
  BY <1>2, <1>5, SessionsStay DEF IInv
<1>8. IInv'
  BY <1>1, <1>4, <1>5, <1>6, <1>7, CallDone
<1> QED
  BY <1>5, <1>6, <1>8

LEMMA CheckKeeps ==
  ASSUME IInv, NEW t \in Tabs, CallChecks(t), UNCHANGED browserVars
  PROVE  IInv' /\ Revokes /\ \E new \in {0, call[t].new} : CallGoes(t, "ANSWERED", new)
<1>1. call[t].at = "CREATED" /\ UNCHANGED <<account, act, acts>>
  BY DEF CallChecks
<1>2. /\ call[t].new \in 0 .. MaxSessions /\ 0 \in 0 .. MaxSessions
      /\ call[t].new \in Known /\ 0 \in Known /\ Rows /\ Tokens
  BY CallToken DEF IInv
<1>3. PICK new \in {0, call[t].new} : Answered(t, new)
  BY DEF CallChecks
<1>4. new \in 0 .. MaxSessions /\ new \in Known
  BY <1>2
<1>5. CallGoes(t, "ANSWERED", new)
  BY <1>2, <1>3, <1>4, CallStep DEF Answered
<1>6. Revokes
  <2>1. CASE sessions' = Revoked(Family(sessions[call[t].token].family), "LOGOUT_ALL")
    BY <1>2, <2>1, Revoking DEF Ends
  <2>2. CASE UNCHANGED sessions
    BY <1>2, <2>2, Untouched
  <2> QED
    BY <2>1, <2>2 DEF CallChecks
<1>7. new \in Known'
  BY <1>4, <1>6 DEF Revokes, Known
<1>8. IInv'
  BY <1>1, <1>5, <1>6, <1>7, CallDone
<1> QED
  BY <1>5, <1>6, <1>8

-----------------------------------------------------------------------------
(* The other requests.                                                     *)

LEMMA ActToken ==
  ASSUME IInv, NEW c \in Clients
  PROVE  /\ act[c] \in Act /\ act[c].new \in Known /\ act[c].token \in Known
         /\ Known \subseteq 0 .. MaxSessions /\ 0 \in Known
         /\ act[c].token # 0 => act[c].token \in DOMAIN sessions
         /\ act[c].op = "logout" /\ act[c].at = "READ" => act[c].token # 0
<1>1. Len(sessions) \in Nat /\ Len(sessions) <= MaxSessions /\ MaxSessions \in Nat
  BY SessionsAreNumbers, SessionsAssumption DEF IInv, Rows
<1>2. Known \subseteq 0 .. MaxSessions /\ 0 \in Known
  BY <1>1 DEF Known
<1>3. \A s \in Known : s # 0 => s \in DOMAIN sessions
  BY SessionsAreNumbers DEF IInv, Known
<1> QED
  BY <1>2, <1>3 DEF IInv, Tokens

\* A request that only goes on, or is answered, with sessions that end at most.
LEMMA ActEnds ==
  ASSUME IInv, UNCHANGED browserVars, UNCHANGED <<account, call, acts>>, NEW c \in Clients,
         \/ Reply(c, 0)
         \/ Reads(c) /\ act[c].at = "SENT" /\ (act[c].op = "logout" => act[c].token # 0),
         Revokes
  PROVE  IInv'
<1>1. Known' = Known
  BY DEF Revokes, Known
<1>2. CASE Reply(c, 0)
  <2>1. ActGoes(c, "ANSWERED", 0)
    BY <1>2, ActToken, ActStep DEF Reply, IInv
  <2> QED
    BY <1>1, <2>1, ActToken, ActDone
<1>3. CASE Reads(c) /\ act[c].at = "SENT" /\ (act[c].op = "logout" => act[c].token # 0)
  <2>1. ActGoes(c, "READ", act[c].new)
    BY <1>3, ActToken, ActStep DEF Reads, IInv
  <2> QED
    BY <1>1, <1>3, <2>1, ActToken, ActDone
<1> QED
  BY <1>2, <1>3

\* A request that brings a session of its own.
LEMMA ActOpens ==
  ASSUME IInv, UNCHANGED browserVars, UNCHANGED <<account, call, acts>>, NEW c \in Clients,
         act[c].op \in {"login", "change"}, act[c].at = "READ", Reply(c, NextId),
         NEW left \in Seq(SessionRecord), Len(left) = Len(sessions),
         \A s \in DOMAIN sessions :
           /\ left[s].family = sessions[s].family /\ left[s].next = sessions[s].next
           /\ left[s].end = "LIVE" => sessions[s].end = "LIVE",
         sessions' = Append(left, FirstOfFamily)
  PROVE  IInv' /\ Opens /\ ActGoes(c, "ANSWERED", NextId)
<1>1. NextId <= MaxSessions
  BY RoomForOne DEF IInv, Entering
<1>2. Opens
  BY <1>1, Opening DEF IInv
<1>3. NextId \in 0 .. MaxSessions
  BY <1>1, SessionsAreNumbers, SessionsAssumption DEF NextId, IInv
<1>4. ActGoes(c, "ANSWERED", NextId)
  BY <1>3, ActStep DEF Reply, IInv
<1>5. NextId \in Known'
  BY <1>1, <1>2, SessionsStay DEF IInv
<1>6. IInv'
  BY <1>2, <1>4, <1>5, ActDone
<1> QED
  BY <1>2, <1>4, <1>6

LEMMA LoginCreatesKeeps ==
  ASSUME IInv, NEW c \in Clients, LoginCreates(c), UNCHANGED browserVars
  PROVE  IInv' /\ Opens /\ ActGoes(c, "ANSWERED", NextId)
<1>1. /\ act[c].op = "login" /\ act[c].at = "READ" /\ Reply(c, NextId)
      /\ UNCHANGED <<account, call, acts>> /\ sessions' = Append(sessions, FirstOfFamily)
  BY DEF LoginCreates, AskedFrom
<1>2. sessions \in Seq(SessionRecord)
  BY DEF IInv, Rows
<1> QED
  BY <1>1, <1>2, ActOpens

LEMMA ChangePasswordKeeps ==
  ASSUME IInv, NEW c \in Clients, ChangePassword(c), UNCHANGED browserVars
  PROVE  IInv' /\ Opens /\ ActGoes(c, "ANSWERED", NextId)
<1> DEFINE left == Revoked(DOMAIN sessions, "PASSWORD_CHANGED")
<1>1. /\ act[c].op = "change" /\ act[c].at = "READ" /\ Reply(c, NextId)
      /\ UNCHANGED <<account, call, acts>> /\ sessions' = Append(left, FirstOfFamily)
  BY DEF ChangePassword, AskedFrom
<1>2. /\ left \in Seq(SessionRecord) /\ Len(left) = Len(sessions)
      /\ \A s \in DOMAIN sessions :
           /\ left[s].family = sessions[s].family /\ left[s].next = sessions[s].next
           /\ left[s].end = "LIVE" => sessions[s].end = "LIVE"
  BY RevokedRows DEF IInv, Ends
<1> HIDE DEF left
<1> QED
  BY <1>1, <1>2, ActOpens

\* The other steps of handlers: sessions end at most, nobody is given one.
Others(c) ==
  \/ LoginChecks(c) \/ LogoutReads(c) \/ LogoutRevokes(c) \/ LogoutAll(c)
  \/ ChangeChecks(c) \/ ResetReads(c) \/ ResetPassword(c)

LEMMA OthersRevoke ==
  ASSUME IInv, NEW c \in Clients, Others(c)
  PROVE  /\ Revokes /\ UNCHANGED <<account, call, acts>>
         /\ \/ Reply(c, 0)
            \/ Reads(c) /\ act[c].at = "SENT" /\ (act[c].op = "logout" => act[c].token # 0)
<1>1. Rows
  BY DEF IInv
<1>2. CASE LoginChecks(c) \/ LogoutReads(c) \/ ChangeChecks(c) \/ ResetReads(c)
  <2>1. UNCHANGED sessions
    BY <1>2 DEF LoginChecks, LogoutReads, ChangeChecks, ResetReads
  <2>2. Revokes
    BY <1>1, <2>1, Untouched
  <2>3. act[c].at = "SENT" /\ UNCHANGED <<account, call, acts>>
    BY <1>2 DEF LoginChecks, LogoutReads, ChangeChecks, ResetReads, AskedFrom
  <2>4. Reply(c, 0) \/ (Reads(c) /\ (act[c].op = "logout" => act[c].token # 0))
    BY <1>2 DEF LoginChecks, LogoutReads, ChangeChecks, ResetReads, AskedFrom
  <2> QED
    BY <2>2, <2>3, <2>4
<1>3. CASE LogoutRevokes(c)
  <2>1. act[c].token \in DOMAIN sessions
    BY <1>3, ActToken DEF LogoutRevokes, AskedFrom
  <2> DEFINE s == act[c].token
  <2>2. sessions' = [sessions EXCEPT ![s].end = "LOGOUT"] /\ "LOGOUT" \in Ends \ {"LIVE"}
    BY <1>3 DEF LogoutRevokes, Ends
  <2> HIDE DEF s
  <2>3. Revokes
    BY <1>1, <2>1, <2>2, Ending DEF s
  <2> QED
    BY <1>3, <2>3 DEF LogoutRevokes
<1>4. CASE LogoutAll(c)
  BY <1>1, <1>4, Revoking DEF LogoutAll, Ends
<1>5. CASE ResetPassword(c)
  <2>1. CASE sessions' = Revoked(DOMAIN sessions, "PASSWORD_RESET")
    BY <1>1, <1>5, <2>1, Revoking DEF ResetPassword, Ends
  <2>2. CASE UNCHANGED sessions
    BY <1>1, <1>5, <2>2, Untouched DEF ResetPassword
  <2> QED
    BY <1>5, <2>1, <2>2 DEF ResetPassword
<1> QED
  BY <1>2, <1>3, <1>4, <1>5 DEF Others

LEMMA OthersKeep ==
  ASSUME IInv, NEW c \in Clients, Others(c), UNCHANGED browserVars
  PROVE  IInv'
BY OthersRevoke, ActEnds

LEMMA SuspendKeeps ==
  ASSUME IInv, Suspend, UNCHANGED browserVars
  PROVE  IInv'
<1>1. /\ UNCHANGED <<sessions, call, act, tab, cookie, lock, channel, aged, faults>>
      /\ account' \in Account /\ acts' \in 0 .. MaxActs
  BY SessionsAssumption DEF Suspend, Acts, Account, browserVars, IInv, Held
<1>2. Rows' /\ Lines' /\ OneLive' /\ Tokens' /\ Claims'
  BY <1>1 DEF IInv, Rows, Lines, OneLive, Tokens, Known, Claims, Family, IsLive
<1>3. HasRoom' /\ Held'
  BY <1>1 DEF IInv, HasRoom, Refreshing, Entering, Held
<1> QED
  BY <1>2, <1>3 DEF IInv

LEMMA ApiKeeps ==
  ASSUME IInv, Api
  PROVE  IInv'
<1>1. UNCHANGED browserVars
  BY DEF Api
<1>2. CASE \E t \in Tabs : Rotates(t)
  BY <1>1, <1>2, ReadKeeps, ClaimKeeps, SuccessorKeeps, CheckKeeps DEF Rotates
<1>3. CASE \E c \in Clients : Handles(c)
  BY <1>1, <1>3, LoginCreatesKeeps, ChangePasswordKeeps, OthersKeep DEF Handles, Others
<1>4. CASE Suspend
  BY <1>1, <1>4, SuspendKeeps
<1> QED
  BY <1>2, <1>3, <1>4 DEF Api

-----------------------------------------------------------------------------
(* The browser.                                                            *)

\* A step of the browser: sessions stay; requests are sent, heard, lost and forgotten.
LEMMA BrowserDone ==
  ASSUME IInv, UNCHANGED <<account, sessions>>, acts' \in 0 .. MaxActs,
         call' \in [Tabs -> Call], act' \in [Clients -> Act], cookie' \in Known,
         \A t \in Tabs :
           /\ call'[t].token \in Known /\ call'[t].new \in Known
           /\ call'[t].at \in {"READ", "CLAIMED", "CREATED"} =>
                call'[t].at = call[t].at /\ call'[t].token = call[t].token,
         \A c \in Clients :
           /\ act'[c].token \in Known /\ act'[c].new \in Known
           /\ act'[c].at = "READ" =>
                /\ act'[c].at = act[c].at /\ act'[c].op = act[c].op
                /\ act'[c].token = act[c].token,
         NEW x,
         \/ Refreshing' \subseteq Refreshing /\ Entering' \subseteq Entering
         \/ /\ Room
            /\ \/ Refreshing' \subseteq Refreshing \cup {x} /\ Entering' \subseteq Entering
               \/ Refreshing' \subseteq Refreshing /\ Entering' \subseteq Entering \cup {x},
         faults' \in 0 .. MaxFaults, tab' \in [Tabs -> Tab], lock' \in Tabs \cup {Free},
         channel' \in [Tabs -> Seq(Messages)], aged' \subseteq DOMAIN sessions
  PROVE  IInv'
<1>1. Rows' /\ Lines' /\ OneLive' /\ Known' = Known
  BY DEF IInv, Rows, Lines, OneLive, IsLive, Known
<1>2. Tokens'
  BY <1>1 DEF IInv, Tokens
<1>3. Claims'
  <2>1. \A t \in Tabs : call'[t].at = "CLAIMED" =>
          call[t].at = "CLAIMED" /\ call'[t].token = call[t].token
    OBVIOUS
  <2>2. \A f : Family(f)' = Family(f) /\ \A s : IsLive(s)' = IsLive(s)
    BY DEF Family, IsLive
  <2>3. \A t \in Tabs : call[t].at = "CLAIMED" =>
          /\ \A s \in Family(sessions[call[t].token].family) : ~IsLive(s)
          /\ \A u \in Tabs :
               /\ call[u].at = "CLAIMED"
               /\ sessions[call[u].token].family = sessions[call[t].token].family
               => u = t
    BY DEF IInv, Claims
  <2> SUFFICES ASSUME NEW t \in Tabs, call'[t].at = "CLAIMED"
               PROVE  /\ \A s \in Family(sessions'[call'[t].token].family) : ~IsLive(s)
                      /\ \A u \in Tabs :
                           /\ call'[u].at = "CLAIMED"
                           /\ sessions'[call'[u].token].family = sessions'[call'[t].token].family
                           => u = t
    BY <2>2 DEF Claims
  <2> QED
    BY <2>1, <2>3
<1>4. HasRoom'
  BY RoomKept DEF IInv
<1>5. Held'
  BY DEF IInv, Held
<1> QED
  BY <1>1, <1>2, <1>3, <1>4, <1>5 DEF IInv

LEMMA TabShows ==
  ASSUME IInv, NEW t \in Tabs,
         \/ AfterFailure(t)
         \/ \E s \in 0 .. MaxSessions : AfterSuccess(t, s)
         \/ \E why \in Callers : Joins(t, why)
         \/ tab' = [tab EXCEPT ![t] = Loading]
         \/ \E status \in {"authenticated", "unauthenticated"}, s \in 0 .. MaxSessions :
              Show(t, status, s)
  PROVE  tab' \in [Tabs -> Tab]
<1>1. tab \in [Tabs -> Tab] /\ 0 \in 0 .. MaxSessions
  BY SessionsAssumption DEF IInv, Held
<1>2. CASE AfterFailure(t)
  BY <1>1, <1>2 DEF AfterFailure, Tab
<1>3. CASE \E s \in 0 .. MaxSessions : AfterSuccess(t, s)
  <2>1. PICK s \in 0 .. MaxSessions : AfterSuccess(t, s)
    BY <1>3
  <2> DEFINE shown == IF tab[t].callers \subseteq {"timer"} THEN tab[t].status ELSE "authenticated"
  <2>2. shown \in {"initializing", "authenticated", "unauthenticated"}
    BY <1>1 DEF Tab
  <2>3. tab' = [tab EXCEPT ![t].callers = {}, ![t].token = s, ![t].status = shown]
    BY <2>1 DEF AfterSuccess
  <2> HIDE DEF shown
  <2> QED
    BY <1>1, <2>2, <2>3 DEF Tab
<1>4. CASE \E why \in Callers : Joins(t, why)
  BY <1>1, <1>4 DEF Joins, Tab
<1>5. CASE tab' = [tab EXCEPT ![t] = Loading]
  BY <1>1, <1>5 DEF Loading, Tab, Callers
<1>6. CASE \E status \in {"authenticated", "unauthenticated"}, s \in 0 .. MaxSessions :
             Show(t, status, s)
  BY <1>1, <1>6 DEF Show, Tab
<1> QED
  BY <1>2, <1>3, <1>4, <1>5, <1>6

LEMMA Posting ==
  ASSUME IInv, NEW t \in Tabs, NEW message \in Messages, Posts(t, message)
  PROVE  channel' \in [Tabs -> Seq(Messages)]
<1>1. \A u \in Tabs : channel[u] \in Seq(Messages) /\ Append(channel[u], message) \in Seq(Messages)
  BY AppendProperties DEF IInv, Held
<1> QED
  BY <1>1 DEF Posts

\* Nothing but what the tabs hold changes.
LEMMA TabsDone ==
  ASSUME IInv, UNCHANGED <<account, sessions, call, act>>, acts' \in 0 .. MaxActs, cookie' \in Known,
         faults' \in 0 .. MaxFaults, tab' \in [Tabs -> Tab], lock' \in Tabs \cup {Free},
         channel' \in [Tabs -> Seq(Messages)], aged' \subseteq DOMAIN sessions
  PROVE  IInv'
<1>1. Refreshing' = Refreshing /\ Entering' = Entering
  BY DEF Refreshing, Entering
<1>2. /\ call' \in [Tabs -> Call] /\ act' \in [Clients -> Act]
      /\ \A t \in Tabs : call'[t].token \in Known /\ call'[t].new \in Known
      /\ \A c \in Clients : act'[c].token \in Known /\ act'[c].new \in Known
  BY DEF IInv, Tokens
<1> QED
  BY <1>1, <1>2, BrowserDone

\* Nothing but one call changes, and what the tabs hold; the call is new or over.
LEMMA CallDealt ==
  ASSUME IInv, UNCHANGED <<account, sessions, act>>, acts' \in 0 .. MaxActs, cookie' \in Known,
         NEW t \in Tabs, NEW q \in Call, call' = [call EXCEPT ![t] = q],
         q.token \in Known, q.new \in Known,
         \/ q.at \notin {"READ", "CLAIMED", "CREATED"} /\ (q.at = "SENT" => Room)
         \/ q.at = call[t].at /\ q.token = call[t].token,
         faults' \in 0 .. MaxFaults, tab' \in [Tabs -> Tab], lock' \in Tabs \cup {Free},
         channel' \in [Tabs -> Seq(Messages)], aged' \subseteq DOMAIN sessions
  PROVE  IInv'
<1>1. /\ call' \in [Tabs -> Call] /\ call'[t] = q
      /\ \A u \in Tabs \ {t} : call'[u] = call[u]
  BY DEF IInv, Tokens
<1>2. /\ act' \in [Clients -> Act]
      /\ \A c \in Clients : act'[c].token \in Known /\ act'[c].new \in Known
  BY DEF IInv, Tokens
<1>3. ASSUME NEW u \in Tabs
      PROVE  /\ call'[u].token \in Known /\ call'[u].new \in Known
             /\ call'[u].at \in {"READ", "CLAIMED", "CREATED"} =>
                  call'[u].at = call[u].at /\ call'[u].token = call[u].token
  <2>1. CASE u = t
    BY <1>1, <2>1
  <2>2. CASE u # t
    BY <1>1, <2>2 DEF IInv, Tokens
  <2> QED
    BY <2>1, <2>2
<1>4. Entering' = Entering
  BY DEF Entering
<1>5. \/ Refreshing' \subseteq Refreshing
      \/ Room /\ Refreshing' \subseteq Refreshing \cup {t}
  <2>1. Refreshing' \subseteq Refreshing \cup {t}
    BY <1>1 DEF Refreshing
  <2>2. q.at = call[t].at \/ q.at \notin {"SENT", "READ", "CLAIMED"} =>
          Refreshing' \subseteq Refreshing
    BY <1>1 DEF Refreshing
  <2> QED
    BY <2>1, <2>2
<1> QED
  BY <1>1, <1>2, <1>3, <1>4, <1>5, BrowserDone

LEMMA ActDealt ==
  ASSUME IInv, UNCHANGED <<account, sessions, call>>, acts' \in 0 .. MaxActs, cookie' \in Known,
         NEW c \in Clients, NEW q \in Act, act' = [act EXCEPT ![c] = q],
         q.token \in Known, q.new \in Known,
         \/ q.at # "READ" /\ (q.at = "SENT" /\ q.op \in {"login", "change"} => Room)
         \/ q.at = act[c].at /\ q.op = act[c].op /\ q.token = act[c].token,
         faults' \in 0 .. MaxFaults, tab' \in [Tabs -> Tab], lock' \in Tabs \cup {Free},
         channel' \in [Tabs -> Seq(Messages)], aged' \subseteq DOMAIN sessions
  PROVE  IInv'
<1>1. /\ act' \in [Clients -> Act] /\ act'[c] = q
      /\ \A d \in Clients \ {c} : act'[d] = act[d]
  BY DEF IInv, Tokens
<1>2. /\ call' \in [Tabs -> Call]
      /\ \A t \in Tabs : call'[t].token \in Known /\ call'[t].new \in Known
  BY DEF IInv, Tokens
<1>3. ASSUME NEW d \in Clients
      PROVE  /\ act'[d].token \in Known /\ act'[d].new \in Known
             /\ act'[d].at = "READ" =>
                  act'[d].at = act[d].at /\ act'[d].op = act[d].op /\ act'[d].token = act[d].token
  <2>1. CASE d = c
    BY <1>1, <2>1
  <2>2. CASE d # c
    BY <1>1, <2>2 DEF IInv, Tokens
  <2> QED
    BY <2>1, <2>2
<1>4. Refreshing' = Refreshing
  BY DEF Refreshing
<1>5. \/ Entering' \subseteq Entering
      \/ Room /\ Entering' \subseteq Entering \cup {c}
  <2>1. Entering' \subseteq Entering \cup {c}
    BY <1>1 DEF Entering
  <2>2. ASSUME \/ q.at = act[c].at /\ q.op = act[c].op
               \/ q.at \notin {"SENT", "READ"}
               \/ q.op \notin {"login", "change"}
        PROVE  Entering' \subseteq Entering
    BY <1>1, <2>2 DEF Entering
  <2> QED
    BY <2>1, <2>2
<1> QED
  BY <1>1, <1>2, <1>3, <1>4, <1>5, BrowserDone

\* What a step of the browser may take for granted.
LEMMA Standing ==
  ASSUME IInv
  PROVE  /\ acts \in 0 .. MaxActs /\ cookie \in Known /\ faults \in 0 .. MaxFaults
         /\ MaxActs \in Nat /\ MaxFaults \in Nat /\ MaxSessions \in Nat
         /\ tab \in [Tabs -> Tab] /\ lock \in Tabs \cup {Free}
         /\ channel \in [Tabs -> Seq(Messages)] /\ aged \subseteq DOMAIN sessions
         /\ Known \subseteq 0 .. MaxSessions /\ Known \subseteq Messages /\ 0 \in Known
<1>1. Len(sessions) \in Nat /\ Len(sessions) <= MaxSessions /\ MaxSessions \in Nat
  BY SessionsAreNumbers, SessionsAssumption DEF IInv, Rows
<1>2. Known \subseteq 0 .. MaxSessions /\ 0 \in Known
  BY <1>1 DEF Known
<1>3. Known \subseteq Messages
  BY <1>2 DEF Messages
<1> QED
  BY <1>2, <1>3, SessionsAssumption DEF IInv, Tokens, Held

\* Tabs that wait for a refresh, hear of one, or are loaded again.
LEMMA TabsKeep ==
  ASSUME IInv, NEW t \in Tabs,
         PreventiveRefresh(t) \/ Unauthorized(t) \/ AdoptToken(t) \/ Deliver(t) \/ Reload(t)
  PROVE  IInv'
<1>1. /\ UNCHANGED <<account, sessions, call, act, cookie, lock, aged, faults>>
      /\ acts' \in 0 .. MaxActs
  BY Standing DEF PreventiveRefresh, Unauthorized, AdoptToken, Deliver, Reload, apiVars, Acts
<1>2. tab' \in [Tabs -> Tab]
  <2>1. CASE PreventiveRefresh(t) \/ Unauthorized(t)
    BY <2>1, TabShows DEF PreventiveRefresh, Unauthorized, Callers
  <2>2. CASE AdoptToken(t)
    <3>1. tab[t].token \in 0 .. MaxSessions
      BY Standing DEF Tab
    <3> QED
      BY <2>2, <3>1, TabShows DEF AdoptToken
  <2>3. CASE Deliver(t)
    <3>1. Head(channel[t]) \in 0 .. MaxSessions
      BY <2>3, Standing, HeadTailProperties DEF Deliver, Messages
    <3> DEFINE s == Head(channel[t])
               status == IF s = 0 THEN "unauthenticated" ELSE "authenticated"
    <3>2. status \in {"authenticated", "unauthenticated"} /\ Show(t, status, s)
      BY <2>3 DEF Deliver
    <3> HIDE DEF status
    <3> QED
      BY <3>1, <3>2, TabShows
  <2>4. CASE Reload(t)
    BY <2>4, TabShows DEF Reload
  <2> QED
    BY <2>1, <2>2, <2>3, <2>4
<1>3. channel' \in [Tabs -> Seq(Messages)]
  <2>1. CASE Deliver(t)
    <3>1. Tail(channel[t]) \in Seq(Messages)
      BY <2>1, Standing, HeadTailProperties DEF Deliver
    <3> QED
      BY <2>1, <3>1, Standing DEF Deliver
  <2>2. CASE Reload(t)
    BY <2>2, Standing, EmptySeq DEF Reload
  <2>3. CASE channel' = channel
    BY <2>3, Standing
  <2> QED
    BY <2>1, <2>2, <2>3 DEF PreventiveRefresh, Unauthorized, AdoptToken
<1> QED
  BY <1>1, <1>2, <1>3, Standing, TabsDone

LEMMA AgesKeeps ==
  ASSUME IInv, NEW s \in DOMAIN sessions, Ages(s)
  PROVE  IInv'
BY Standing, TabsDone DEF Ages, Acts

\* The refresh of a tab: sent with the cookie, heard, lost or forgotten.
LEMMA RefreshKeeps ==
  ASSUME IInv, NEW t \in Tabs,
         SendRefresh(t) \/ HearRefresh(t) \/ LoseRefresh(t) \/ ForgetRefresh(t)
  PROVE  IInv'
<1>1. /\ call[t] \in Call /\ call[t].token \in Known /\ call[t].new \in Known
      /\ NoCall \in Call /\ 0 \in Known /\ Known \subseteq Messages
  BY CallToken, Standing DEF NoCall, Call
<1>2. CASE SendRefresh(t)
  <2> DEFINE q == [NoCall EXCEPT !.at = "SENT", !.token = cookie]
  <2>1. q \in Call /\ q.token = cookie /\ q.new = 0 /\ q.at = "SENT"
    BY Standing DEF Call, NoCall
  <2>2. call' = [call EXCEPT ![t] = q] /\ Room
    BY <1>2 DEF SendRefresh
  <2> HIDE DEF q
  <2>3. /\ UNCHANGED <<account, sessions, act, acts, tab, cookie, channel, aged, faults>>
        /\ lock' \in Tabs \cup {Free}
    BY <1>2 DEF SendRefresh
  <2> QED
    BY <1>1, <2>1, <2>2, <2>3, Standing, CallDealt
<1>3. CASE HearRefresh(t)
  <2>1. call' = [call EXCEPT ![t] = NoCall] /\ NoCall.at = "IDLE" /\ NoCall.token = 0 /\ NoCall.new = 0
    BY <1>3 DEF HearRefresh, NoCall
  <2>2. /\ UNCHANGED <<account, sessions, act, acts, aged, faults>>
        /\ lock' \in Tabs \cup {Free}
    BY <1>3 DEF HearRefresh
  <2>3. cookie' \in Known /\ tab' \in [Tabs -> Tab] /\ channel' \in [Tabs -> Seq(Messages)]
    <3>1. CASE call[t].new # 0
      <4>1. /\ cookie' = call[t].new /\ AfterSuccess(t, call[t].new)
            /\ Posts(t, call[t].new)
        BY <1>3, <3>1 DEF HearRefresh
      <4>2. call[t].new \in 0 .. MaxSessions
        BY <1>1, Standing
      <4> QED
        BY <1>1, <4>1, <4>2, TabShows, Posting
    <3>2. CASE call[t].new = 0
      BY <1>3, <3>2, Standing, TabShows DEF HearRefresh
    <3> QED
      BY <3>1, <3>2
  <2> QED
    BY <1>1, <2>1, <2>2, <2>3, Standing, CallDealt
<1>4. CASE LoseRefresh(t)
  <2> DEFINE q == [call[t] EXCEPT !.heard = FALSE]
  <2>1. /\ q \in Call /\ q.token = call[t].token /\ q.new = call[t].new
        /\ q.at = call[t].at
    BY <1>1 DEF Call
  <2>2. call' = [call EXCEPT ![t] = q]
    BY <1>4 DEF LoseRefresh
  <2> HIDE DEF q
  <2>3. /\ UNCHANGED <<account, sessions, act, acts, cookie, channel, aged>>
        /\ lock' \in Tabs \cup {Free} /\ faults' \in 0 .. MaxFaults
    BY <1>4, Standing DEF LoseRefresh
  <2>4. tab' \in [Tabs -> Tab]
    BY <1>4, TabShows DEF LoseRefresh
  <2> QED
    BY <1>1, <2>1, <2>2, <2>3, <2>4, Standing, CallDealt
<1>5. CASE ForgetRefresh(t)
  <2>1. call' = [call EXCEPT ![t] = NoCall] /\ NoCall.at = "IDLE" /\ NoCall.token = 0 /\ NoCall.new = 0
    BY <1>5 DEF ForgetRefresh, NoCall
  <2>2. UNCHANGED <<account, sessions, act, acts, tab, cookie, lock, channel, aged, faults>>
    BY <1>5 DEF ForgetRefresh, browserVars
  <2> QED
    BY <1>1, <2>1, <2>2, Standing, CallDealt
<1> QED
  BY <1>2, <1>3, <1>4, <1>5

\* A request of a client begins.
LEMMA AskKeeps ==
  ASSUME IInv, UNCHANGED <<account, sessions, call, browserVars>>,
         NEW c \in Clients, NEW op \in {"login", "logout", "logoutAll", "change", "reset"},
         NEW token \in {0, cookie}, op \in {"login", "change"} => Room,
         Ask(c, Asked(op, token))
  PROVE  IInv'
<1> DEFINE q == Asked(op, token)
<1>1. token \in Known /\ token \in 0 .. MaxSessions /\ 0 \in 0 .. MaxSessions
  BY Standing
<1>2. q \in Act /\ q.token = token /\ q.new = 0 /\ q.at = "SENT" /\ q.op = op
  BY <1>1 DEF Asked, NoAct, Act
<1>3. act' = [act EXCEPT ![c] = q] /\ acts' \in 0 .. MaxActs
  BY Standing DEF Ask, Acts
<1> HIDE DEF q
<1>4. UNCHANGED <<tab, cookie, lock, channel, aged, faults>>
  BY DEF browserVars
<1> QED
  BY <1>1, <1>2, <1>3, <1>4, Standing, ActDealt

LEMMA AsksKeep ==
  ASSUME IInv, AskElsewhere \/ \E t \in Tabs : Asks(t)
  PROVE  IInv'
<1>1. CASE AskElsewhere
  BY <1>1, AskKeeps DEF AskElsewhere, Clients
<1>2. CASE \E t \in Tabs : Asks(t)
  BY <1>2, AskKeeps DEF Asks, AskLogin, AskLogout, AskChange, Clients
<1> QED
  BY <1>1, <1>2

\* The answer of a request is heard, lost or forgotten.
LEMMA AnswerKeeps ==
  ASSUME IInv, NEW c \in Clients,
         \/ ForgetAnswer(c)
         \/ c \in Tabs /\ (HearSession(c) \/ HearLogout(c) \/ LoseAnswer(c))
  PROVE  IInv'
<1>1. /\ act[c] \in Act /\ act[c].token \in Known /\ act[c].new \in Known
      /\ NoAct \in Act /\ 0 \in Known /\ Known \subseteq Messages
      /\ NoAct.at = "IDLE" /\ NoAct.token = 0 /\ NoAct.new = 0
      /\ 0 \in 0 .. MaxSessions /\ act[c].new \in 0 .. MaxSessions
  BY ActToken, Standing DEF NoAct, Act
<1>2. CASE ForgetAnswer(c)
  <2>1. /\ act' = [act EXCEPT ![c] = NoAct]
        /\ UNCHANGED <<account, sessions, call, acts, tab, cookie, lock, channel, aged, faults>>
    BY <1>2 DEF ForgetAnswer, browserVars
  <2> QED
    BY <1>1, <2>1, Standing, ActDealt
<1>3. CASE c \in Tabs /\ HearSession(c)
  <2>1. /\ act' = [act EXCEPT ![c] = NoAct]
        /\ UNCHANGED <<account, sessions, call, acts, lock, aged, faults>>
    BY <1>3 DEF HearSession
  <2>2. cookie' \in Known /\ tab' \in [Tabs -> Tab] /\ channel' \in [Tabs -> Seq(Messages)]
    <3>1. CASE act[c].new # 0
      <4>1. /\ cookie' = act[c].new /\ Show(c, "authenticated", act[c].new)
            /\ Posts(c, act[c].new)
        BY <1>3, <3>1 DEF HearSession
      <4> QED
        BY <1>1, <1>3, <4>1, TabShows, Posting
    <3>2. CASE act[c].new = 0
      BY <1>3, <3>2, Standing DEF HearSession
    <3> QED
      BY <3>1, <3>2
  <2> QED
    BY <1>1, <2>1, <2>2, Standing, ActDealt
<1>4. CASE c \in Tabs /\ HearLogout(c)
  <2>1. /\ act' = [act EXCEPT ![c] = NoAct] /\ cookie' = 0
        /\ Show(c, "unauthenticated", 0) /\ Posts(c, 0)
        /\ UNCHANGED <<account, sessions, call, acts, lock, aged, faults>>
    BY <1>4 DEF HearLogout
  <2>2. tab' \in [Tabs -> Tab] /\ channel' \in [Tabs -> Seq(Messages)]
    BY <1>1, <1>4, <2>1, TabShows, Posting
  <2> QED
    BY <1>1, <2>1, <2>2, Standing, ActDealt
<1>5. CASE c \in Tabs /\ LoseAnswer(c)
  <2> DEFINE q == [act[c] EXCEPT !.heard = FALSE]
  <2>1. /\ q \in Act /\ q.token = act[c].token /\ q.new = act[c].new
        /\ q.at = act[c].at /\ q.op = act[c].op
    BY <1>1 DEF Act
  <2>2. act' = [act EXCEPT ![c] = q]
    BY <1>5 DEF LoseAnswer
  <2> HIDE DEF q
  <2>3. /\ UNCHANGED <<account, sessions, call, acts, cookie, lock, aged>>
        /\ faults' \in 0 .. MaxFaults
    BY <1>5, Standing DEF LoseAnswer
  <2>4. tab' \in [Tabs -> Tab] /\ channel' \in [Tabs -> Seq(Messages)]
    BY <1>1, <1>5, Standing, TabShows, Posting DEF LoseAnswer
  <2> QED
    BY <1>1, <2>1, <2>2, <2>3, <2>4, Standing, ActDealt
<1> QED
  BY <1>2, <1>3, <1>4, <1>5

-----------------------------------------------------------------------------
(* The invariant holds.                                                    *)

LEMMA Initially ==
  ASSUME Init
  PROVE  IInv
<1> DEFINE first == [family |-> 1, end |-> "LIVE", next |-> 0]
<1>1. /\ account = "ACTIVE" /\ sessions = <<first>>
      /\ call = [t \in Tabs |-> NoCall] /\ act = [c \in Clients |-> NoAct] /\ acts = 0
  BY DEF Init, ApiInit
<1>2. first \in SessionRecord /\ MaxSessions \in Nat /\ 1 <= MaxSessions /\ MaxSessions # 0
  BY SessionsAssumption DEF SessionRecord, Ends
<1>3. sessions \in Seq(SessionRecord) /\ Len(sessions) = 1 /\ DOMAIN sessions = {1} /\ sessions[1] = first
  <2> HIDE DEF first
  <2> QED
    BY <1>1, <1>2
<1>4. Rows /\ Lines /\ OneLive
  BY <1>2, <1>3 DEF Rows, Lines, OneLive
<1>5. Known = 0 .. 1 /\ 0 \in Known /\ 1 \in Known
  BY <1>3 DEF Known
<1>6. Tokens
  <2>1. NoCall \in Call /\ NoAct \in Act /\ cookie = 1
    BY <1>2 DEF Init, NoCall, Call, NoAct, Act
  <2> QED
    BY <1>1, <1>5, <2>1 DEF Tokens, NoCall, NoAct
<1>7. Claims
  BY <1>1 DEF Claims, NoCall
<1>8. HasRoom
  <2>1. Refreshing = {} /\ Entering = {}
    BY <1>1 DEF Refreshing, Entering, NoCall, NoAct
  <2>2. Cardinality(Refreshing) = 0 /\ Cardinality(Entering) = 0
    BY <2>1, FS_EmptySet
  <2> QED
    BY <1>2, <1>3, <2>2 DEF HasRoom
<1>9. Held
  <2>1. Loading \in Tab /\ <<>> \in Seq(Messages)
    BY <1>2, EmptySeq DEF Loading, Tab, Callers
  <2> QED
    BY <1>1, <2>1, SessionsAssumption DEF Init, Held, Account
<1> QED
  BY <1>4, <1>6, <1>7, <1>8, <1>9 DEF IInv

LEMMA Stuttering ==
  ASSUME IInv, UNCHANGED vars
  PROVE  IInv'
BY Standing, TabsDone DEF vars

LEMMA Inductive ==
  ASSUME IInv, [Next]_vars
  PROVE  IInv'
<1>1. CASE Api
  BY <1>1, ApiKeeps
<1>2. CASE \E t \in Tabs : Refreshes(t) \/ Hears(t) \/ Reload(t) \/ LoseRefresh(t) \/ ForgetRefresh(t)
                          \/ LoseAnswer(t)
  BY <1>2, TabsKeep, RefreshKeeps, AnswerKeeps DEF Refreshes, Hears, Clients
<1>3. CASE AskElsewhere \/ \E t \in Tabs : Asks(t)
  BY <1>3, AsksKeep
<1>4. CASE \E c \in Clients : ForgetAnswer(c)
  BY <1>4, AnswerKeeps
<1>5. CASE \E s \in DOMAIN sessions : Ages(s)
  BY <1>5, AgesKeeps
<1>6. CASE UNCHANGED vars
  BY <1>6, Stuttering
<1> QED
  BY <1>1, <1>2, <1>3, <1>4, <1>5, <1>6 DEF Next

\* Families, claims and the room for new sessions stay as IInv says, in every behaviour.
THEOREM SessionsInvariant == Spec => []IInv
<1>1. Init => IInv
  BY Initially
<1>2. IInv /\ [Next]_vars => IInv'
  BY Inductive
<1> QED
  BY <1>1, <1>2, PTL DEF Spec

-----------------------------------------------------------------------------
(* One session that may be used in each family.                            *)

\* However requests interleave, a family has at most one live session, and what replaced
\* a session is later and of its family (SessionService.rotate).
THEOREM OneLivePerFamilyHolds == Spec => []OneLivePerFamily
<1>1. ASSUME IInv PROVE TypeOK
  <2>1. cookie \in 0 .. MaxSessions
    BY <1>1, Standing
  <2>2. \A s \in DOMAIN sessions : sessions[s].next # 0 =>
          /\ ~IsLive(s)
          /\ sessions[s].next \in (s + 1) .. Len(sessions)
          /\ sessions[sessions[s].next].family = sessions[s].family
    BY <1>1 DEF IInv, Lines
  <2> QED
    BY <1>1, <2>1, <2>2 DEF IInv, Rows, Tokens, Held, TypeOK
<1>2. ASSUME IInv, NEW f \in DOMAIN sessions
      PROVE  Cardinality({s \in Family(f) : IsLive(s)}) <= 1
  <2> DEFINE live == {s \in Family(f) : IsLive(s)}
  <2>1. \A s, u \in live : s = u
    BY <1>2 DEF IInv, OneLive, Family
  <2> HIDE DEF live
  <2>2. CASE live = {}
    BY <2>2, FS_EmptySet DEF live
  <2>3. CASE live # {}
    <3>1. PICK s : s \in live
      BY <2>3
    <3>2. live = {s}
      BY <2>1, <3>1
    <3>3. Cardinality(live) = 1
      BY <3>2, FS_Singleton
    <3> QED
      BY <3>3 DEF live
  <2> QED
    BY <2>2, <2>3
<1>3. IInv => OneLivePerFamily
  BY <1>1, <1>2 DEF OneLivePerFamily
<1> QED
  BY <1>3, SessionsInvariant, PTL

-----------------------------------------------------------------------------
(* What has died stays dead.                                               *)

-----------------------------------------------------------------------------
(* What has died stays dead.                                               *)

\* A step ends sessions, opens a family or gives a claimed session its successor; a claim
\* needs a session that may be used.
Effects ==
  /\ \/ Revokes
     \/ Opens
     \/ \E t \in Tabs : call[t].at = "CLAIMED" /\ Succeeds(call[t].token)
  /\ \A t \in Tabs : call'[t].at = "CLAIMED" =>
       /\ call'[t].token = call[t].token
       /\ \/ call[t].at = "CLAIMED"
          \/ call[t].at = "READ" /\ IsLive(call[t].token)

LEMMA CallEffects ==
  ASSUME IInv, NEW t \in Tabs, Rotates(t), UNCHANGED browserVars
  PROVE  Effects
<1>1. Rows /\ call \in [Tabs -> Call]
  BY DEF IInv, Tokens
<1>2. CASE CallReads(t)
  <2>1. Revokes
    <3>1. CASE UNCHANGED sessions
      BY <1>1, <3>1, Untouched
    <3>2. CASE sessions' = Revoked(Family(sessions[call[t].token].family), "REUSE_DETECTED")
      BY <1>1, <3>2, Revoking DEF Ends
    <3> QED
      BY <1>2, <3>1, <3>2 DEF CallReads
  <2>2. \A u \in Tabs : call'[u].at = "CLAIMED" => call'[u] = call[u]
    BY <1>1, <1>2 DEF CallReads, Answered, Call
  <2> QED
    BY <2>1, <2>2 DEF Effects
<1>3. CASE CallClaims(t)
  <2>1. call[t].token \in DOMAIN sessions /\ call[t].at = "READ"
    BY <1>3, CallToken DEF CallClaims
  <2>2. Revokes
    <3>1. CASE UNCHANGED sessions
      BY <1>1, <3>1, Untouched
    <3>2. CASE sessions' = [sessions EXCEPT ![call[t].token].end = "ROTATED"]
      <4> DEFINE s == call[t].token
      <4>1. s \in DOMAIN sessions /\ sessions' = [sessions EXCEPT ![s].end = "ROTATED"]
            /\ "ROTATED" \in Ends \ {"LIVE"}
        BY <2>1, <3>2 DEF Ends
      <4> HIDE DEF s
      <4> QED
        BY <1>1, <4>1, Ending
    <3> QED
      BY <1>3, <3>1, <3>2 DEF CallClaims
  <2>3. \A u \in Tabs : call'[u].at = "CLAIMED" =>
          /\ call'[u].token = call[u].token
          /\ call'[u] = call[u] \/ (u = t /\ IsLive(call[t].token))
    BY <1>1, <1>3 DEF CallClaims, Claimable, Answered, Call
  <2> QED
    BY <2>1, <2>2, <2>3 DEF Effects
<1>4. CASE CallCreates(t)
  <2>1. call[t].at = "CLAIMED" /\ Succeeds(call[t].token)
    BY <1>4, SuccessorKeeps DEF CallCreates
  <2>2. \A u \in Tabs : call'[u].at = "CLAIMED" => call'[u] = call[u]
    BY <1>1, <1>4 DEF CallCreates, Call
  <2> QED
    BY <2>1, <2>2 DEF Effects
<1>5. CASE CallChecks(t)
  <2>1. Revokes
    BY <1>5, CheckKeeps
  <2>2. \A u \in Tabs : call'[u].at = "CLAIMED" => call'[u] = call[u]
    BY <1>1, <1>5 DEF CallChecks, Answered, Call
  <2> QED
    BY <2>1, <2>2 DEF Effects
<1> QED
  BY <1>2, <1>3, <1>4, <1>5 DEF Rotates

LEMMA StepEffects ==
  ASSUME IInv, [Next]_vars
  PROVE  Effects
<1>1. Rows /\ call \in [Tabs -> Call]
  BY DEF IInv, Tokens
<1>2. CASE Api
  <2>1. CASE \E t \in Tabs : Rotates(t)
    BY <1>2, <2>1, CallEffects DEF Api
  <2>2. CASE \E c \in Clients : Handles(c)
    <3>1. (Revokes \/ Opens) /\ call' = call
      BY <1>2, <2>2, LoginCreatesKeeps, ChangePasswordKeeps, OthersRevoke
      DEF Api, Handles, Others, LoginCreates, ChangePassword
    <3> QED
      BY <3>1 DEF Effects
  <2>3. CASE Suspend
    BY <1>1, <2>3, Untouched DEF Suspend, Effects
  <2> QED
    BY <1>2, <2>1, <2>2, <2>3 DEF Api
<1>3. CASE \E t \in Tabs : SendRefresh(t) \/ HearRefresh(t) \/ LoseRefresh(t) \/ ForgetRefresh(t)
  <2>1. UNCHANGED sessions
    BY <1>3 DEF SendRefresh, HearRefresh, LoseRefresh, ForgetRefresh
  <2>2. \A t \in Tabs : call'[t].at = "CLAIMED" =>
          call[t].at = "CLAIMED" /\ call'[t].token = call[t].token
    <3>1. CASE \E t \in Tabs : SendRefresh(t)
      BY <1>1, <3>1 DEF SendRefresh, NoCall
    <3>2. CASE \E t \in Tabs : HearRefresh(t) \/ ForgetRefresh(t)
      <4>1. PICK t \in Tabs : call' = [call EXCEPT ![t] = NoCall]
        BY <3>2 DEF HearRefresh, ForgetRefresh
      <4> QED
        BY <1>1, <4>1 DEF NoCall
    <3>3. CASE \E t \in Tabs : LoseRefresh(t)
      <4>1. PICK t \in Tabs : call' = [call EXCEPT ![t].heard = FALSE]
        BY <3>3 DEF LoseRefresh
      <4> QED
        BY <1>1, <4>1 DEF Call
    <3> QED
      BY <1>3, <3>1, <3>2, <3>3
  <2> QED
    BY <1>1, <2>1, <2>2, Untouched DEF Effects
<1>4. CASE UNCHANGED <<sessions, call>>
  BY <1>1, <1>4, Untouched DEF Effects
<1>5. CASE \E t \in Tabs : \/ PreventiveRefresh(t) \/ Unauthorized(t) \/ AdoptToken(t)
                           \/ Asks(t) \/ Hears(t) \/ Reload(t) \/ LoseAnswer(t)
  BY <1>4, <1>5 DEF PreventiveRefresh, Unauthorized, AdoptToken, apiVars, Asks, AskLogin, AskLogout,
    AskChange, Hears, HearSession, HearLogout, Deliver, Reload, LoseAnswer
<1>6. CASE \/ AskElsewhere \/ \E c \in Clients : ForgetAnswer(c)
           \/ \E s \in DOMAIN sessions : Ages(s)
  BY <1>4, <1>6 DEF AskElsewhere, ForgetAnswer, Ages
<1>7. CASE UNCHANGED vars
  BY <1>4, <1>7 DEF vars
<1> QED
  BY <1>2, <1>3, <1>5, <1>6, <1>7 DEF Next, Refreshes

LEMMA DeadStays ==
  ASSUME IInv, IInv', Effects, NEW f \in DOMAIN sessions, Dead(f)
  PROVE  Dead(f)'
<1>1. Rows /\ Lines
  BY DEF IInv
<1>2. Revokes \/ (NextId <= MaxSessions /\ (Opens \/ \E s : Succeeds(s)))
  <2>1. Len(sessions') <= MaxSessions
    BY SessionsAssumption DEF IInv, Rows
  <2> QED
    BY <2>1 DEF Effects, Opens, Succeeds
<1>3. /\ Kept /\ f # NextId
      /\ \A s \in DOMAIN sessions' : s \in DOMAIN sessions \/ s = NextId
  BY <1>1, <1>2, SessionsGrow, SessionsStay
<1>4. ASSUME NEW s \in DOMAIN sessions', sessions'[s].family = f
      PROVE  sessions'[s].end # "LIVE"
  <2>1. CASE s \in DOMAIN sessions
    BY <1>3, <1>4, <2>1 DEF Kept, Dead, Family, IsLive
  <2>2. CASE s \notin DOMAIN sessions
    <3>1. s = NextId /\ ~Revokes
      <4>1. s = NextId
        BY <1>3, <2>2
      <4>2. ASSUME Revokes PROVE FALSE
        <5>1. DOMAIN sessions' = DOMAIN sessions
          BY <1>1, <4>2, SessionsGrow DEF Revokes
        <5> QED
          BY <2>2, <5>1
      <4> QED
        BY <4>1, <4>2
    <3>2. CASE Opens
      BY <1>3, <1>4, <3>1, <3>2 DEF Opens, FirstOfFamily
    <3>3. CASE \E t \in Tabs : call[t].at = "CLAIMED" /\ Succeeds(call[t].token)
      BY <1>4, <3>1, <3>3 DEF Succeeds, Successor, Dead
    <3> QED
      BY <3>1, <3>2, <3>3 DEF Effects
  <2> QED
    BY <2>1, <2>2
<1>5. ASSUME NEW t \in Tabs, call'[t].at = "CLAIMED"
      PROVE  sessions'[call'[t].token].family # f
  <2>1. call'[t].token = call[t].token /\ call[t].token \in DOMAIN sessions
    BY <1>5, CallToken DEF Effects
  <2>2. sessions'[call'[t].token].family = sessions[call[t].token].family
    BY <1>3, <2>1 DEF Kept
  <2>3. sessions[call[t].token].family # f
    BY <1>5, <2>1 DEF Effects, Dead, Family
  <2> QED
    BY <2>2, <2>3
<1> QED
  BY <1>4, <1>5 DEF Dead, Family, IsLive

\* A family without a session that may be used and without a rotation past its claim never
\* has one again (SessionService.rotate claims the session it has read).
THEOREM DeadFamiliesStayDeadHolds == Spec => DeadFamiliesStayDead
<1>1. IInv /\ IInv' /\ [Next]_vars =>
        [\A f \in DOMAIN sessions : Family(f) # {} /\ Dead(f) => Dead(f)']_vars
  BY StepEffects, DeadStays
<1> QED
  BY <1>1, SessionsInvariant, PTL DEF Spec, DeadFamiliesStayDead

-----------------------------------------------------------------------------
(* Tabs and thieves: while no connection has broken, a consumed token that *)
(* comes back belongs to a family that is dead already.                    *)

\* A token that may be presented without harm: it may be used, or nothing of its family may.
Sound(x) == IsLive(x) \/ \A s \in DOMAIN sessions : sessions[s].family = sessions[x].family => ~IsLive(s)

\* The refresh of tab t has a successor to bring.
Brings(t) == call[t].at \in {"CREATED", "ANSWERED"} /\ call[t].new # 0

\* The lock lets one refresh through at a time, and everybody is still there to hear it.
Alone == \A t \in Tabs : call[t].at # "IDLE" => call[t].heard /\ lock = t

CookieIsSound ==
  cookie # 0 => Sound(cookie) \/ \E t \in Tabs : Brings(t) /\ call[t].token = cookie

CallsAreSound ==
  \A t \in Tabs :
    /\ call[t].at \in {"SENT", "READ"} /\ call[t].token # 0 => Sound(call[t].token)
    /\ Brings(t) => /\ call[t].token # 0 /\ Sound(call[t].new)
                    /\ sessions[call[t].new].family = sessions[call[t].token].family
    /\ /\ call[t].at # "IDLE" /\ call[t].token # 0 /\ cookie # 0
       /\ sessions[cookie].family = sessions[call[t].token].family
       => cookie = call[t].token

\* The session that a login or a change of password brings is nobody else's yet.
OwnSession ==
  \A c \in Clients : act[c].new # 0 =>
    /\ \A s \in DOMAIN sessions : sessions[s].family = sessions[act[c].new].family => s = act[c].new
    /\ act[c].new # cookie
    /\ \A t \in Tabs : call[t].at # "IDLE" => call[t].token # act[c].new
    /\ \A d \in Clients : act[d].new = act[c].new => d = c

NoReuse == \A s \in DOMAIN sessions : sessions[s].end # "REUSE_DETECTED"

Unbroken == Alone /\ CookieIsSound /\ CallsAreSound /\ OwnSession /\ NoReuse

Quiet == faults = 0 => Unbroken

LEMMA SoundStays ==
  ASSUME IInv, Revokes \/ (NextId <= MaxSessions /\ (Opens \/ \E s : Succeeds(s))),
         NEW x \in DOMAIN sessions, Sound(x),
         \A s : Succeeds(s) => sessions[s].family # sessions[x].family
  PROVE  Sound(x)'
<1>1. Rows /\ Lines /\ OneLive
  BY DEF IInv
<1>2. /\ Kept /\ DOMAIN sessions \subseteq DOMAIN sessions'
      /\ \A s \in DOMAIN sessions' : s \in DOMAIN sessions \/ s = NextId
      /\ sessions[x].family # NextId
  BY <1>1, SessionsGrow, SessionsStay
<1> SUFFICES ASSUME sessions'[x].end # "LIVE", NEW u \in DOMAIN sessions',
                    sessions'[u].family = sessions'[x].family
             PROVE  sessions'[u].end # "LIVE"
  BY DEF Sound, IsLive
<1>3. sessions'[u].family = sessions[x].family
  BY <1>2 DEF Kept
<1>4. CASE u \in DOMAIN sessions
  <2>1. CASE u = x
    BY <2>1
  <2>2. CASE u # x
    <3>1. sessions[u].family = sessions[x].family
      BY <1>2, <1>3, <1>4 DEF Kept
    <3>2. sessions[u].end # "LIVE"
      BY <1>1, <1>4, <2>2, <3>1 DEF OneLive, Sound, IsLive
    <3> QED
      BY <1>2, <1>4, <3>2 DEF Kept
  <2> QED
    BY <2>1, <2>2
<1>5. CASE u \notin DOMAIN sessions
  <2>1. u = NextId /\ ~Revokes
    <3>1. ASSUME Revokes PROVE FALSE
      <4>1. DOMAIN sessions' = DOMAIN sessions
        BY <1>1, <3>1, SessionsGrow DEF Revokes
      <4> QED
        BY <1>5, <4>1
    <3> QED
      BY <1>2, <1>5, <3>1
  <2>2. CASE Opens
    BY <1>2, <1>3, <2>1, <2>2 DEF Opens, FirstOfFamily
  <2>3. CASE \E s : Succeeds(s)
    BY <1>3, <2>1, <2>3 DEF Succeeds, Successor
  <2> QED
    BY <2>1, <2>2, <2>3
<1> QED
  BY <1>4, <1>5

\* One refresh at a time.
LEMMA OneCall ==
  ASSUME Alone, NEW t \in Tabs, NEW u \in Tabs, call[t].at # "IDLE", call[u].at # "IDLE"
  PROVE  u = t
BY DEF Alone

\* Nobody's rows but the ones that are new: what a revocation or a login leaves of Unbroken.
LEMMA RowsQuiet ==
  ASSUME IInv, IInv', Unbroken, Revokes \/ Opens, UNCHANGED browserVars, UNCHANGED call
  PROVE  Alone' /\ CookieIsSound' /\ CallsAreSound'
<1>1. Rows /\ Lines
  BY DEF IInv
<1>2. Revokes \/ (NextId <= MaxSessions /\ Opens)
  BY DEF IInv, Rows, Opens
<1>3. Kept /\ \A s : ~Succeeds(s)
  BY <1>1, <1>2, SessionsGrow, SessionsStay
<1>4. \A x \in DOMAIN sessions : Sound(x) => Sound(x)'
  BY <1>2, <1>3, SoundStays
<1>5. cookie # 0 => cookie \in DOMAIN sessions
  BY SessionsAreNumbers DEF IInv, Tokens, Known
<1>6. \A t \in Tabs : /\ call[t].token # 0 => call[t].token \in DOMAIN sessions
                      /\ call[t].new # 0 => call[t].new \in DOMAIN sessions
  BY SessionsAreNumbers DEF IInv, Tokens, Known
<1>7. UNCHANGED <<cookie, lock>>
  BY DEF browserVars
<1>8. Alone'
  BY <1>7 DEF Unbroken, Alone
<1>9. CookieIsSound'
  <2> SUFFICES ASSUME cookie # 0
               PROVE  Sound(cookie)' \/ \E t \in Tabs : Brings(t) /\ call[t].token = cookie
    BY <1>7 DEF CookieIsSound, Brings
  <2>1. CASE Sound(cookie)
    <3>1. \A x : x = cookie => (Sound(x) => Sound(x)')
      BY <1>4, <1>5
    <3> QED
      BY <1>7, <2>1, <3>1 DEF Sound, IsLive
  <2> QED
    BY <2>1 DEF Unbroken, CookieIsSound
<1>10. CallsAreSound'
  <2> SUFFICES ASSUME NEW t \in Tabs
               PROVE  /\ call[t].at \in {"SENT", "READ"} /\ call[t].token # 0 =>
                           Sound(call[t].token)'
                      /\ Brings(t) => /\ call[t].token # 0 /\ Sound(call[t].new)'
                                      /\ sessions'[call[t].new].family = sessions'[call[t].token].family
                      /\ /\ call[t].at # "IDLE" /\ call[t].token # 0 /\ cookie # 0
                         /\ sessions'[cookie].family = sessions'[call[t].token].family
                         => cookie = call[t].token
    BY <1>7 DEF CallsAreSound, Brings
  <2>1. \A x \in DOMAIN sessions : sessions'[x].family = sessions[x].family
    BY <1>3 DEF Kept
  <2>2. ASSUME call[t].at \in {"SENT", "READ"}, call[t].token # 0
        PROVE  Sound(call[t].token)'
    <3> DEFINE x == call[t].token
    <3>1. x \in DOMAIN sessions /\ Sound(x)
      BY <1>6, <2>2 DEF Unbroken, CallsAreSound
    <3> QED
      BY <1>4, <3>1 DEF Sound, IsLive
  <2>3. ASSUME Brings(t)
        PROVE  /\ call[t].token # 0 /\ Sound(call[t].new)'
               /\ sessions'[call[t].new].family = sessions'[call[t].token].family
    <3> DEFINE x == call[t].new
    <3>1. /\ x \in DOMAIN sessions /\ Sound(x) /\ call[t].token # 0
          /\ call[t].token \in DOMAIN sessions
          /\ sessions[x].family = sessions[call[t].token].family
      BY <1>6, <2>3 DEF Unbroken, CallsAreSound, Brings
    <3> QED
      BY <1>4, <2>1, <3>1 DEF Sound, IsLive
  <2> QED
    BY <1>5, <1>6, <2>1, <2>2, <2>3 DEF Unbroken, CallsAreSound
<1> QED
  BY <1>8, <1>9, <1>10

\* A session that a login or a change has brought keeps to itself.
LEMMA OwnStays ==
  ASSUME IInv, Unbroken, Revokes \/ (NextId <= MaxSessions /\ Opens),
         UNCHANGED <<call, cookie>>, act' \in [Clients -> Act], NEW c \in Clients,
         \A d \in Clients \ {c} : act'[d].new = act[d].new,
         act'[c].new \in {0, act[c].new} \/ (Opens /\ act'[c].new = NextId)
  PROVE  OwnSession'
<1>1. Rows /\ Lines
  BY DEF IInv
<1>2. /\ Kept
      /\ \A s \in DOMAIN sessions' : s \in DOMAIN sessions \/ s = NextId
      /\ \A s \in DOMAIN sessions : s # NextId /\ sessions[s].family # NextId
      /\ DOMAIN sessions' # DOMAIN sessions => Opens
  <2>1. Revokes => DOMAIN sessions' = DOMAIN sessions
    BY <1>1, SessionsGrow DEF Revokes
  <2> QED
    BY <1>1, <2>1, SessionsGrow, SessionsStay
<1>3. /\ cookie # 0 => cookie \in DOMAIN sessions
      /\ \A d \in Clients : act[d].new # 0 => act[d].new \in DOMAIN sessions
      /\ \A t \in Tabs : call[t].token # 0 => call[t].token \in DOMAIN sessions
  BY SessionsAreNumbers DEF IInv, Tokens, Known
<1>4. NextId # 0
  BY SessionsAreNumbers DEF NextId, IInv
<1>5. Opens => sessions'[NextId].family = NextId
  BY DEF Opens, FirstOfFamily
<1> SUFFICES ASSUME NEW d \in Clients, act'[d].new # 0
             PROVE  /\ \A s \in DOMAIN sessions' :
                         sessions'[s].family = sessions'[act'[d].new].family => s = act'[d].new
                    /\ act'[d].new # cookie
                    /\ \A t \in Tabs : call[t].at # "IDLE" => call[t].token # act'[d].new
                    /\ \A e \in Clients : act'[e].new = act'[d].new => e = d
  BY DEF OwnSession
<1>6. \A e \in Clients : act'[e].new \in {0, act[e].new} \/ (e = c /\ Opens /\ act'[e].new = NextId)
  OBVIOUS
<1>7. CASE act'[d].new = act[d].new
  <2> DEFINE x == act[d].new
  <2>1. /\ x \in DOMAIN sessions
        /\ \A s \in DOMAIN sessions : sessions[s].family = sessions[x].family => s = x
        /\ x # cookie /\ \A t \in Tabs : call[t].at # "IDLE" => call[t].token # x
        /\ \A e \in Clients : act[e].new = x => e = d
    BY <1>3, <1>7 DEF Unbroken, OwnSession
  <2>2. \A s \in DOMAIN sessions' : sessions'[s].family = sessions'[x].family => s = x
    BY <1>2, <1>5, <2>1 DEF Kept
  <2>3. \A e \in Clients : act'[e].new = x => e = d
    BY <1>2, <1>6, <1>7, <2>1
  <2> QED
    BY <1>7, <2>1, <2>2, <2>3
<1>8. CASE d = c /\ Opens /\ act'[d].new = NextId
  <2>1. \A s \in DOMAIN sessions' : sessions'[s].family = NextId => s = NextId
    BY <1>2 DEF Kept
  <2>2. NextId # cookie /\ \A t \in Tabs : call[t].token # NextId
    BY <1>2, <1>3, <1>4
  <2>3. \A e \in Clients : act'[e].new = NextId => e = d
    BY <1>2, <1>3, <1>4, <1>6, <1>8
  <2> QED
    BY <1>5, <1>8, <2>1, <2>2, <2>3
<1> QED
  BY <1>6, <1>7, <1>8

\* No row gets REUSE_DETECTED where a handler gives another reason, or none.
LEMMA OtherReasons ==
  ASSUME Rows, NoReuse, NEW S, NEW reason \in Ends \ {"LIVE", "REUSE_DETECTED"}
  PROVE  \A s \in DOMAIN sessions : Revoked(S, reason)[s].end # "REUSE_DETECTED"
<1>1. reason \in Ends \ {"LIVE"} /\ reason # "REUSE_DETECTED"
  OBVIOUS
<1>2. \A s \in DOMAIN sessions :
        Revoked(S, reason)[s].end # sessions[s].end => Revoked(S, reason)[s].end = reason
  BY <1>1, RevokedRows
<1> QED
  BY <1>1, <1>2 DEF NoReuse

LEMMA HandlersQuiet ==
  ASSUME IInv, IInv', Unbroken, NEW c \in Clients, Handles(c), UNCHANGED browserVars
  PROVE  Unbroken'
<1>1. Rows /\ NoReuse /\ act \in [Clients -> Act] /\ DOMAIN sessions = 1 .. Len(sessions)
  BY SessionsAreNumbers DEF IInv, Unbroken, Tokens
<1>2. /\ Revokes \/ Opens
      /\ UNCHANGED call
      /\ \A d \in Clients \ {c} : act'[d].new = act[d].new
      /\ act'[c].new \in {0, act[c].new} \/ (Opens /\ act'[c].new = NextId)
  <2>1. CASE LoginCreates(c) \/ ChangePassword(c)
    BY <2>1, LoginCreatesKeeps, ChangePasswordKeeps DEF LoginCreates, ChangePassword, ActGoes
  <2>2. CASE Others(c)
    <3>1. Revokes /\ UNCHANGED call /\ (Reply(c, 0) \/ Reads(c))
      BY <2>2, OthersRevoke
    <3> QED
      BY <1>1, <3>1 DEF Reply, Reads, Act
  <2> QED
    BY <2>1, <2>2 DEF Handles, Others
<1>3. NoReuse'
  <2>1. CASE LoginCreates(c)
    <3>1. FirstOfFamily \in SessionRecord /\ FirstOfFamily.end = "LIVE"
      <4>1. NextId <= MaxSessions
        BY <2>1, RoomForOne DEF IInv, LoginCreates, AskedFrom, Entering
      <4> QED
        BY <1>1, <4>1, SessionsAreNumbers, SessionsAssumption
        DEF FirstOfFamily, SessionRecord, Ends, NextId
    <3>2. sessions' = Append(sessions, FirstOfFamily) /\ sessions \in Seq(SessionRecord)
      BY <1>1, <2>1 DEF LoginCreates, Rows
    <3> HIDE DEF FirstOfFamily
    <3>3. /\ \A s \in DOMAIN sessions : sessions'[s] = sessions[s]
          /\ sessions'[Len(sessions) + 1] = FirstOfFamily
      BY <3>1, <3>2, Appended
    <3>4. \A s \in DOMAIN sessions' : s \in DOMAIN sessions \/ s = Len(sessions) + 1
      BY <2>1, <3>2, LoginCreatesKeeps, SessionsStay DEF IInv, Rows, Opens, NextId
    <3> QED
      BY <1>1, <3>1, <3>3, <3>4 DEF NoReuse
  <2>2. CASE ChangePassword(c)
    <3> DEFINE left == Revoked(DOMAIN sessions, "PASSWORD_CHANGED")
    <3>1. FirstOfFamily \in SessionRecord /\ FirstOfFamily.end = "LIVE"
      <4>1. NextId <= MaxSessions
        BY <2>2, RoomForOne DEF IInv, ChangePassword, AskedFrom, Entering
      <4> QED
        BY <1>1, <4>1, SessionsAreNumbers, SessionsAssumption
        DEF FirstOfFamily, SessionRecord, Ends, NextId
    <3>2. sessions' = Append(left, FirstOfFamily)
      BY <2>2 DEF ChangePassword
    <3>3. /\ left \in Seq(SessionRecord) /\ Len(left) = Len(sessions)
          /\ DOMAIN left = DOMAIN sessions
          /\ \A s \in DOMAIN sessions : left[s].end # "REUSE_DETECTED"
      BY <1>1, RevokedRows, OtherReasons DEF Ends
    <3> HIDE DEF left, FirstOfFamily
    <3>4. /\ \A s \in DOMAIN sessions : sessions'[s] = left[s]
          /\ sessions'[Len(sessions) + 1] = FirstOfFamily
      BY <3>1, <3>2, <3>3, Appended
    <3>5. \A s \in DOMAIN sessions' : s \in DOMAIN sessions \/ s = Len(sessions) + 1
      BY <2>2, ChangePasswordKeeps, SessionsStay DEF IInv, Rows, Opens, NextId
    <3> QED
      BY <1>1, <3>1, <3>3, <3>4, <3>5 DEF NoReuse
  <2>3. CASE UNCHANGED sessions
    BY <1>1, <2>3 DEF NoReuse
  <2>4. CASE LogoutRevokes(c)
    <3>1. sessions' = [sessions EXCEPT ![act[c].token].end = "LOGOUT"]
      BY <2>4 DEF LogoutRevokes
    <3>2. \A s \in DOMAIN sessions : sessions[s] \in SessionRecord
      BY <1>1, SessionsAreNumbers
    <3> QED
      BY <1>1, <3>1, <3>2 DEF NoReuse, SessionRecord
  <2>5. CASE LogoutAll(c)
    <3>1. sessions' = Revoked(DOMAIN sessions, "LOGOUT_ALL")
      BY <2>5 DEF LogoutAll
    <3>2. \A s \in DOMAIN sessions : sessions'[s].end # "REUSE_DETECTED"
      BY <1>1, <3>1, OtherReasons DEF Ends
    <3> QED
      BY <3>1, <3>2 DEF NoReuse, Revoked
  <2>6. CASE sessions' = Revoked(DOMAIN sessions, "PASSWORD_RESET")
    <3>1. \A s \in DOMAIN sessions : sessions'[s].end # "REUSE_DETECTED"
      BY <1>1, <2>6, OtherReasons DEF Ends
    <3> QED
      BY <2>6, <3>1 DEF NoReuse, Revoked
  <2> QED
    BY <2>1, <2>2, <2>3, <2>4, <2>5, <2>6 DEF Handles, LoginChecks, LogoutReads, ChangeChecks, ResetReads,
      ResetPassword
<1>4. Alone' /\ CookieIsSound' /\ CallsAreSound'
  BY <1>2, RowsQuiet
<1>5. OwnSession'
  <2>1. Revokes \/ (NextId <= MaxSessions /\ Opens)
    BY <1>2 DEF IInv, Rows, Opens
  <2>2. UNCHANGED cookie /\ act' \in [Clients -> Act]
    BY DEF browserVars, IInv, Tokens
  <2> QED
    BY <1>2, <2>1, <2>2, OwnStays
<1> QED
  BY <1>3, <1>4, <1>5 DEF Unbroken

LEMMA SuspendQuiet ==
  ASSUME IInv, IInv', Unbroken, Suspend, UNCHANGED browserVars
  PROVE  Unbroken'
<1>1. Revokes /\ UNCHANGED <<sessions, call, act>>
  BY Untouched DEF Suspend, IInv
<1>2. Alone' /\ CookieIsSound' /\ CallsAreSound'
  BY <1>1, RowsQuiet
<1>3. OwnSession' /\ NoReuse'
  BY <1>1 DEF browserVars, Unbroken, OwnSession, NoReuse
<1> QED
  BY <1>2, <1>3 DEF Unbroken

\* Sound, of what the sessions are after a step.
SoundLater(x) ==
  \/ sessions'[x].end = "LIVE"
  \/ \A s \in DOMAIN sessions' :
       sessions'[s].family = sessions'[x].family => sessions'[s].end # "LIVE"

\* One call comes further, with the calls of the other tabs at rest.
LEMMA CallQuiet ==
  ASSUME IInv, IInv', Unbroken, UNCHANGED browserVars, UNCHANGED act, NoReuse',
         NEW t \in Tabs, NEW at, NEW new, CallGoes(t, at, new), call[t].at # "IDLE",
         at \in {"READ", "CLAIMED", "CREATED", "ANSWERED"},
         at = "READ" /\ call[t].token # 0 => SoundLater(call[t].token),
         at \in {"CREATED", "ANSWERED"} /\ new # 0 =>
           /\ call[t].token # 0 /\ SoundLater(new)
           /\ sessions'[new].family = sessions'[call[t].token].family,
         cookie # 0 =>
           \/ SoundLater(cookie)
           \/ at \in {"CREATED", "ANSWERED"} /\ new # 0 /\ cookie = call[t].token,
         Kept,
         \A c \in Clients : act[c].new # 0 =>
           \A s \in DOMAIN sessions' :
             sessions'[s].family = sessions'[act[c].new].family => s = act[c].new
  PROVE  Unbroken'
<1>1. UNCHANGED <<cookie, lock>>
  BY DEF browserVars
<1>2. \A u \in Tabs \ {t} : call'[u] = call[u] /\ call[u].at = "IDLE"
  BY OneCall DEF CallGoes, Unbroken
<1>3. /\ call'[t].at = at /\ call'[t].new = new /\ call'[t].token = call[t].token
      /\ call'[t].heard = call[t].heard
  BY DEF CallGoes
<1>4. Alone'
  BY <1>1, <1>2, <1>3 DEF Unbroken, Alone
<1>5. CookieIsSound'
  BY <1>1, <1>3 DEF CookieIsSound, Brings, Sound, SoundLater, IsLive
<1>6. /\ cookie # 0 => cookie \in DOMAIN sessions
      /\ call[t].token # 0 => call[t].token \in DOMAIN sessions
  BY SessionsAreNumbers DEF IInv, Tokens, Known
<1>7. ASSUME call[t].token # 0, cookie # 0,
             sessions'[cookie].family = sessions'[call[t].token].family
      PROVE  cookie = call[t].token
  BY <1>6, <1>7 DEF Unbroken, CallsAreSound, Kept
<1>8. CallsAreSound'
  <2> SUFFICES ASSUME NEW u \in Tabs, call'[u].at # "IDLE"
               PROVE  /\ call'[u].at \in {"SENT", "READ"} /\ call'[u].token # 0 =>
                           SoundLater(call'[u].token)
                      /\ call'[u].at \in {"CREATED", "ANSWERED"} /\ call'[u].new # 0 =>
                           /\ call'[u].token # 0 /\ SoundLater(call'[u].new)
                           /\ sessions'[call'[u].new].family = sessions'[call'[u].token].family
                      /\ /\ call'[u].token # 0 /\ cookie # 0
                         /\ sessions'[cookie].family = sessions'[call'[u].token].family
                         => cookie = call'[u].token
    BY <1>1 DEF CallsAreSound, Brings, Sound, SoundLater, IsLive
  <2>1. u = t
    BY <1>2
  <2> QED
    BY <1>3, <1>7, <2>1
<1>9. OwnSession'
  BY <1>1, <1>2, <1>3 DEF Unbroken, OwnSession
<1> QED
  BY <1>4, <1>5, <1>8, <1>9 DEF Unbroken

\* What stays true of tokens that are sound, and of sessions that are somebody's own, when
\* a step ends sessions.
LEMMA RevokesQuiet ==
  ASSUME IInv, Unbroken, Revokes
  PROVE  /\ Kept /\ DOMAIN sessions' = DOMAIN sessions
         /\ \A x \in DOMAIN sessions : Sound(x) => SoundLater(x)
         /\ \A c \in Clients : act[c].new # 0 =>
              \A s \in DOMAIN sessions' :
                sessions'[s].family = sessions'[act[c].new].family => s = act[c].new
<1>1. Rows /\ Lines
  BY DEF IInv
<1>2. Kept /\ DOMAIN sessions' = DOMAIN sessions
  BY <1>1, SessionsGrow DEF Revokes
<1>3. \A s : ~Succeeds(s)
  BY <1>1, SessionsStay
<1>4. \A x \in DOMAIN sessions : Sound(x) => SoundLater(x)
  BY <1>3, SoundStays DEF Sound, SoundLater, IsLive
<1>5. \A c \in Clients : act[c].new # 0 => act[c].new \in DOMAIN sessions
  BY SessionsAreNumbers DEF IInv, Tokens, Known
<1> QED
  BY <1>2, <1>4, <1>5 DEF Unbroken, OwnSession, Kept

\* A token that is sound and has been consumed takes nothing with it.
LEMMA NothingReused ==
  ASSUME Unbroken, NEW x \in DOMAIN sessions, Sound(x), ~IsLive(x),
         sessions' = Revoked(Family(sessions[x].family), "REUSE_DETECTED")
  PROVE  NoReuse'
BY DEF Unbroken, NoReuse, Sound, Revoked, Family

LEMMA ReadQuiet ==
  ASSUME IInv, IInv', Unbroken, NEW t \in Tabs, CallReads(t), UNCHANGED browserVars
  PROVE  Unbroken'
<1> DEFINE x == call[t].token
<1>1. /\ call[t].at = "SENT" /\ UNCHANGED act /\ (x # 0 => x \in DOMAIN sessions /\ Sound(x))
      /\ Rows /\ Tokens /\ call[t].new \in 0 .. MaxSessions /\ 0 \in 0 .. MaxSessions
  BY CallToken DEF CallReads, Unbroken, CallsAreSound, IInv
<1>2. Revokes
  <2>1. CASE UNCHANGED sessions
    BY <1>1, <2>1, Untouched
  <2>2. CASE sessions' = Revoked(Family(sessions[x].family), "REUSE_DETECTED")
    BY <1>1, <2>2, Revoking DEF Ends
  <2> QED
    BY <2>1, <2>2 DEF CallReads
<1>3. NoReuse'
  <2>1. CASE UNCHANGED sessions
    BY <2>1 DEF Unbroken, NoReuse
  <2>2. CASE x # 0 /\ ~IsLive(x) /\ sessions' = Revoked(Family(sessions[x].family), "REUSE_DETECTED")
    BY <1>1, <2>2, NothingReused
  <2> QED
    BY <2>1, <2>2 DEF CallReads
<1>4. cookie # 0 => SoundLater(cookie)
  <2>1. cookie # 0 => cookie \in DOMAIN sessions /\ Sound(cookie)
    <3>1. \A u \in Tabs : ~Brings(u)
      BY <1>1, OneCall DEF Unbroken, Brings
    <3> QED
      BY <3>1, SessionsAreNumbers DEF IInv, Tokens, Known, Unbroken, CookieIsSound
  <2> QED
    BY <1>2, <2>1, RevokesQuiet
<1>5. x # 0 => SoundLater(x)
  BY <1>1, <1>2, RevokesQuiet
<1>6. CASE Answered(t, 0)
  <2>1. CallGoes(t, "ANSWERED", 0)
    BY <1>1, <1>6, CallStep DEF Answered
  <2> QED
    BY <1>1, <1>2, <1>3, <1>4, <2>1, RevokesQuiet, CallQuiet
<1>7. CASE call' = [call EXCEPT ![t].at = "READ"]
  <2>1. CallGoes(t, "READ", call[t].new)
    BY <1>1, <1>7, CallStep
  <2> QED
    BY <1>1, <1>2, <1>3, <1>4, <1>5, <2>1, RevokesQuiet, CallQuiet
<1> QED
  BY <1>6, <1>7 DEF CallReads

LEMMA ClaimQuiet ==
  ASSUME IInv, IInv', Unbroken, NEW t \in Tabs, CallClaims(t), UNCHANGED browserVars
  PROVE  Unbroken'
<1> DEFINE x == call[t].token
<1>1. /\ call[t].at = "READ" /\ UNCHANGED act /\ x \in DOMAIN sessions
      /\ Rows /\ Tokens /\ call[t].new \in 0 .. MaxSessions /\ 0 \in 0 .. MaxSessions
  BY CallToken DEF CallClaims, IInv
<1>2. Revokes
  <2>1. CASE UNCHANGED sessions
    BY <1>1, <2>1, Untouched
  <2>2. CASE sessions' = [sessions EXCEPT ![x].end = "ROTATED"]
    <3>1. "ROTATED" \in Ends \ {"LIVE"}
      BY DEF Ends
    <3> HIDE DEF x
    <3> QED
      BY <1>1, <2>2, <3>1, Ending
  <2> QED
    BY <2>1, <2>2 DEF CallClaims
<1>3. NoReuse'
  <2>1. \A s \in DOMAIN sessions : sessions[s] \in SessionRecord
    BY <1>1, SessionsAreNumbers
  <2> QED
    BY <1>1, <2>1 DEF CallClaims, Unbroken, NoReuse, SessionRecord
<1>4. cookie # 0 => SoundLater(cookie)
  <2>1. cookie # 0 => cookie \in DOMAIN sessions /\ Sound(cookie)
    <3>1. \A u \in Tabs : ~Brings(u)
      BY <1>1, OneCall DEF Unbroken, Brings
    <3> QED
      BY <3>1, SessionsAreNumbers DEF IInv, Tokens, Known, Unbroken, CookieIsSound
  <2> QED
    BY <1>2, <2>1, RevokesQuiet
<1>5. CASE Answered(t, 0)
  <2>1. CallGoes(t, "ANSWERED", 0)
    BY <1>1, <1>5, CallStep DEF Answered
  <2> QED
    BY <1>1, <1>2, <1>3, <1>4, <2>1, RevokesQuiet, CallQuiet
<1>6. CASE call' = [call EXCEPT ![t].at = "CLAIMED"]
  <2>1. CallGoes(t, "CLAIMED", call[t].new)
    BY <1>1, <1>6, CallStep
  <2> QED
    BY <1>1, <1>2, <1>3, <1>4, <2>1, RevokesQuiet, CallQuiet
<1> QED
  BY <1>5, <1>6 DEF CallClaims

\* The successor is live, and the token it replaces is the one of the cookie, if the
\* cookie is of its family.
LEMMA SuccessorQuiet ==
  ASSUME IInv, IInv', Unbroken, NEW t \in Tabs, CallCreates(t), UNCHANGED browserVars
  PROVE  Unbroken'
<1> DEFINE x == call[t].token
<1>1. /\ call[t].at = "CLAIMED" /\ UNCHANGED act /\ x # 0 /\ x \in DOMAIN sessions
      /\ Rows /\ Lines /\ NextId <= MaxSessions
  BY CallToken, RoomForOne DEF CallCreates, IInv, Refreshing
<1>2. Succeeds(x) /\ CallGoes(t, "CREATED", NextId)
  BY SuccessorKeeps
<1>3. /\ Kept /\ \A s \in DOMAIN sessions' : s \in DOMAIN sessions \/ s = NextId
      /\ \A s \in DOMAIN sessions : s # NextId
  BY <1>1, <1>2, SessionsGrow, SessionsStay
<1>4. /\ sessions'[NextId].family = sessions[x].family /\ sessions'[NextId].end = "LIVE"
      /\ sessions'[x].family = sessions[x].family
  BY <1>1, <1>2, <1>3 DEF Succeeds, Successor, Kept
<1>5. NextId # 0
  BY SessionsAreNumbers DEF NextId, IInv
<1>6. SoundLater(NextId)
  BY <1>4 DEF SoundLater
<1>7. cookie # 0 => cookie \in DOMAIN sessions
  BY SessionsAreNumbers DEF IInv, Tokens, Known
<1>8. ASSUME cookie # 0, cookie # x
      PROVE  SoundLater(cookie)
  <2>1. \A u \in Tabs : ~Brings(u)
    BY <1>1, OneCall DEF Unbroken, Brings
  <2>2. Sound(cookie)
    BY <1>8, <2>1 DEF Unbroken, CookieIsSound
  <2>3. sessions[cookie].family # sessions[x].family
    BY <1>1, <1>8 DEF Unbroken, CallsAreSound
  <2>4. \A s : Succeeds(s) => sessions[s].family # sessions[cookie].family
    BY <1>2, <2>3 DEF Succeeds, Successor
  <2>5. NextId <= MaxSessions /\ \E s : Succeeds(s)
    BY <1>1, <1>2
  <2>6. \A y \in DOMAIN sessions :
          /\ Sound(y)
          /\ \A s : Succeeds(s) => sessions[s].family # sessions[y].family
          => SoundLater(y)
    BY <2>5, SoundStays DEF Sound, SoundLater, IsLive
  <2> QED
    BY <1>7, <1>8, <2>2, <2>4, <2>6
<1>9. ASSUME NEW c \in Clients, act[c].new # 0, NEW s \in DOMAIN sessions',
             sessions'[s].family = sessions'[act[c].new].family
      PROVE  s = act[c].new
  <2>1. act[c].new \in DOMAIN sessions
    BY <1>9, SessionsAreNumbers DEF IInv, Tokens, Known
  <2>2. /\ \A u \in DOMAIN sessions : sessions[u].family = sessions[act[c].new].family => u = act[c].new
        /\ x # act[c].new
    BY <1>1, <1>9 DEF Unbroken, OwnSession
  <2> QED
    BY <1>1, <1>3, <1>4, <1>9, <2>1, <2>2 DEF Kept
<1>10. NoReuse'
  <2>1. sessions' = Append([sessions EXCEPT ![x].next = NextId], Successor(x))
    BY DEF CallCreates
  <2>2. \A s \in DOMAIN sessions : sessions'[s].end # "REUSE_DETECTED"
    <3> DEFINE left == [sessions EXCEPT ![x].next = NextId]
    <3>1. \A s \in DOMAIN sessions : sessions[s] \in SessionRecord
      BY <1>1, SessionsAreNumbers
    <3>2. NextId \in 0 .. MaxSessions
      BY <1>1, SessionsAreNumbers, SessionsAssumption DEF NextId
    <3>3. left \in [DOMAIN sessions -> SessionRecord]
      BY <3>1, <3>2 DEF SessionRecord
    <3>4. left \in Seq(SessionRecord) /\ DOMAIN left = DOMAIN sessions
      BY <1>1, <3>3, ReplacedInPlace DEF Rows
    <3>5. \A s \in DOMAIN sessions : left[s].end = sessions[s].end
      BY <3>1 DEF SessionRecord
    <3>6. Successor(x) \in SessionRecord
      BY <1>1, <3>1, SessionsAssumption DEF Successor, SessionRecord, Ends
    <3> HIDE DEF left
    <3>7. \A s \in DOMAIN sessions : sessions'[s] = left[s]
      BY <2>1, <3>4, <3>6, Appended DEF left
    <3> QED
      BY <3>5, <3>7 DEF Unbroken, NoReuse
  <2> QED
    BY <1>3, <1>4, <2>2 DEF NoReuse
<1> QED
  BY <1>1, <1>2, <1>3, <1>4, <1>5, <1>6, <1>8, <1>9, <1>10, CallQuiet

LEMMA CheckQuiet ==
  ASSUME IInv, IInv', Unbroken, NEW t \in Tabs, CallChecks(t), UNCHANGED browserVars
  PROVE  Unbroken'
<1> DEFINE x == call[t].token
<1>1. /\ call[t].at = "CREATED" /\ UNCHANGED act /\ x # 0 /\ x \in DOMAIN sessions
      /\ Rows /\ Tokens /\ call[t].new \in 0 .. MaxSessions /\ 0 \in 0 .. MaxSessions
      /\ (call[t].new # 0 => call[t].new \in DOMAIN sessions)
  <2>1. call[t].new # 0 => call[t].new \in DOMAIN sessions
    BY SessionsAreNumbers DEF IInv, Tokens, Known
  <2> QED
    BY <2>1, CallToken DEF CallChecks, IInv
<1>2. Revokes
  BY CheckKeeps
<1>3. /\ Kept /\ DOMAIN sessions' = DOMAIN sessions
      /\ \A y \in DOMAIN sessions : Sound(y) => SoundLater(y)
  BY <1>2, RevokesQuiet
<1>4. cookie # 0 =>
        cookie \in DOMAIN sessions /\ (Sound(cookie) \/ (Brings(t) /\ x = cookie))
  <2>1. \A u \in Tabs : Brings(u) => u = t
    BY <1>1, OneCall DEF Unbroken, Brings
  <2> QED
    BY <2>1, SessionsAreNumbers DEF IInv, Tokens, Known, Unbroken, CookieIsSound
<1>5. CASE /\ sessions' = Revoked(Family(sessions[x].family), "LOGOUT_ALL")
           /\ Answered(t, 0)
  <2>1. CallGoes(t, "ANSWERED", 0)
    BY <1>1, <1>5, CallStep DEF Answered
  <2>2. NoReuse'
    <3>1. \A s \in DOMAIN sessions : sessions'[s].end # "REUSE_DETECTED"
      BY <1>1, <1>5, OtherReasons DEF Ends, Unbroken
    <3> QED
      BY <1>3, <3>1 DEF NoReuse
  <2>3. SoundLater(x)
    <3>1. \A s \in DOMAIN sessions : sessions'[s].end = "LIVE" => s \notin Family(sessions[x].family)
      BY <1>1, <1>5, RevokedRows DEF Ends
    <3> QED
      BY <1>1, <1>3, <3>1 DEF SoundLater, Family, Kept
  <2>4. cookie # 0 => SoundLater(cookie)
    BY <1>3, <1>4, <2>3
  <2> QED
    BY <1>1, <1>2, <2>1, <2>2, <2>4, RevokesQuiet, CallQuiet
<1>6. CASE Answered(t, call[t].new) /\ UNCHANGED sessions
  <2>1. CallGoes(t, "ANSWERED", call[t].new)
    BY <1>1, <1>6, CallStep DEF Answered
  <2>2. NoReuse'
    BY <1>6 DEF Unbroken, NoReuse
  <2>3. call[t].new # 0 => SoundLater(call[t].new)
                           /\ sessions'[call[t].new].family = sessions'[x].family
    BY <1>1, <1>3, <1>6 DEF Unbroken, CallsAreSound, Brings
  <2>4. cookie # 0 => SoundLater(cookie) \/ (call[t].new # 0 /\ cookie = x)
    BY <1>3, <1>4 DEF Brings
  <2> QED
    BY <1>1, <1>2, <2>1, <2>2, <2>3, <2>4, RevokesQuiet, CallQuiet
<1> QED
  BY <1>5, <1>6 DEF CallChecks

\* Steps of the browser that leave the refreshes and the cookie alone, and bring no
\* session.
LEMMA RestQuiet ==
  ASSUME IInv, Unbroken, UNCHANGED <<sessions, call, cookie, lock>>,
         \A c \in Clients : act'[c].new \in {0, act[c].new}
  PROVE  Unbroken'
<1>1. Alone' /\ CookieIsSound' /\ CallsAreSound' /\ NoReuse'
  BY DEF Unbroken, Alone, CookieIsSound, CallsAreSound, NoReuse, Sound, IsLive, Brings
<1>2. OwnSession'
  <2> SUFFICES ASSUME NEW c \in Clients, act'[c].new # 0
               PROVE  /\ \A s \in DOMAIN sessions :
                           sessions[s].family = sessions[act'[c].new].family => s = act'[c].new
                      /\ act'[c].new # cookie
                      /\ \A t \in Tabs : call[t].at # "IDLE" => call[t].token # act'[c].new
                      /\ \A d \in Clients : act'[d].new = act'[c].new => d = c
    BY DEF OwnSession
  <2>1. act'[c].new = act[c].new /\ \A d \in Clients : act'[d].new = act[c].new => act[d].new = act[c].new
    OBVIOUS
  <2> QED
    BY <2>1 DEF Unbroken, OwnSession
<1> QED
  BY <1>1, <1>2 DEF Unbroken

\* A refresh is sent when no other is under way, with the cookie.
LEMMA SendQuiet ==
  ASSUME IInv, Unbroken, NEW t \in Tabs, SendRefresh(t)
  PROVE  Unbroken'
<1>1. \A u \in Tabs : call[u].at = "IDLE"
  BY BrowserAssumption DEF SendRefresh, CanLock, Unbroken, Alone
<1>2. /\ UNCHANGED <<sessions, act, cookie>> /\ lock' = t
      /\ \A u \in Tabs \ {t} : call'[u].at = "IDLE"
      /\ call'[t].at = "SENT" /\ call'[t].token = cookie /\ call'[t].new = 0 /\ call'[t].heard
  BY <1>1 DEF SendRefresh, NoCall, IInv, Tokens
<1>3. cookie # 0 => Sound(cookie)
  BY <1>1 DEF Unbroken, CookieIsSound, Brings
<1>4. Alone'
  BY <1>2 DEF Alone
<1>5. CookieIsSound' /\ CallsAreSound'
  BY <1>2, <1>3 DEF CookieIsSound, CallsAreSound, Sound, IsLive, Brings
<1>6. OwnSession' /\ NoReuse'
  BY <1>1, <1>2 DEF Unbroken, OwnSession, NoReuse
<1> QED
  BY <1>4, <1>5, <1>6 DEF Unbroken

\* The cookie becomes the successor that the refresh has brought.
LEMMA HearQuiet ==
  ASSUME IInv, Unbroken, NEW t \in Tabs, HearRefresh(t)
  PROVE  Unbroken'
<1>1. call[t].at = "ANSWERED" /\ \A u \in Tabs \ {t} : call[u].at = "IDLE"
  BY OneCall DEF HearRefresh, Unbroken
<1>2. UNCHANGED <<sessions, act>> /\ \A u \in Tabs : call'[u].at = "IDLE"
  BY <1>1 DEF HearRefresh, NoCall, IInv, Tokens
<1>3. /\ cookie' = IF call[t].new # 0 THEN call[t].new ELSE cookie
  BY DEF HearRefresh
<1>4. Alone' /\ CallsAreSound' /\ NoReuse'
  BY <1>2 DEF Alone, CallsAreSound, Brings, Unbroken, NoReuse
<1>5. cookie' # 0 => Sound(cookie')
  BY <1>1, <1>3 DEF Unbroken, CookieIsSound, CallsAreSound, Brings
<1>6. CookieIsSound'
  BY <1>2, <1>5 DEF CookieIsSound, Sound, IsLive
<1>7. ASSUME NEW c \in Clients, act[c].new # 0
      PROVE  act[c].new # cookie'
  <2>1. CASE call[t].new = 0
    BY <1>3, <1>7, <2>1 DEF Unbroken, OwnSession
  <2>2. CASE call[t].new # 0
    <3>1. /\ call[t].token \in DOMAIN sessions /\ call[t].token # act[c].new
          /\ sessions[call[t].new].family = sessions[call[t].token].family
      BY <1>1, <1>7, <2>2, CallToken DEF Unbroken, CallsAreSound, Brings, OwnSession
    <3> QED
      BY <1>3, <1>7, <2>2, <3>1 DEF Unbroken, OwnSession
  <2> QED
    BY <2>1, <2>2
<1>8. OwnSession'
  BY <1>2, <1>7 DEF Unbroken, OwnSession
<1> QED
  BY <1>4, <1>6, <1>8 DEF Unbroken

\* The cookie becomes the session that a login or a change has brought, or none.
LEMMA AnswerQuiet ==
  ASSUME IInv, Unbroken, NEW t \in Tabs, HearSession(t) \/ HearLogout(t)
  PROVE  Unbroken'
<1>1. /\ UNCHANGED <<sessions, call, lock>> /\ act \in [Clients -> Act] /\ t \in Clients
      /\ act' = [act EXCEPT ![t] = NoAct] /\ cookie' \in {0, cookie, act[t].new}
  BY DEF HearSession, HearLogout, IInv, Tokens, Clients
<1>2. act'[t].new = 0 /\ \A c \in Clients \ {t} : act'[c] = act[c]
  BY <1>1 DEF NoAct
<1>3. CASE cookie' = cookie
  BY <1>1, <1>2, <1>3, RestQuiet
<1>4. CASE cookie' # cookie
  <2>1. cookie' # 0 =>
          /\ \A s \in DOMAIN sessions : sessions[s].family = sessions[cookie'].family => s = cookie'
          /\ \A u \in Tabs : call[u].at # "IDLE" => call[u].token # cookie'
          /\ \A c \in Clients : act[c].new = cookie' => c = t
    BY <1>1, <1>4 DEF Unbroken, OwnSession
  <2>2. \A u \in Tabs : call[u].token # 0 => call[u].token \in DOMAIN sessions
    BY SessionsAreNumbers DEF IInv, Tokens, Known
  <2>3. cookie' # 0 => Sound(cookie')
    BY <2>1 DEF Sound
  <2>4. Alone' /\ NoReuse' /\ CookieIsSound'
    BY <1>1, <2>3 DEF Unbroken, Alone, NoReuse, CookieIsSound, Sound, IsLive
  <2>5. CallsAreSound'
    BY <1>1, <2>1, <2>2 DEF Unbroken, CallsAreSound, Sound, IsLive, Brings
  <2>6. OwnSession'
    <3> SUFFICES ASSUME NEW c \in Clients \ {t}, act[c].new # 0
                 PROVE  /\ \A s \in DOMAIN sessions :
                             sessions[s].family = sessions[act[c].new].family => s = act[c].new
                        /\ act[c].new # cookie'
                        /\ \A u \in Tabs : call[u].at # "IDLE" => call[u].token # act[c].new
                        /\ \A d \in Clients \ {t} : act[d].new = act[c].new => d = c
      BY <1>1, <1>2 DEF OwnSession
    <3> QED
      BY <2>1 DEF Unbroken, OwnSession
  <2> QED
    BY <2>4, <2>5, <2>6 DEF Unbroken
<1> QED
  BY <1>3, <1>4

LEMMA QuietInductive ==
  ASSUME IInv, IInv', Quiet, [Next]_vars
  PROVE  Quiet'
<1> SUFFICES ASSUME faults' = 0
             PROVE  Unbroken'
  BY DEF Quiet
<1>1. faults \in Nat /\ faults' \in Nat
  BY SessionsAssumption DEF IInv, Held
<1>2. CASE \E t \in Tabs : LoseRefresh(t) \/ LoseAnswer(t)
  BY <1>1, <1>2 DEF LoseRefresh, LoseAnswer
<1>3. CASE UNCHANGED faults
  <2>1. Unbroken
    BY <1>3 DEF Quiet
  <2>2. CASE Api
    BY <2>1, <2>2, ReadQuiet, ClaimQuiet, SuccessorQuiet, CheckQuiet, HandlersQuiet, SuspendQuiet
    DEF Api, Rotates
  <2>3. CASE \E t \in Tabs : SendRefresh(t) \/ HearRefresh(t) \/ HearSession(t) \/ HearLogout(t)
    BY <2>1, <2>3, SendQuiet, HearQuiet, AnswerQuiet
  <2>4. ASSUME NEW t \in Tabs, ForgetRefresh(t)
        PROVE  FALSE
    BY <2>1, <2>4 DEF ForgetRefresh, Unbroken, Alone
  <2>5. CASE \E c \in Clients : ForgetAnswer(c)
    <3>1. /\ UNCHANGED <<sessions, call, cookie, lock>>
          /\ \A c \in Clients : act'[c].new \in {0, act[c].new}
      BY <2>5 DEF ForgetAnswer, browserVars, NoAct, IInv, Tokens
    <3> QED
      BY <2>1, <3>1, RestQuiet
  <2>6. CASE AskElsewhere \/ \E t \in Tabs : Asks(t)
    <3>1. UNCHANGED <<sessions, call, cookie, lock>>
      BY <2>6 DEF AskElsewhere, Asks, AskLogin, AskLogout, AskChange, browserVars
    <3>2. PICK c \in Clients : \E op, token : act' = [act EXCEPT ![c] = Asked(op, token)]
      BY <2>6 DEF AskElsewhere, Asks, AskLogin, AskLogout, AskChange, Ask, Clients
    <3>3. \A op, token : Asked(op, token).new = 0
      BY DEF Asked, NoAct
    <3>4. \A d \in Clients : act'[d].new \in {0, act[d].new}
      BY <3>2, <3>3 DEF IInv, Tokens
    <3> QED
      BY <2>1, <3>1, <3>4, RestQuiet
  <2>7. CASE UNCHANGED <<sessions, call, act, cookie, lock>>
    BY <2>1, <2>7, RestQuiet
  <2>8. CASE \/ \E t \in Tabs : \/ PreventiveRefresh(t) \/ Unauthorized(t) \/ AdoptToken(t)
                                \/ Deliver(t) \/ Reload(t)
             \/ \E s \in DOMAIN sessions : Ages(s)
             \/ UNCHANGED vars
    BY <2>7, <2>8 DEF PreventiveRefresh, Unauthorized, AdoptToken, Deliver, Reload, Ages, apiVars, vars
  <2> QED
    BY <1>2, <2>2, <2>3, <2>4, <2>5, <2>6, <2>8 DEF Next, Refreshes, Hears
<1>4. UNCHANGED faults \/ \E t \in Tabs : LoseRefresh(t) \/ LoseAnswer(t)
  <2>1. CASE Api
    BY <2>1 DEF Api, browserVars
  <2>2. CASE \E t \in Tabs : Refreshes(t) \/ ForgetRefresh(t)
    BY <2>2 DEF Refreshes, PreventiveRefresh, Unauthorized, AdoptToken, SendRefresh, HearRefresh,
      ForgetRefresh, browserVars
  <2>3. CASE \/ \E t \in Tabs : Asks(t) \/ Hears(t) \/ Reload(t)
             \/ AskElsewhere
    BY <2>3 DEF Asks, AskLogin, AskLogout, AskChange, Hears, HearSession, HearLogout, Deliver, Reload,
      AskElsewhere, browserVars
  <2>4. CASE \/ \E c \in Clients : ForgetAnswer(c)
             \/ \E s \in DOMAIN sessions : Ages(s)
             \/ UNCHANGED vars
    BY <2>4 DEF ForgetAnswer, Ages, vars, browserVars
  <2> QED
    BY <2>1, <2>2, <2>3, <2>4 DEF Next
<1> QED
  BY <1>2, <1>3, <1>4

\* As long as no connection has broken, the reuse of a consumed token is not what ends a
\* session: tabs that share a cookie never take each other for a thief
\* (refresh-coordinator, SessionService.rotate).
THEOREM ReuseNeedsALostAnswerHolds == Spec => []ReuseNeedsALostAnswer
<1>1. ASSUME Init
      PROVE  Quiet
  <2>1. /\ \A t \in Tabs : call[t] = NoCall
        /\ \A c \in Clients : act[c] = NoAct
        /\ sessions = <<[family |-> 1, end |-> "LIVE", next |-> 0]>> /\ cookie = 1
    BY <1>1 DEF Init, ApiInit
  <2>2. DOMAIN sessions = {1} /\ sessions[1].end = "LIVE"
    BY <2>1
  <2> QED
    BY <2>1, <2>2 DEF Quiet, Unbroken, Alone, CookieIsSound, CallsAreSound, OwnSession, NoReuse, Brings,
      Sound, IsLive, NoCall, NoAct
<1>2. IInv /\ IInv' /\ Quiet /\ [Next]_vars => Quiet'
  BY QuietInductive
<1>3. Quiet => ReuseNeedsALostAnswer
  BY DEF Quiet, Unbroken, NoReuse, ReuseNeedsALostAnswer
<1> QED
  BY <1>1, <1>2, <1>3, SessionsInvariant, PTL DEF Spec

-----------------------------------------------------------------------------
(* Gateway.                                                                *)

\* Sockets, what the membership allows and the failures of the gateway keep their types
\* (RealtimeGateway).
THEOREM GatewayTypes == GatewaySpec => []GatewayTypeOK
<1>1. /\ {"CLOSED", "DOWN", "CONNECTED", "CHECKED", "JOINED", "DEAF"} \subseteq SocketStates
      /\ {"MEMBER", "LEFT", "ARCHIVED"} \subseteq Access
  BY DEF SocketStates, Access
<1>2. GatewayInit => GatewayTypeOK
  <2>1. GatewayInit => socket \in [Sockets -> SocketStates] /\ access \in Access
    BY <1>1 DEF GatewayInit
  <2>2. GatewayInit => lapses \in 0 .. MaxLapses
    BY GatewayAssumption DEF GatewayInit
  <2>3. GatewayInit => evicting \in BOOLEAN
    BY Zenon DEF GatewayInit
  <2> QED
    BY <2>1, <2>2, <2>3 DEF GatewayTypeOK
<1>3. GatewayTypeOK /\ [GatewayNext]_gatewayVars => GatewayTypeOK'
  <2>1. ASSUME GatewayTypeOK, NEW s \in Sockets, SocketSteps(s)
        PROVE  GatewayTypeOK'
    BY <1>1, <2>1, GatewayAssumption
       DEF GatewayTypeOK, SocketSteps, Becomes, Connect, Check, CheckFails, Join, Expire, Close
  <2>2. ASSUME GatewayTypeOK, Remove \/ Archive \/ Evict \/ EvictionFails \/ Return
        PROVE  GatewayTypeOK'
    <3>1. access' \in Access /\ socket' \in [Sockets -> SocketStates]
      BY <1>1, <2>2 DEF GatewayTypeOK, Remove, Archive, Evict, EvictionFails, Return
    <3>2. lapses' \in 0 .. MaxLapses
      BY <2>2, GatewayAssumption
         DEF GatewayTypeOK, Remove, Archive, Evict, EvictionFails, Return
    <3>3. evicting' \in BOOLEAN
      BY <2>2, Zenon DEF GatewayTypeOK, Remove, Archive, Evict, EvictionFails, Return
    <3> QED
      BY <3>1, <3>2, <3>3 DEF GatewayTypeOK
  <2>3. GatewayTypeOK /\ UNCHANGED gatewayVars => GatewayTypeOK'
    BY DEF GatewayTypeOK, gatewayVars
  <2> QED
    BY <2>1, <2>2, <2>3 DEF GatewayNext
<1> QED
  BY <1>2, <1>3, PTL DEF GatewaySpec
===============================================================================
