---------------------------- MODULE MessagingProofs ----------------------------
(***************************************************************************)
(* Proofs about Messaging, for any messages, dispatches, texts, reports,   *)
(* tries, faults and breaks.                                               *)
(***************************************************************************)
EXTENDS Messaging, FiniteSetTheorems, SequenceTheorems, TLAPS

-----------------------------------------------------------------------------
(* The inductive invariant.                                                *)

MessageRows == [status : {"NONE"} \cup OutboundStatus,
                dispatch : 0 .. MaxDispatches, sentAs : {0} \cup ExternalIds]

JobRows == [state : {"ABSENT", "WAITING", "READING", "ANSWERED", "DONE", "DEAD"},
            tries : 0 .. JobAttempts, answer : {0} \cup ExternalIds]

TaskRows == [state : {"WAITING", "CLAIMED", "FOUND", "APPLIED", "MISSING", "DEAD"},
             tries : 0 .. JobAttempts, found : {0} \cup Conversations]

InboxRows == [status : {"NONE"} \cup InboxStatus, attempts : Nat]

OutTypes ==
  /\ message \in [Messages -> MessageRows]
  /\ outbox \in [Dispatches -> {"NONE", "PENDING", "PUBLISHED"}]
  /\ job \in [Dispatches -> JobRows]
  /\ accepted \in Seq(Dispatches) /\ Len(accepted) <= MaxAccepted
  /\ faults \in 0 .. MaxFaults

InTypes ==
  /\ breaks \in 0 .. MaxBreaks
  /\ inbox \in [Events -> InboxRows]
  /\ DOMAIN task \subseteq Tasks
  /\ \A j \in DOMAIN task : task[j] \in TaskRows
  /\ sweep \in {NoSweep} \cup Events

TalkTypes ==
  /\ conversation \in [Conversations ->
                         [status : {"NONE", "OPEN", "RESOLVED", "CLOSED"}, unread : Nat]]
  /\ storedIn \in [Texts -> {0} \cup Conversations]
  /\ seen \subseteq Texts

\* The worker may still send dispatch d, or is about to.
Sendable(d) ==
  \/ job[d].state = "READING"
  \/ job[d].state \in {"ABSENT", "WAITING"} /\ CalledFor(d)

\* What holds of a dispatch: before its time there is nothing of it, while its message is
\* called for somebody carries it, each send beyond the first one is a fault, and the
\* identifier that its job holds is its own, borne by nobody yet.
DispatchIsSound(d) ==
  /\ d[2] > message[d[1]].dispatch =>
       outbox[d] = "NONE" /\ job[d].state = "ABSENT" /\ Acceptances(d) = {}
  /\ CalledFor(d) => job[d].state # "DONE" /\ (outbox[d] = "PENDING" \/ job[d].state # "ABSENT")
  /\ Cardinality(Acceptances(d)) <= 1 + faults
  /\ Sendable(d) => Cardinality(Acceptances(d)) <= faults
  /\ job[d].state = "ANSWERED" => /\ job[d].answer \in Accepted
                                  /\ accepted[job[d].answer] = d
                                  /\ message[d[1]].sentAs # job[d].answer

\* A message has dispatches once it is there, and bears an identifier of its own.
MessageIsSound(m) ==
  /\ message[m].status = "NONE" <=> message[m].dispatch = 0
  /\ message[m].sentAs # 0 =>
       message[m].sentAs \in Accepted /\ accepted[message[m].sentAs][1] = m

OutboundIsSound ==
  /\ \A d \in Dispatches : DispatchIsSound(d)
  /\ \A m \in Messages : MessageIsSound(m)

\* No identifier was reported failed and delivered.
ReportsAgree ==
  \A id \in ExternalIds : <<id, "FAILED">> \in Received =>
    <<id, "DELIVERED">> \notin Received /\ <<id, "READ">> \notin Received

\* A job is one of an event that came; it looks for the conversation of a text.
InboxIsSound ==
  /\ \A j \in DOMAIN task : j[1] \in Received
  /\ \A j \in DOMAIN task : task[j].state = "FOUND" => j[1] \in TextEvents
  /\ ReportsAgree

Shown == {"SENT", "DELIVERED", "READ"}

\* A message bears an identifier that did not fail: the provider has accepted it.
BearersAreSent ==
  \A m \in Messages :
    message[m].sentAs # 0 /\ <<message[m].sentAs, "FAILED">> \notin Received
      => message[m].status \in Shown

\* The event has had its effect.
Applied(e) ==
  \/ inbox[e].status = "PROCESSED"
  \/ \E j \in DOMAIN task : j[1] = e /\ task[j].state = "APPLIED"

Shows(m, report) ==
  /\ report = "READ" => message[m].status = "READ"
  /\ report = "DELIVERED" => message[m].status \in {"DELIVERED", "READ"}

\* An identifier whose event was applied is known: no job is still to write it down.
AppliedAreShown ==
  \A e \in StatusEvents : Applied(e) =>
    /\ e[1] \in Accepted
    /\ \A d \in Dispatches : job[d].state = "ANSWERED" => job[d].answer # e[1]
    /\ \A m \in Messages : message[m].sentAs = e[1] => Shows(m, e[2])

AppliedAreStored == \A t \in Texts : Applied(<<t, "TEXT">>) => storedIn[t] # 0

Counted == \A c \in Conversations : conversation[c].unread = Cardinality(In(c) \ seen)

IInv ==
  /\ OutTypes /\ InTypes /\ TalkTypes
  /\ OutboundIsSound /\ InboxIsSound
  /\ BearersAreSent /\ AppliedAreShown /\ AppliedAreStored /\ Counted

LEMMA TypesApart == TypeOK <=> OutTypes /\ InTypes /\ TalkTypes
BY DEF TypeOK, OutTypes, InTypes, TalkTypes, MessageRows, JobRows, TaskRows, InboxRows

LEMMA InvariantsHold ==
  ASSUME IInv
  PROVE  SendsNeedFaults /\ SomebodyCarries /\ ProcessedStatusesAreShown /\ UnreadIsUnseen
<1>1. SendsNeedFaults
  BY DEF IInv, OutboundIsSound, DispatchIsSound, SendsNeedFaults
<1>2. SomebodyCarries
  <2>1. TypeOK
    BY TypesApart DEF IInv
  <2> SUFFICES ASSUME NEW m \in Messages, message[m].status \in {"PENDING", "QUEUED"}
               PROVE  LET d == <<m, message[m].dispatch>> IN
                      outbox[d] = "PENDING"
                        \/ job[d].state \in {"WAITING", "READING", "ANSWERED", "DEAD"}
    BY <2>1 DEF SomebodyCarries
  <2> DEFINE d == <<m, message[m].dispatch>>
  <2>2. message[m].dispatch \in 0 .. MaxDispatches /\ message[m].dispatch # 0
    BY DEF IInv, OutTypes, MessageRows, OutboundIsSound, MessageIsSound
  <2>3. d \in Dispatches /\ d[1] = m /\ d[2] = message[m].dispatch
    BY <2>2, OutboundAssumption DEF Dispatches
  <2> HIDE DEF d
  <2>4. DispatchIsSound(d) /\ job[d] \in JobRows
    BY <2>3 DEF IInv, OutboundIsSound, OutTypes
  <2>5. CalledFor(d)
    BY <2>3 DEF CalledFor
  <2>6. outbox[d] = "PENDING" \/ job[d].state \in {"WAITING", "READING", "ANSWERED", "DEAD"}
    BY <2>4, <2>5 DEF DispatchIsSound, JobRows
  <2> QED
    BY <2>6 DEF d
<1>3. ProcessedStatusesAreShown
  BY DEF IInv, AppliedAreShown, Applied, Shows, ProcessedStatusesAreShown
<1>4. UnreadIsUnseen
  BY DEF IInv, AppliedAreStored, Applied, Counted, UnreadIsUnseen, Events, TextEvents
<1> QED
  BY <1>1, <1>2, <1>3, <1>4

-----------------------------------------------------------------------------
(* Dispatches.                                                             *)

LEMMA DispatchParts ==
  ASSUME NEW d \in Dispatches
  PROVE  d[1] \in Messages /\ d[2] \in 1 .. MaxDispatches /\ d = <<d[1], d[2]>>
BY DEF Dispatches

LEMMA AcceptancesAreFinite ==
  ASSUME accepted \in Seq(Dispatches), NEW d
  PROVE  /\ Accepted = 1 .. Len(accepted)
         /\ IsFiniteSet(Acceptances(d)) /\ Cardinality(Acceptances(d)) \in Nat
<1>1. Accepted = 1 .. Len(accepted) /\ Len(accepted) \in Nat
  BY DEF Accepted
<1>2. IsFiniteSet(1 .. Len(accepted))
  BY <1>1, FS_Interval
<1>3. Acceptances(d) \subseteq 1 .. Len(accepted)
  BY <1>1 DEF Acceptances
<1> QED
  BY <1>1, <1>2, <1>3, FS_Subset, FS_CardinalityType

\* The provider accepts a message in dispatch d.
Accepts(d) == Len(accepted) < MaxAccepted /\ accepted' = Append(accepted, d)

LEMMA AcceptingOne ==
  ASSUME OutTypes, NEW d \in Dispatches, Accepts(d)
  PROVE  /\ accepted' \in Seq(Dispatches) /\ Len(accepted') <= MaxAccepted
         /\ Len(accepted) + 1 \in ExternalIds
         /\ Len(accepted) + 1 \notin Accepted /\ Len(accepted) + 1 \in Accepted'
         /\ accepted'[Len(accepted) + 1] = d
         /\ \A i \in Accepted : i \in Accepted' /\ accepted'[i] = accepted[i]
         /\ Cardinality(Acceptances(d))' = Cardinality(Acceptances(d)) + 1
         /\ \A e \in Dispatches \ {d} : Acceptances(e)' = Acceptances(e)
<1> DEFINE n == Len(accepted) + 1
<1>1. accepted \in Seq(Dispatches) /\ Len(accepted) \in Nat /\ MaxAccepted \in Nat
  BY OutboundAssumption DEF OutTypes
<1>2. /\ accepted' \in Seq(Dispatches) /\ Len(accepted') = n
      /\ accepted'[n] = d /\ \A i \in 1 .. Len(accepted) : accepted'[i] = accepted[i]
  BY <1>1 DEF Accepts
<1>3. Accepted = 1 .. Len(accepted) /\ Accepted' = 1 .. n
  <2>1. DOMAIN accepted = 1 .. Len(accepted)
    BY <1>1
  <2>2. DOMAIN accepted' = 1 .. Len(accepted')
    BY <1>2
  <2> QED
    BY <1>2, <2>1, <2>2 DEF Accepted
<1>4. n \in ExternalIds /\ Len(accepted') <= MaxAccepted
  BY <1>1, <1>2 DEF Accepts, ExternalIds
<1>5. n \notin Accepted /\ n \in Accepted' /\ Accepted' = Accepted \cup {n}
  BY <1>1, <1>3
<1>6. \A i \in Accepted : i \in Accepted' /\ accepted'[i] = accepted[i]
  BY <1>2, <1>3, <1>5
<1> HIDE DEF n
<1>7. Acceptances(d)' = Acceptances(d) \cup {n} /\ n \notin Acceptances(d)
  BY <1>2, <1>5, <1>6 DEF Acceptances
<1>8. \A e \in Dispatches \ {d} : Acceptances(e)' = Acceptances(e)
  BY <1>2, <1>5, <1>6 DEF Acceptances
<1>9. Cardinality(Acceptances(d))' = Cardinality(Acceptances(d)) + 1
  <2>1. IsFiniteSet(Acceptances(d))
    BY <1>1, AcceptancesAreFinite
  <2> QED
    BY <1>7, <2>1, FS_AddElement
<1> QED
  BY <1>2, <1>4, <1>5, <1>6, <1>8, <1>9 DEF n

\* What a step of dispatch d may do to the dispatches and to its message.
DispatchMoves(d) ==
  /\ OutTypes' /\ faults' >= faults
  /\ UNCHANGED accepted \/ Accepts(d)
  /\ \A e \in Dispatches \ {d} :
       job'[e] = job[e] /\ outbox'[e] = outbox[e] /\ (CalledFor(e)' => CalledFor(e))
  /\ \A m \in Messages \ {d[1]} : message'[m] = message[m]
  /\ message'[d[1]].dispatch >= message[d[1]].dispatch
  /\ message'[d[1]].status = "NONE" <=> message'[d[1]].dispatch = 0
  /\ \/ message'[d[1]].sentAs = message[d[1]].sentAs
     \/ job[d].state = "ANSWERED" /\ message'[d[1]].sentAs = job[d].answer

LEMMA DispatchesStaySound ==
  ASSUME OutTypes, OutboundIsSound, NEW d \in Dispatches, DispatchMoves(d), DispatchIsSound(d)'
  PROVE  OutboundIsSound'
<1>1. d[1] \in Messages /\ d = <<d[1], d[2]>>
  BY DispatchParts
<1>2. \A i \in Accepted : i \in Accepted' /\ accepted'[i] = accepted[i]
  BY AcceptingOne DEF DispatchMoves, Accepted
<1>3. \A e \in Dispatches \ {d} : Acceptances(e)' = Acceptances(e)
  BY AcceptingOne DEF DispatchMoves, Accepted, Acceptances
<1>4. ASSUME NEW e \in Dispatches \ {d}
      PROVE  DispatchIsSound(e)'
  <2>1. e[1] \in Messages
    BY DispatchParts
  <2>2. DispatchIsSound(e)
    BY DEF OutboundIsSound
  <2>3. /\ job'[e] = job[e] /\ outbox'[e] = outbox[e] /\ (CalledFor(e)' => CalledFor(e))
        /\ Acceptances(e)' = Acceptances(e)
    BY <1>3 DEF DispatchMoves
  <2>4. /\ message[e[1]].dispatch \in Nat /\ message'[e[1]].dispatch \in Nat /\ e[2] \in Nat
        /\ message'[e[1]].dispatch >= message[e[1]].dispatch
    <3>1. /\ message[e[1]] \in MessageRows /\ message'[e[1]] \in MessageRows
          /\ e[2] \in Nat /\ MaxDispatches \in Nat
      BY <2>1, DispatchParts, OutboundAssumption DEF DispatchMoves, OutTypes
    <3>2. /\ message[e[1]].dispatch \in Nat /\ message'[e[1]].dispatch \in Nat
      BY <3>1 DEF MessageRows
    <3>3. message'[e[1]].dispatch >= message[e[1]].dispatch
      BY <2>1, <3>2 DEF DispatchMoves
    <3> QED
      BY <3>1, <3>2, <3>3
  <2>5. faults \in Nat /\ faults' \in Nat /\ faults' >= faults
        /\ Cardinality(Acceptances(e)) \in Nat
    BY AcceptancesAreFinite, OutboundAssumption DEF OutTypes, DispatchMoves
  <2>6. Sendable(e)' => Sendable(e)
    BY <2>3 DEF Sendable
  <2>7. job'[e].state = "ANSWERED" => /\ job'[e].answer \in Accepted'
                                      /\ accepted'[job'[e].answer] = e
                                      /\ message'[e[1]].sentAs # job'[e].answer
    <3> SUFFICES ASSUME job[e].state = "ANSWERED"
                 PROVE  /\ job[e].answer \in Accepted' /\ accepted'[job[e].answer] = e
                        /\ message'[e[1]].sentAs # job[e].answer
      BY <2>3
    <3>1. /\ job[e].answer \in Accepted /\ accepted[job[e].answer] = e
          /\ message[e[1]].sentAs # job[e].answer
      BY <2>2 DEF DispatchIsSound
    <3>2. CASE message'[e[1]].sentAs = message[e[1]].sentAs
      BY <1>2, <3>1, <3>2
    <3>3. CASE message'[e[1]].sentAs # message[e[1]].sentAs
      <4>1. job[d].state = "ANSWERED" /\ message'[e[1]].sentAs = job[d].answer
        BY <2>1, <3>3 DEF DispatchMoves
      <4>2. accepted[job[d].answer] = d
        BY <4>1 DEF OutboundIsSound, DispatchIsSound
      <4> QED
        BY <1>2, <3>1, <4>1, <4>2
    <3> QED
      BY <3>2, <3>3
  <2>8. e[2] > message'[e[1]].dispatch =>
          outbox'[e] = "NONE" /\ job'[e].state = "ABSENT" /\ Acceptances(e)' = {}
    BY <2>2, <2>3, <2>4 DEF DispatchIsSound
  <2>9. /\ Cardinality(Acceptances(e))' <= 1 + faults'
        /\ Sendable(e)' => Cardinality(Acceptances(e))' <= faults'
    BY <2>2, <2>3, <2>5, <2>6 DEF DispatchIsSound
  <2> QED
    BY <2>2, <2>3, <2>7, <2>8, <2>9 DEF DispatchIsSound
<1>5. ASSUME NEW m \in Messages
      PROVE  MessageIsSound(m)'
  <2>1. MessageIsSound(m)
    BY DEF OutboundIsSound
  <2>2. CASE m # d[1]
    BY <1>2, <2>1, <2>2 DEF DispatchMoves, MessageIsSound
  <2>3. CASE m = d[1]
    <3>1. CASE message'[m].sentAs = message[m].sentAs
      BY <1>2, <2>1, <2>3, <3>1 DEF DispatchMoves, MessageIsSound
    <3>2. CASE job[d].state = "ANSWERED" /\ message'[m].sentAs = job[d].answer
      <4>1. job[d].answer \in Accepted /\ accepted[job[d].answer] = d
        BY <3>2 DEF OutboundIsSound, DispatchIsSound
      <4> QED
        BY <1>2, <2>3, <3>2, <4>1 DEF DispatchMoves, MessageIsSound
    <3> QED
      BY <2>3, <3>1, <3>2 DEF DispatchMoves
  <2> QED
    BY <2>2, <2>3
<1> QED
  BY <1>4, <1>5 DEF OutboundIsSound

\* What a step of dispatch d may do to what its message shows.
StatusMoves(d) ==
  /\ job'[d].state = "ANSWERED" =>
       \/ job[d].state = "ANSWERED" /\ job'[d].answer = job[d].answer
       \/ job'[d].answer \notin Accepted
  /\ \/ /\ message'[d[1]].sentAs = message[d[1]].sentAs
        /\ message[d[1]].status \in Shown => message'[d[1]].status = message[d[1]].status
     \/ /\ job[d].state = "ANSWERED" /\ message'[d[1]].sentAs = job[d].answer
        /\ message'[d[1]].status = "SENT"

LEMMA OutStepKeeps ==
  ASSUME IInv, NEW d \in Dispatches, DispatchMoves(d), DispatchIsSound(d)', StatusMoves(d),
         UNCHANGED <<inboxVars, talkVars>>
  PROVE  IInv'
<1>1. UNCHANGED <<inbox, task, sweep, breaks, conversation, storedIn, seen>>
  BY DEF inboxVars, talkVars
<1>2. OutTypes' /\ OutboundIsSound'
  BY DispatchesStaySound DEF IInv, DispatchMoves
<1>3. InTypes' /\ TalkTypes' /\ InboxIsSound' /\ AppliedAreStored' /\ Counted'
  BY <1>1 DEF IInv, InTypes, TalkTypes, InboxIsSound, AppliedAreStored, Applied, Counted, In,
     Received, ReportsAgree
<1>4. d[1] \in Messages
  BY DispatchParts
<1>5. Accepted \subseteq Accepted'
  BY AcceptingOne DEF IInv, DispatchMoves, Accepted
<1>6. BearersAreSent'
  <2> SUFFICES ASSUME NEW m \in Messages, message'[m].sentAs # 0,
                      <<message'[m].sentAs, "FAILED">> \notin Received'
               PROVE  message'[m].status \in Shown
    BY DEF BearersAreSent
  <2>1. Received' = Received
    BY <1>1 DEF Received
  <2>2. \/ message'[m].sentAs = message[m].sentAs
           /\ (message[m].status \in Shown => message'[m].status = message[m].status)
        \/ message'[m].status = "SENT"
    BY DEF DispatchMoves, StatusMoves
  <2> QED
    BY <2>1, <2>2 DEF IInv, BearersAreSent, Shown
<1>7. AppliedAreShown'
  <2> SUFFICES ASSUME NEW e \in StatusEvents, Applied(e)'
               PROVE  /\ e[1] \in Accepted'
                      /\ \A b \in Dispatches : job'[b].state = "ANSWERED" => job'[b].answer # e[1]
                      /\ \A m \in Messages : message'[m].sentAs = e[1] => Shows(m, e[2])'
    BY DEF AppliedAreShown
  <2>1. /\ e[1] \in Accepted
        /\ \A b \in Dispatches : job[b].state = "ANSWERED" => job[b].answer # e[1]
        /\ \A m \in Messages : message[m].sentAs = e[1] => Shows(m, e[2])
    BY <1>1 DEF IInv, AppliedAreShown, Applied
  <2>2. ASSUME NEW b \in Dispatches, job'[b].state = "ANSWERED"
        PROVE  job'[b].answer # e[1]
    BY <2>1, <2>2 DEF DispatchMoves, StatusMoves
  <2>3. ASSUME NEW m \in Messages, message'[m].sentAs = e[1]
        PROVE  Shows(m, e[2])'
    <3>1. message'[m].sentAs = message[m].sentAs
          /\ (message[m].status \in Shown => message'[m].status = message[m].status)
      BY <2>1, <2>3 DEF DispatchMoves, StatusMoves
    <3>2. Shows(m, e[2])
      BY <2>1, <2>3, <3>1
    <3> QED
      BY <3>1, <3>2 DEF Shows, Shown
  <2> QED
    BY <1>5, <2>1, <2>2, <2>3
<1> QED
  BY <1>2, <1>3, <1>6, <1>7 DEF IInv

-----------------------------------------------------------------------------
(* The steps of Outbound.                                                  *)

\* What is known of a dispatch and of its message.
LEMMA Known ==
  ASSUME IInv, NEW d \in Dispatches
  PROVE  /\ d[1] \in Messages /\ message[d[1]] \in MessageRows /\ job[d] \in JobRows
         /\ message \in [Messages -> MessageRows] /\ job \in [Dispatches -> JobRows]
         /\ message[d[1]].dispatch \in Nat /\ d[2] \in Nat /\ d[2] # 0
         /\ d[2] <= MaxDispatches /\ MaxDispatches \in Nat
         /\ DispatchIsSound(d) /\ MessageIsSound(d[1])
         /\ accepted \in Seq(Dispatches) /\ faults \in Nat /\ MaxFaults \in Nat
         /\ faults \in faults .. MaxFaults
         /\ Cardinality(Acceptances(d)) \in Nat
         /\ d = <<d[1], d[2]>>
<1>1. d[1] \in Messages /\ d[2] \in 1 .. MaxDispatches /\ d = <<d[1], d[2]>>
  BY DispatchParts
<1>2. message[d[1]] \in MessageRows /\ job[d] \in JobRows
  BY <1>1 DEF IInv, OutTypes
<1>3. message[d[1]].dispatch \in Nat
  BY <1>2, OutboundAssumption DEF MessageRows
<1> QED
  BY <1>1, <1>2, <1>3, OutboundAssumption, AcceptancesAreFinite
     DEF IInv, OutTypes, OutboundIsSound

LEMMA SameSends ==
  ASSUME NEW d, UNCHANGED <<message, accepted>>
  PROVE  /\ CalledFor(d)' <=> CalledFor(d)
         /\ Acceptances(d)' = Acceptances(d) /\ Accepted' = Accepted
BY DEF CalledFor, Acceptances, Accepted

\* A step that changes no more than the outbox or the job of a dispatch.
LEMMA JobStepKeeps ==
  ASSUME IInv, NEW d \in Dispatches, NEW r \in JobRows,
         NEW o \in {"NONE", "PENDING", "PUBLISHED"}, NEW f \in faults .. MaxFaults,
         job' = [job EXCEPT ![d] = r], outbox' = [outbox EXCEPT ![d] = o], faults' = f,
         UNCHANGED <<message, inboxVars, talkVars>>,
         UNCHANGED accepted \/ Accepts(d),
         DispatchIsSound(d)',
         r.state = "ANSWERED" => \/ job[d].state = "ANSWERED" /\ r.answer = job[d].answer
                                 \/ r.answer \notin Accepted
  PROVE  IInv'
<1>1. d[1] \in Messages /\ message[d[1]].dispatch \in Nat /\ faults \in Nat /\ MaxFaults \in Nat
  BY Known
<1>2. OutTypes
  BY DEF IInv
<1>3. accepted' \in Seq(Dispatches) /\ Len(accepted') <= MaxAccepted
  BY <1>2, AcceptingOne DEF OutTypes
<1>4. /\ job' \in [Dispatches -> JobRows] /\ job'[d] = r
      /\ \A e \in Dispatches \ {d} : job'[e] = job[e]
      /\ outbox' \in [Dispatches -> {"NONE", "PENDING", "PUBLISHED"}]
      /\ \A e \in Dispatches \ {d} : outbox'[e] = outbox[e]
  BY <1>2 DEF OutTypes
<1>5. faults' \in 0 .. MaxFaults /\ faults' >= faults
  BY <1>1
<1>6. OutTypes'
  BY <1>2, <1>3, <1>4, <1>5 DEF OutTypes
<1>7. DispatchMoves(d)
  BY <1>1, <1>4, <1>5, <1>6, Known DEF DispatchMoves, CalledFor, MessageIsSound
<1>8. StatusMoves(d)
  BY <1>4 DEF StatusMoves
<1> QED
  BY <1>7, <1>8, OutStepKeeps

LEMMA AddJobKeeps ==
  ASSUME IInv, NEW d \in Dispatches, AddJob(d), UNCHANGED <<inboxVars, talkVars>>
  PROVE  IInv'
<1> DEFINE r == [job[d] EXCEPT !.state = "WAITING"]
<1>1. /\ outbox[d] = "PENDING" /\ job[d].state = "ABSENT" /\ job' = [job EXCEPT ![d] = r]
      /\ UNCHANGED <<message, outbox, accepted, faults>>
  BY Known DEF AddJob
<1>2. r \in JobRows /\ r.state = "WAITING"
  BY Known DEF JobRows
<1> HIDE DEF r
<1>3. job'[d] = r /\ outbox' = [outbox EXCEPT ![d] = outbox[d]] /\ faults \in faults .. MaxFaults
      /\ outbox[d] \in {"NONE", "PENDING", "PUBLISHED"}
  BY <1>1, Known DEF IInv, OutTypes
<1>4. DispatchIsSound(d)'
  <2>1. /\ CalledFor(d)' <=> CalledFor(d)
        /\ Acceptances(d)' = Acceptances(d) /\ Accepted' = Accepted
    BY <1>1, SameSends
  <2>2. DispatchIsSound(d)
    BY Known
  <2> QED
    BY <1>1, <1>2, <1>3, <2>1, <2>2 DEF DispatchIsSound, Sendable
<1> QED
  BY <1>1, <1>2, <1>3, <1>4, Known, JobStepKeeps

LEMMA MarkPublishedKeeps ==
  ASSUME IInv, NEW d \in Dispatches, MarkPublished(d), UNCHANGED <<inboxVars, talkVars>>
  PROVE  IInv'
<1>1. /\ outbox[d] = "PENDING" /\ job[d].state # "ABSENT"
      /\ outbox' = [outbox EXCEPT ![d] = "PUBLISHED"]
      /\ UNCHANGED <<message, job, accepted, faults>>
  BY DEF MarkPublished
<1>2. job' = [job EXCEPT ![d] = job[d]] /\ faults \in faults .. MaxFaults
  BY <1>1, Known
<1>3. DispatchIsSound(d)'
  <2>1. /\ CalledFor(d)' <=> CalledFor(d)
        /\ Acceptances(d)' = Acceptances(d) /\ Accepted' = Accepted
    BY <1>1, SameSends
  <2>2. DispatchIsSound(d)
    BY Known
  <2> QED
    BY <1>1, <2>1, <2>2, Known DEF DispatchIsSound, Sendable
<1> QED
  BY <1>1, <1>2, <1>3, Known, JobStepKeeps

LEMMA ForgetKeeps ==
  ASSUME IInv, NEW d \in Dispatches, Forget(d), UNCHANGED <<inboxVars, talkVars>>
  PROVE  IInv'
<1>1. /\ outbox[d] = "PENDING" /\ job[d].state = "DONE" /\ job' = [job EXCEPT ![d] = NoJob]
      /\ UNCHANGED <<message, outbox, accepted, faults>>
  BY DEF Forget
<1>2. NoJob \in JobRows /\ NoJob.state = "ABSENT"
  BY OutboundAssumption DEF NoJob, JobRows
<1>3. /\ job'[d] = NoJob /\ outbox' = [outbox EXCEPT ![d] = outbox[d]]
      /\ faults \in faults .. MaxFaults
      /\ outbox[d] \in {"NONE", "PENDING", "PUBLISHED"}
  BY <1>1, Known DEF IInv, OutTypes
<1>4. ~CalledFor(d) /\ ~CalledFor(d)'
  BY <1>1, Known DEF DispatchIsSound, CalledFor
<1>5. DispatchIsSound(d)'
  <2>1. Acceptances(d)' = Acceptances(d)
    BY <1>1, SameSends
  <2>2. DispatchIsSound(d)
    BY Known
  <2> QED
    BY <1>1, <1>2, <1>3, <1>4, <2>1, <2>2, Known DEF DispatchIsSound, Sendable
<1> QED
  BY <1>1, <1>2, <1>3, <1>5, JobStepKeeps

JobWith(d, s, i) == [job EXCEPT ![d].state = s, ![d].answer = i]

\* The rows that a job may become.
LEMMA JobForms ==
  ASSUME IInv, NEW d \in Dispatches
  PROVE  /\ \E r \in JobRows : Complete(d) = [job EXCEPT ![d] = r] /\ r.state = "DONE"
         /\ \E r \in JobRows :
              TryAgain(d) = [job EXCEPT ![d] = r] /\ r.state \in {"WAITING", "DEAD"}
         /\ \A s \in {"READING", "WAITING", "ANSWERED", "DONE"}, i \in {0} \cup ExternalIds :
              \E r \in JobRows : JobWith(d, s, i) = [job EXCEPT ![d] = r]
                                 /\ r.state = s /\ r.answer = i
<1>1. /\ job \in [Dispatches -> JobRows] /\ job[d] \in JobRows /\ JobAttempts \in Nat \ {0}
  BY Known, OutboundAssumption
<1>2. ASSUME NEW s \in {"READING", "WAITING", "ANSWERED", "DONE"}, NEW i \in {0} \cup ExternalIds
      PROVE  \E r \in JobRows :
               JobWith(d, s, i) = [job EXCEPT ![d] = r] /\ r.state = s /\ r.answer = i
  <2> DEFINE r == [job[d] EXCEPT !.state = s, !.answer = i]
  <2>1. /\ r \in JobRows /\ r.state = s /\ r.answer = i
        /\ JobWith(d, s, i) = [job EXCEPT ![d] = r]
    BY <1>1 DEF JobRows, JobWith
  <2> HIDE DEF r
  <2> QED
    BY <2>1
<1>3. \E r \in JobRows : Complete(d) = [job EXCEPT ![d] = r] /\ r.state = "DONE"
  <2>1. Complete(d) = JobWith(d, "DONE", 0)
    BY DEF Complete, JobWith
  <2> QED
    BY <1>2, <2>1
<1>4. \E r \in JobRows :
        TryAgain(d) = [job EXCEPT ![d] = r] /\ r.state \in {"WAITING", "DEAD"}
  <2>1. CASE LastTry(d)
    <3> DEFINE r == [state |-> "DEAD", tries |-> JobAttempts, answer |-> 0]
    <3>1. r \in JobRows /\ r.state = "DEAD"
      BY <1>1 DEF JobRows
    <3>2. TryAgain(d) = [job EXCEPT ![d] = r]
      BY <2>1 DEF TryAgain
    <3> HIDE DEF r
    <3> QED
      BY <3>1, <3>2
  <2>2. CASE ~LastTry(d)
    <3> DEFINE r == [state |-> "WAITING", tries |-> job[d].tries + 1, answer |-> 0]
    <3>1. job[d].tries + 1 \in 0 .. JobAttempts
      BY <1>1, <2>2 DEF LastTry, JobRows
    <3>2. r \in JobRows /\ r.state = "WAITING"
      BY <3>1 DEF JobRows
    <3>3. TryAgain(d) = [job EXCEPT ![d] = r]
      BY <1>1, <2>2 DEF TryAgain
    <3> HIDE DEF r
    <3> QED
      BY <3>2, <3>3
  <2> QED
    BY <2>1, <2>2
<1> QED
  BY <1>2, <1>3, <1>4

\* A step of a job that changes the status of its message too.
LEMMA MessageStepKeeps ==
  ASSUME IInv, NEW d \in Dispatches, NEW r \in JobRows, NEW w \in MessageRows,
         NEW f \in faults .. MaxFaults,
         job' = [job EXCEPT ![d] = r], message' = [message EXCEPT ![d[1]] = w], faults' = f,
         UNCHANGED <<outbox, inboxVars, talkVars>>,
         UNCHANGED accepted \/ Accepts(d),
         DispatchIsSound(d)',
         w.dispatch = message[d[1]].dispatch,
         w.status = "NONE" <=> message[d[1]].status = "NONE",
         w.status \in {"PENDING", "QUEUED"} => message[d[1]].status \in {"PENDING", "QUEUED"},
         \/ /\ w.sentAs = message[d[1]].sentAs
            /\ message[d[1]].status \in Shown => w.status = message[d[1]].status
         \/ job[d].state = "ANSWERED" /\ w.sentAs = job[d].answer /\ w.status = "SENT",
         r.state # "ANSWERED"
  PROVE  IInv'
<1>1. /\ d[1] \in Messages /\ message[d[1]].dispatch \in Nat /\ faults \in Nat
      /\ MaxFaults \in Nat /\ MessageIsSound(d[1])
  BY Known
<1>2. OutTypes
  BY DEF IInv
<1>3. accepted' \in Seq(Dispatches) /\ Len(accepted') <= MaxAccepted
  BY <1>2, AcceptingOne DEF OutTypes
<1>4. /\ job' \in [Dispatches -> JobRows] /\ job'[d] = r
      /\ \A e \in Dispatches \ {d} : job'[e] = job[e]
  BY <1>2 DEF OutTypes
<1>5. /\ message' \in [Messages -> MessageRows] /\ message'[d[1]] = w
      /\ \A m \in Messages \ {d[1]} : message'[m] = message[m]
  BY <1>1, <1>2 DEF OutTypes
<1>6. faults' \in 0 .. MaxFaults /\ faults' >= faults
  BY <1>1
<1>7. OutTypes'
  BY <1>2, <1>3, <1>4, <1>5, <1>6 DEF OutTypes
<1>8. \A e \in Dispatches \ {d} : CalledFor(e)' => CalledFor(e)
  <2> SUFFICES ASSUME NEW e \in Dispatches \ {d}, CalledFor(e)'
               PROVE  CalledFor(e)
    OBVIOUS
  <2>1. e[1] \in Messages
    BY DispatchParts
  <2>2. CASE e[1] = d[1]
    BY <1>5, <2>2 DEF CalledFor
  <2>3. CASE e[1] # d[1]
    BY <1>5, <2>1, <2>3 DEF CalledFor
  <2> QED
    BY <2>2, <2>3
<1>9. /\ message'[d[1]].dispatch >= message[d[1]].dispatch
      /\ message'[d[1]].status = "NONE" <=> message'[d[1]].dispatch = 0
  BY <1>1, <1>5 DEF MessageIsSound
<1>10. DispatchMoves(d)
  BY <1>4, <1>5, <1>6, <1>7, <1>8, <1>9 DEF DispatchMoves
<1>11. StatusMoves(d)
  BY <1>4, <1>5 DEF StatusMoves
<1> QED
  BY <1>10, <1>11, OutStepKeeps

LEMMA MarkFailedForm ==
  ASSUME IInv, NEW m \in Messages
  PROVE  \E w \in MessageRows :
           /\ MarkFailed(m) = [message EXCEPT ![m] = w]
           /\ w.dispatch = message[m].dispatch /\ w.sentAs = message[m].sentAs
           /\ w.status = IF message[m].status \in {"PENDING", "QUEUED"} THEN "FAILED"
                         ELSE message[m].status
<1> DEFINE status == IF message[m].status \in {"PENDING", "QUEUED"} THEN "FAILED"
                     ELSE message[m].status
           w == [message[m] EXCEPT !.status = status]
<1>1. message \in [Messages -> MessageRows] /\ message[m] \in MessageRows
  BY DEF IInv, OutTypes
<1>2. MarkFailed(m) = [message EXCEPT ![m] = w]
  <2>1. StatusesFailableFrom(FALSE) = {"PENDING", "QUEUED"}
    BY DEF StatusesFailableFrom
  <2> QED
    BY <1>1, <2>1 DEF MarkFailed
<1>3. status \in {"NONE"} \cup OutboundStatus
  BY <1>1 DEF MessageRows, OutboundStatus
<1> HIDE DEF status
<1>4. /\ w \in MessageRows /\ w.status = status
      /\ w.dispatch = message[m].dispatch /\ w.sentAs = message[m].sentAs
  BY <1>1, <1>3 DEF MessageRows
<1> HIDE DEF w
<1> QED
  BY <1>2, <1>4 DEF status

LEMMA ReadMessageKeeps ==
  ASSUME IInv, NEW d \in Dispatches, ReadMessage(d), UNCHANGED <<inboxVars, talkVars>>
  PROVE  IInv'
<1> DEFINE r == [job[d] EXCEPT !.state = "READING"]
           w == [message[d[1]] EXCEPT !.status = IF @ = "PENDING" THEN "QUEUED" ELSE @]
<1>1. /\ job[d].state = "WAITING" /\ CalledFor(d)
      /\ job' = [job EXCEPT ![d] = r] /\ message' = [message EXCEPT ![d[1]] = w]
      /\ UNCHANGED <<outbox, accepted, faults>>
  BY Known DEF ReadMessage
<1>2. r \in JobRows /\ r.state = "READING"
  BY Known DEF JobRows
<1>3. /\ w \in MessageRows /\ w.dispatch = message[d[1]].dispatch
      /\ w.sentAs = message[d[1]].sentAs /\ w.status = "QUEUED"
      /\ message[d[1]].status \in {"PENDING", "QUEUED"}
  <2>1. message[d[1]].status \in {"PENDING", "QUEUED"} /\ message[d[1]] \in MessageRows
    BY <1>1, Known DEF CalledFor
  <2> QED
    BY <2>1 DEF MessageRows, OutboundStatus
<1> HIDE DEF r, w
<1>4. job'[d] = r /\ message'[d[1]] = w
  BY <1>1, Known
<1>5. DispatchIsSound(d)'
  <2>1. DispatchIsSound(d) /\ Sendable(d)
    BY <1>1, Known DEF Sendable
  <2>2. Acceptances(d)' = Acceptances(d)
    BY <1>1 DEF Acceptances, Accepted
  <2>3. message'[d[1]].dispatch = d[2]
    BY <1>1, <1>3, <1>4 DEF CalledFor
  <2>4. ~(d[2] > message'[d[1]].dispatch) /\ d[2] \in Nat
    BY <2>3, Known
  <2>5. job'[d].state = "READING"
    BY <1>2, <1>4
  <2>6. Cardinality(Acceptances(d))' <= faults' /\ Cardinality(Acceptances(d))' <= 1 + faults'
    BY <1>1, <2>1, <2>2, Known DEF DispatchIsSound
  <2> QED
    BY <2>4, <2>5, <2>6 DEF DispatchIsSound
<1> QED
  BY <1>1, <1>2, <1>3, <1>4, <1>5, Known, MessageStepKeeps DEF Shown

LEMMA IgnoreKeeps ==
  ASSUME IInv, NEW d \in Dispatches, Ignore(d), UNCHANGED <<inboxVars, talkVars>>
  PROVE  IInv'
<1>1. /\ job[d].state = "WAITING" /\ ~CalledFor(d) /\ job' = Complete(d)
      /\ UNCHANGED <<message, outbox, accepted, faults>>
  BY DEF Ignore
<1>2. PICK r \in JobRows : job' = [job EXCEPT ![d] = r] /\ r.state = "DONE"
  BY <1>1, JobForms
<1>3. /\ job'[d] = r /\ outbox' = [outbox EXCEPT ![d] = outbox[d]]
      /\ outbox[d] \in {"NONE", "PENDING", "PUBLISHED"}
  BY <1>1, <1>2, Known DEF IInv, OutTypes
<1>4. DispatchIsSound(d)'
  <2>1. /\ CalledFor(d)' <=> CalledFor(d)
        /\ Acceptances(d)' = Acceptances(d) /\ Accepted' = Accepted
    BY <1>1, SameSends
  <2>2. DispatchIsSound(d)
    BY Known
  <2> QED
    BY <1>1, <1>2, <1>3, <2>1, <2>2 DEF DispatchIsSound, Sendable
<1> QED
  BY <1>1, <1>2, <1>3, <1>4, Known, JobStepKeeps

\* A job ends, and its message has failed unless it went ahead.
LEMMA FailingKeeps ==
  ASSUME IInv, NEW d \in Dispatches, NEW f \in faults .. MaxFaults, job[d].state = "READING",
         job' = Complete(d), message' = MarkFailed(d[1]), faults' = f,
         UNCHANGED <<outbox, inboxVars, talkVars>>,
         \/ UNCHANGED accepted
         \/ Accepts(d) /\ f = faults + 1
  PROVE  IInv'
<1>1. PICK r \in JobRows : job' = [job EXCEPT ![d] = r] /\ r.state = "DONE"
  BY JobForms
<1>2. PICK w \in MessageRows :
        /\ message' = [message EXCEPT ![d[1]] = w]
        /\ w.dispatch = message[d[1]].dispatch /\ w.sentAs = message[d[1]].sentAs
        /\ w.status = IF message[d[1]].status \in {"PENDING", "QUEUED"} THEN "FAILED"
                      ELSE message[d[1]].status
  BY Known, MarkFailedForm
<1>3. job'[d] = r /\ message'[d[1]] = w
  BY <1>1, <1>2, Known
<1>4. ~CalledFor(d)'
  BY <1>2, <1>3 DEF CalledFor
<1>5. ~(d[2] > message'[d[1]].dispatch)
  <2>1. ~(d[2] > message[d[1]].dispatch)
    BY Known DEF DispatchIsSound
  <2>2. message'[d[1]].dispatch = message[d[1]].dispatch
    BY <1>2, <1>3
  <2> QED
    BY <2>1, <2>2
<1>6. Cardinality(Acceptances(d))' <= 1 + faults'
  <2>1. DispatchIsSound(d) /\ Sendable(d)
    BY Known DEF Sendable
  <2>2. \/ Acceptances(d)' = Acceptances(d) /\ faults' >= faults
        \/ /\ Cardinality(Acceptances(d))' = Cardinality(Acceptances(d)) + 1
           /\ faults' = faults + 1
    BY AcceptingOne, Known DEF Acceptances, Accepted, IInv
  <2> QED
    BY <2>1, <2>2, Known DEF DispatchIsSound
<1>7. DispatchIsSound(d)'
  <2>1. job'[d].state = "DONE"
    BY <1>1, <1>3
  <2> QED
    BY <1>4, <1>5, <1>6, <2>1 DEF DispatchIsSound, Sendable
<1> QED
  BY <1>1, <1>2, <1>7, Known, MessageStepKeeps DEF Shown

\* A try ends, and the message is as it was.
LEMMA TryingKeeps ==
  ASSUME IInv, NEW d \in Dispatches, NEW f \in faults .. MaxFaults,
         job[d].state \in {"WAITING", "READING", "ANSWERED"},
         job' = TryAgain(d), faults' = f, UNCHANGED <<message, outbox, inboxVars, talkVars>>,
         \/ UNCHANGED accepted /\ (job[d].state = "READING" \/ f = faults + 1)
         \/ Accepts(d) /\ job[d].state = "READING" /\ f = faults + 1
  PROVE  IInv'
<1>1. PICK r \in JobRows : job' = [job EXCEPT ![d] = r] /\ r.state \in {"WAITING", "DEAD"}
  BY JobForms
<1>2. /\ job'[d] = r /\ outbox' = [outbox EXCEPT ![d] = outbox[d]]
      /\ outbox[d] \in {"NONE", "PENDING", "PUBLISHED"}
  BY <1>1, Known DEF IInv, OutTypes
<1>3. DispatchIsSound(d)
  BY Known
<1>4. Cardinality(Acceptances(d))' <= faults'
  <2>1. CASE UNCHANGED accepted
    <3>1. Acceptances(d)' = Acceptances(d)
      BY <2>1 DEF Acceptances, Accepted
    <3>2. CASE job[d].state = "READING"
      BY <1>3, <3>1, <3>2, Known DEF DispatchIsSound, Sendable
    <3>3. CASE f = faults + 1
      BY <1>3, <3>1, <3>3, Known DEF DispatchIsSound
    <3>4. job[d].state = "READING" \/ f = faults + 1
      OBVIOUS
    <3> QED
      BY <3>2, <3>3, <3>4
  <2>2. CASE Accepts(d) /\ job[d].state = "READING" /\ f = faults + 1
    <3>1. Cardinality(Acceptances(d)) <= faults
      BY <1>3, <2>2 DEF DispatchIsSound, Sendable
    <3>2. Cardinality(Acceptances(d))' = Cardinality(Acceptances(d)) + 1
      BY <2>2, AcceptingOne DEF IInv
    <3> QED
      BY <2>2, <3>1, <3>2, Known
  <2> QED
    BY <2>1, <2>2
<1>5. DispatchIsSound(d)'
  <2>1. d[2] <= message[d[1]].dispatch
    BY <1>3, Known DEF DispatchIsSound
  <2>2. faults' \in Nat /\ Cardinality(Acceptances(d))' <= 1 + faults'
    <3>1. faults' \in Nat
      BY Known
    <3>2. Cardinality(Acceptances(d))' \in Nat
      <4>1. accepted' \in Seq(Dispatches)
        BY AcceptingOne, Known DEF IInv
      <4>2. IsFiniteSet(Acceptances(d)') /\ Cardinality(Acceptances(d)') \in Nat
        <5>1. Acceptances(d)' \subseteq 1 .. Len(accepted')
          BY <4>1 DEF Acceptances, Accepted
        <5>2. IsFiniteSet(1 .. Len(accepted'))
          BY <4>1, FS_Interval
        <5> QED
          BY <5>1, <5>2, FS_Subset, FS_CardinalityType
      <4> QED
        BY <4>2
    <3> QED
      BY <1>4, <3>1, <3>2
  <2> QED
    BY <1>1, <1>2, <1>4, <2>1, <2>2, Known DEF DispatchIsSound
<1> QED
  BY <1>1, <1>2, <1>5, Known, JobStepKeeps

LEMMA SendKeeps ==
  ASSUME IInv, NEW d \in Dispatches, Send(d), UNCHANGED <<inboxVars, talkVars>>
  PROVE  IInv'
<1> DEFINE id == Len(accepted) + 1
<1>1. /\ job[d].state = "READING" /\ Accepts(d) /\ job' = JobWith(d, "ANSWERED", id)
      /\ UNCHANGED <<message, outbox, faults>>
  BY DEF Send, CanAccept, Accepts, JobWith
<1>2. /\ id \in ExternalIds /\ id \notin Accepted /\ id \in Accepted' /\ accepted'[id] = d
      /\ Cardinality(Acceptances(d))' = Cardinality(Acceptances(d)) + 1
  BY <1>1, AcceptingOne DEF IInv
<1> HIDE DEF id
<1>3. PICK r \in JobRows : job' = [job EXCEPT ![d] = r] /\ r.state = "ANSWERED" /\ r.answer = id
  <2>1. "ANSWERED" \in {"READING", "WAITING", "ANSWERED", "DONE"} /\ id \in {0} \cup ExternalIds
    BY <1>2
  <2>2. \A s \in {"READING", "WAITING", "ANSWERED", "DONE"}, i \in {0} \cup ExternalIds :
          \E r \in JobRows : JobWith(d, s, i) = [job EXCEPT ![d] = r] /\ r.state = s /\ r.answer = i
    BY JobForms, Zenon
  <2>3. \E r \in JobRows :
          JobWith(d, "ANSWERED", id) = [job EXCEPT ![d] = r] /\ r.state = "ANSWERED" /\ r.answer = id
    BY <2>1, <2>2
  <2> QED
    BY <1>1, <2>3
<1>4. /\ job'[d] = r /\ outbox' = [outbox EXCEPT ![d] = outbox[d]]
      /\ outbox[d] \in {"NONE", "PENDING", "PUBLISHED"}
  BY <1>1, <1>3, Known DEF IInv, OutTypes
<1>5. DispatchIsSound(d)'
  <2>1. DispatchIsSound(d) /\ Sendable(d) /\ MessageIsSound(d[1])
    BY <1>1, Known DEF Sendable
  <2>2. ~(d[2] > message'[d[1]].dispatch)
    BY <1>1, <2>1 DEF DispatchIsSound
  <2>3. message'[d[1]].sentAs # id
    <3>1. id # 0
      BY <1>2, OutboundAssumption DEF ExternalIds
    <3> QED
      BY <1>1, <1>2, <2>1, <3>1 DEF MessageIsSound
  <2>4. Cardinality(Acceptances(d))' <= 1 + faults'
    BY <1>1, <1>2, <2>1, Known DEF DispatchIsSound
  <2>5. job'[d].state = "ANSWERED" /\ job'[d].answer = id
    BY <1>3, <1>4
  <2> QED
    BY <1>2, <2>2, <2>3, <2>4, <2>5 DEF DispatchIsSound, Sendable
<1>6. faults' \in faults .. MaxFaults /\ r.answer \notin Accepted
  <2>1. faults' = faults /\ faults \in faults .. MaxFaults
    BY <1>1, Known
  <2> QED
    BY <1>2, <1>3, <2>1
<1> QED
  BY <1>1, <1>3, <1>4, <1>5, <1>6, JobStepKeeps

LEMMA RecordSentKeeps ==
  ASSUME IInv, NEW d \in Dispatches, RecordSent(d), UNCHANGED <<inboxVars, talkVars>>
  PROVE  IInv'
<1> DEFINE m == d[1]
<1>1. /\ job[d].state = "ANSWERED" /\ job' = Complete(d)
      /\ message' = IF message[m].status \in StatusesUpgradableTo("SENT")
                    THEN [message EXCEPT ![m].status = "SENT", ![m].sentAs = job[d].answer]
                    ELSE message
      /\ UNCHANGED <<outbox, accepted, faults>>
  BY DEF RecordSent
<1>2. StatusesUpgradableTo("SENT") = {"PENDING", "QUEUED"}
  BY DEF StatusesUpgradableTo, Rank, OutboundStatus
<1>3. PICK r \in JobRows : job' = [job EXCEPT ![d] = r] /\ r.state = "DONE"
  BY <1>1, JobForms
<1>4. /\ m \in Messages /\ message[m] \in MessageRows /\ job[d] \in JobRows
      /\ message \in [Messages -> MessageRows] /\ job'[d] = r
  BY <1>3, Known
<1>5. /\ DispatchIsSound(d) /\ ~(d[2] > message[m].dispatch)
      /\ Acceptances(d)' = Acceptances(d) /\ faults' = faults
  BY <1>1, Known DEF DispatchIsSound, Acceptances, Accepted
<1>6. CASE message[m].status \in {"PENDING", "QUEUED"}
  <2> DEFINE w == [message[m] EXCEPT !.status = "SENT", !.sentAs = job[d].answer]
  <2>1. /\ w \in MessageRows /\ w.status = "SENT" /\ w.sentAs = job[d].answer
        /\ w.dispatch = message[m].dispatch
    BY <1>4 DEF MessageRows, JobRows, OutboundStatus
  <2>2. message' = [message EXCEPT ![m] = w] /\ message'[m] = w
    BY <1>1, <1>2, <1>4, <1>6
  <2> HIDE DEF w
  <2>3. ~CalledFor(d)' /\ ~(d[2] > message'[d[1]].dispatch) /\ job'[d].state = "DONE"
    BY <1>3, <1>4, <1>5, <2>1, <2>2 DEF CalledFor
  <2>4. DispatchIsSound(d)'
    BY <1>5, <2>3 DEF DispatchIsSound, Sendable
  <2> QED
    BY <1>1, <1>3, <1>4, <1>6, <2>1, <2>2, <2>4, Known, MessageStepKeeps DEF Shown
<1>7. CASE message[m].status \notin {"PENDING", "QUEUED"}
  <2>1. UNCHANGED message
    BY <1>1, <1>2, <1>7
  <2>2. ~CalledFor(d)' /\ ~(d[2] > message'[d[1]].dispatch) /\ job'[d].state = "DONE"
    BY <1>3, <1>4, <1>5, <1>7, <2>1 DEF CalledFor
  <2>3. DispatchIsSound(d)'
    BY <1>5, <2>2 DEF DispatchIsSound, Sendable
  <2>4. outbox' = [outbox EXCEPT ![d] = outbox[d]] /\ outbox[d] \in {"NONE", "PENDING", "PUBLISHED"}
    BY <1>1 DEF IInv, OutTypes
  <2> QED
    BY <1>1, <1>3, <2>1, <2>3, <2>4, Known, JobStepKeeps
<1> QED
  BY <1>6, <1>7

LEMMA FaultsGrow ==
  ASSUME IInv, faults < MaxFaults
  PROVE  faults + 1 \in faults .. MaxFaults
BY OutboundAssumption DEF IInv, OutTypes

LEMMA JobStepsKeep ==
  ASSUME IInv, NEW d \in Dispatches, OutboundSteps(d) \/ OutboundFaults(d),
         UNCHANGED <<inboxVars, talkVars>>
  PROVE  IInv'
<1>1. CASE FailForGood(d)
  BY <1>1, FailingKeeps, Known DEF FailForGood
<1>2. CASE FailForNow(d)
  <2>1. /\ job[d].state = "READING" /\ UNCHANGED <<outbox, accepted, faults>>
        /\ \/ job' = Complete(d) /\ message' = MarkFailed(d[1])
           \/ job' = TryAgain(d) /\ UNCHANGED message
    BY <1>2 DEF FailForNow
  <2> QED
    BY <2>1, FailingKeeps, TryingKeeps, Known
<1>3. CASE LoseAnswer(d)
  <2>1. /\ job[d].state = "READING" /\ Accepts(d) /\ faults' = faults + 1
        /\ faults + 1 \in faults .. MaxFaults /\ UNCHANGED outbox
        /\ \/ job' = Complete(d) /\ message' = MarkFailed(d[1])
           \/ job' = TryAgain(d) /\ UNCHANGED message
    BY <1>3, FaultsGrow DEF LoseAnswer, CanAccept, Accepts
  <2> QED
    BY <2>1, FailingKeeps, TryingKeeps
<1>4. CASE JobBreaks(d)
  <2>1. /\ job[d].state \in {"WAITING", "READING", "ANSWERED"} /\ faults' = faults + 1
        /\ faults + 1 \in faults .. MaxFaults
        /\ job' = TryAgain(d) /\ UNCHANGED <<message, outbox, accepted>>
    BY <1>4, FaultsGrow DEF JobBreaks
  <2> QED
    BY <2>1, TryingKeeps
<1> QED
  BY <1>1, <1>2, <1>3, <1>4, AddJobKeeps, MarkPublishedKeeps, ReadMessageKeeps, IgnoreKeeps,
     RecordSentKeeps, SendKeeps, ForgetKeeps DEF OutboundSteps, OutboundFaults

\* A message gets a new dispatch.
LEMMA DispatchingKeeps ==
  ASSUME IInv, NEW d \in Dispatches, NEW w \in MessageRows,
         message[d[1]].status \in {"NONE", "FAILED"}, d[2] = message[d[1]].dispatch + 1,
         message' = [message EXCEPT ![d[1]] = w],
         w.status = "PENDING", w.dispatch = d[2], w.sentAs = message[d[1]].sentAs,
         outbox' = [outbox EXCEPT ![d] = "PENDING"],
         UNCHANGED <<job, accepted, faults, inboxVars, talkVars>>
  PROVE  IInv'
<1>1. /\ d[1] \in Messages /\ message \in [Messages -> MessageRows]
      /\ message[d[1]].dispatch \in Nat /\ d[2] \in Nat /\ d[2] # 0
      /\ d = <<d[1], d[2]>> /\ DispatchIsSound(d) /\ OutTypes
  BY Known DEF IInv
<1>2. /\ message' \in [Messages -> MessageRows] /\ message'[d[1]] = w
      /\ \A m \in Messages \ {d[1]} : message'[m] = message[m]
  BY <1>1
<1>3. /\ outbox' \in [Dispatches -> {"NONE", "PENDING", "PUBLISHED"}] /\ outbox'[d] = "PENDING"
      /\ \A e \in Dispatches \ {d} : outbox'[e] = outbox[e]
  BY <1>1 DEF OutTypes
<1>4. OutTypes'
  BY <1>1, <1>2, <1>3 DEF OutTypes
<1>5. \A e \in Dispatches \ {d} : CalledFor(e)' => CalledFor(e)
  <2> SUFFICES ASSUME NEW e \in Dispatches \ {d}, CalledFor(e)'
               PROVE  CalledFor(e)
    OBVIOUS
  <2>1. e[1] \in Messages /\ e = <<e[1], e[2]>>
    BY DispatchParts
  <2>2. CASE e[1] = d[1]
    <3>1. e[2] = d[2]
      BY <1>2, <2>2 DEF CalledFor
    <3> QED
      BY <1>1, <2>1, <2>2, <3>1
  <2>3. CASE e[1] # d[1]
    BY <1>2, <2>1, <2>3 DEF CalledFor
  <2> QED
    BY <2>2, <2>3
<1>6. DispatchMoves(d)
  <2>1. message'[d[1]].dispatch >= message[d[1]].dispatch
    BY <1>1, <1>2
  <2>2. message'[d[1]].status = "NONE" <=> message'[d[1]].dispatch = 0
    BY <1>1, <1>2
  <2>3. faults' >= faults /\ message'[d[1]].sentAs = message[d[1]].sentAs
    BY <1>2, Known
  <2> QED
    BY <1>2, <1>3, <1>4, <1>5, <2>1, <2>2, <2>3 DEF DispatchMoves
<1>7. /\ job[d].state = "ABSENT" /\ Acceptances(d) = {}
  BY <1>1 DEF DispatchIsSound
<1>8. DispatchIsSound(d)'
  <2>1. Acceptances(d)' = {} /\ Cardinality({}) = 0
    BY <1>7, FS_EmptySet DEF Acceptances, Accepted
  <2>2. Cardinality(Acceptances(d))' = 0 /\ faults' \in Nat
    BY <2>1, Known
  <2>3. ~(d[2] > message'[d[1]].dispatch)
    BY <1>1, <1>2
  <2> QED
    BY <1>3, <1>7, <2>2, <2>3 DEF DispatchIsSound
<1>9. StatusMoves(d)
  BY <1>2, <1>7 DEF StatusMoves, Shown
<1> QED
  BY <1>6, <1>8, <1>9, OutStepKeeps

LEMMA SendMessageKeeps ==
  ASSUME IInv, NEW m \in Messages, SendMessage(m)
  PROVE  IInv'
<1> DEFINE w == [message[m] EXCEPT !.status = "PENDING", !.dispatch = 1]
           d == <<m, 1>>
<1>1. /\ message \in [Messages -> MessageRows] /\ message[m] \in MessageRows
      /\ MaxDispatches \in Nat \ {0} /\ MessageIsSound(m)
  BY OutboundAssumption DEF IInv, OutTypes, OutboundIsSound
<1>2. /\ message[m].status = "NONE" /\ message' = [message EXCEPT ![m] = w]
      /\ outbox' = [outbox EXCEPT ![d] = "PENDING"]
      /\ UNCHANGED <<job, accepted, faults, inboxVars, talkVars>>
  BY <1>1 DEF SendMessage, CreateOutbound
<1>3. 1 \in 0 .. MaxDispatches /\ 1 \in 1 .. MaxDispatches
  BY <1>1
<1>4. /\ w \in MessageRows /\ w.status = "PENDING" /\ w.dispatch = 1 /\ w.sentAs = message[m].sentAs
  BY <1>1, <1>3 DEF MessageRows, OutboundStatus
<1>5. d \in Dispatches /\ d[1] = m /\ d[2] = 1 /\ message[m].dispatch = 0
  BY <1>1, <1>2, <1>3 DEF Dispatches, MessageIsSound
<1> HIDE DEF w, d
<1>6. d[2] = message[d[1]].dispatch + 1
  BY <1>5
<1>7. /\ message[d[1]].status \in {"NONE", "FAILED"} /\ w.status = "PENDING" /\ w.dispatch = d[2]
      /\ w.sentAs = message[d[1]].sentAs /\ message' = [message EXCEPT ![d[1]] = w]
  BY <1>2, <1>4, <1>5
<1> QED
  BY <1>2, <1>4, <1>5, <1>6, <1>7, DispatchingKeeps

LEMMA RetryMessageKeeps ==
  ASSUME IInv, NEW m \in Messages, RetryMessage(m)
  PROVE  IInv'
<1> DEFINE n == message[m].dispatch + 1
           w == [message[m] EXCEPT !.status = "PENDING", !.dispatch = n]
           d == <<m, n>>
<1>1. /\ message \in [Messages -> MessageRows] /\ message[m] \in MessageRows
      /\ MaxDispatches \in Nat \ {0}
  BY OutboundAssumption DEF IInv, OutTypes
<1>2. /\ message[m].status = "FAILED" /\ message' = [message EXCEPT ![m] = w]
      /\ outbox' = [outbox EXCEPT ![d] = "PENDING"] /\ n <= MaxDispatches
      /\ UNCHANGED <<job, accepted, faults, inboxVars, talkVars>>
  BY <1>1 DEF RetryMessage, Retry
<1>3. n \in 1 .. MaxDispatches
  BY <1>1, <1>2 DEF MessageRows
<1>4. d \in Dispatches /\ d[1] = m /\ d[2] = message[m].dispatch + 1
  BY <1>3 DEF Dispatches
<1> HIDE DEF n
<1>5. /\ w \in MessageRows /\ w.status = "PENDING" /\ w.dispatch = n /\ w.sentAs = message[m].sentAs
  <2>1. n \in 0 .. MaxDispatches
    BY <1>1, <1>3
  <2> QED
    BY <1>1, <2>1 DEF MessageRows, OutboundStatus
<1>6. d[2] = n
  OBVIOUS
<1> HIDE DEF w, d
<1> QED
  BY <1>2, <1>4, <1>5, <1>6, DispatchingKeeps

-----------------------------------------------------------------------------
(* The steps of the inbox.                                                 *)

LEMMA TasksForms ==
  ASSUME NEW j, NEW t
  PROVE  /\ task' = TasksWith(j, t) =>
              /\ DOMAIN task' = DOMAIN task \cup {j} /\ task'[j] = t
              /\ \A k \in DOMAIN task \ {j} : task'[k] = task[k]
         /\ task' = TasksWithout(j) =>
              /\ DOMAIN task' = DOMAIN task \ {j}
              /\ \A k \in DOMAIN task \ {j} : task'[k] = task[k]
BY DEF TasksWith, TasksWithout

\* What a step may do to the jobs of the inbox, none of which becomes APPLIED.
TasksMove(j) ==
  \/ UNCHANGED task
  \/ task' = TasksWithout(j)
  \/ \E t \in TaskRows : /\ task' = TasksWith(j, t) /\ j[1] \in Received'
                         /\ t.state # "APPLIED"
                         /\ t.state = "FOUND" => j[1] \in TextEvents

\* What it may do to the rows.
InboxMoves ==
  /\ inbox' \in [Events -> InboxRows] /\ Received \subseteq Received' /\ ReportsAgree'
  /\ \A e \in Events : inbox'[e].status = "PROCESSED" => Applied(e)

LEMMA InboxStepKeeps ==
  ASSUME IInv, NEW j \in Tasks, TasksMove(j), InboxMoves,
         sweep' \in {NoSweep} \cup Events, breaks' \in 0 .. MaxBreaks,
         UNCHANGED <<outboundVars, talkVars>>
  PROVE  IInv'
<1>1. UNCHANGED <<message, outbox, job, accepted, faults, conversation, storedIn, seen>>
  BY DEF outboundVars, talkVars
<1>2. OutTypes' /\ TalkTypes' /\ OutboundIsSound' /\ Counted'
  <2>1. OutTypes' /\ TalkTypes' /\ Counted'
    BY <1>1 DEF IInv, OutTypes, TalkTypes, Counted, In
  <2>2. OutboundIsSound'
    BY <1>1 DEF IInv, OutboundIsSound, DispatchIsSound, MessageIsSound, CalledFor, Sendable,
       Acceptances, Accepted
  <2> QED
    BY <2>1, <2>2
<1>3. /\ DOMAIN task \subseteq Tasks /\ \A k \in DOMAIN task : task[k] \in TaskRows
      /\ \A k \in DOMAIN task : k[1] \in Received
      /\ \A k \in DOMAIN task : task[k].state = "FOUND" => k[1] \in TextEvents
  BY DEF IInv, InTypes, InboxIsSound
<1>4. /\ DOMAIN task' \subseteq Tasks /\ \A k \in DOMAIN task' : task'[k] \in TaskRows
      /\ \A k \in DOMAIN task' : k[1] \in Received'
      /\ \A k \in DOMAIN task' : task'[k].state = "FOUND" => k[1] \in TextEvents
      /\ \A k \in DOMAIN task' : task'[k].state = "APPLIED" =>
           k \in DOMAIN task /\ task[k].state = "APPLIED"
  <2>1. CASE UNCHANGED task
    BY <1>3, <2>1 DEF InboxMoves
  <2>2. CASE task' = TasksWithout(j)
    <3>1. /\ DOMAIN task' = DOMAIN task \ {j}
          /\ \A k \in DOMAIN task \ {j} : task'[k] = task[k]
      BY <2>2, TasksForms
    <3> QED
      BY <1>3, <3>1 DEF InboxMoves
  <2>3. ASSUME NEW t \in TaskRows, task' = TasksWith(j, t), j[1] \in Received',
               t.state # "APPLIED", t.state = "FOUND" => j[1] \in TextEvents
        PROVE  /\ DOMAIN task' \subseteq Tasks /\ \A k \in DOMAIN task' : task'[k] \in TaskRows
               /\ \A k \in DOMAIN task' : k[1] \in Received'
               /\ \A k \in DOMAIN task' : task'[k].state = "FOUND" => k[1] \in TextEvents
               /\ \A k \in DOMAIN task' : task'[k].state = "APPLIED" =>
                    k \in DOMAIN task /\ task[k].state = "APPLIED"
    <3>1. /\ DOMAIN task' = DOMAIN task \cup {j} /\ task'[j] = t
          /\ \A k \in DOMAIN task \ {j} : task'[k] = task[k]
      BY <2>3, TasksForms
    <3> QED
      BY <1>3, <2>3, <3>1 DEF InboxMoves
  <2> QED
    BY <2>1, <2>2, <2>3 DEF TasksMove
<1>5. InTypes' /\ InboxIsSound'
  BY <1>4 DEF InTypes, InboxIsSound, InboxMoves
<1>6. \A e \in Events : Applied(e)' => Applied(e)
  BY <1>4 DEF InboxMoves, Applied
<1>7. BearersAreSent'
  BY <1>1 DEF IInv, BearersAreSent, InboxMoves
<1>8. AppliedAreShown'
  BY <1>1, <1>6 DEF IInv, AppliedAreShown, Events, Shows, Accepted
<1>9. AppliedAreStored'
  BY <1>1, <1>6 DEF IInv, AppliedAreStored, Events, TextEvents
<1> QED
  BY <1>2, <1>5, <1>7, <1>8, <1>9 DEF IInv

LEMMA InboxStays ==
  ASSUME IInv, UNCHANGED inbox
  PROVE  InboxMoves /\ Received' = Received
BY DEF IInv, InTypes, InboxIsSound, InboxMoves, ReportsAgree, Received, Applied

\* An event that came gets another status.
LEMMA InboxGoesOn ==
  ASSUME IInv, NEW e \in Received, NEW row \in InboxRows, inbox' = [inbox EXCEPT ![e] = row],
         row.status # "NONE", row.status = "PROCESSED" => Applied(e)
  PROVE  InboxMoves /\ Received' = Received
<1>1. e \in Events /\ inbox \in [Events -> InboxRows] /\ inbox[e].status # "NONE"
  BY DEF Received, IInv, InTypes
<1>2. /\ inbox' \in [Events -> InboxRows] /\ inbox'[e] = row
      /\ \A x \in Events \ {e} : inbox'[x] = inbox[x]
  BY <1>1
<1>3. Received' = Received
  BY <1>1, <1>2 DEF Received
<1>4. ReportsAgree'
  BY <1>3 DEF IInv, InboxIsSound, ReportsAgree
<1>5. ASSUME NEW x \in Events, inbox'[x].status = "PROCESSED"
      PROVE  Applied(x)
  BY <1>2, <1>5 DEF Applied
<1> QED
  BY <1>2, <1>3, <1>4, <1>5 DEF InboxMoves

\* The rows that an event may become.
InboxWith(e, status) == [inbox EXCEPT ![e].status = status]

LEMMA InboxForms ==
  ASSUME IInv, NEW e \in Received, NEW status \in InboxStatus
  PROVE  /\ inbox[e].status \in InboxStatus
         /\ \E row \in InboxRows : InboxWith(e, status) = [inbox EXCEPT ![e] = row]
                                   /\ row.status = status
         /\ \/ InboxBecomes(e, status) = InboxWith(e, status)
            \/ InboxBecomes(e, status) = InboxWith(e, inbox[e].status)
<1>1. /\ e \in Events /\ inbox \in [Events -> InboxRows] /\ inbox[e] \in InboxRows
      /\ inbox[e].status # "NONE"
  BY DEF Received, IInv, InTypes
<1>2. inbox[e].status \in InboxStatus
  BY <1>1 DEF InboxRows
<1>3. \E row \in InboxRows : InboxWith(e, status) = [inbox EXCEPT ![e] = row]
                             /\ row.status = status
  <2> DEFINE row == [inbox[e] EXCEPT !.status = status]
  <2>1. row \in InboxRows /\ row.status = status /\ InboxWith(e, status) = [inbox EXCEPT ![e] = row]
    BY <1>1 DEF InboxRows, InboxWith
  <2> HIDE DEF row
  <2> QED
    BY <2>1
<1>4. \/ InboxBecomes(e, status) = InboxWith(e, status)
      \/ InboxBecomes(e, status) = InboxWith(e, inbox[e].status)
  BY <1>1 DEF InboxBecomes, InboxWith
<1> QED
  BY <1>2, <1>3, <1>4

LEMMA InboxGets ==
  ASSUME IInv, NEW e \in Received, NEW status \in InboxStatus,
         inbox' \in {InboxWith(e, status), InboxBecomes(e, status)},
         status = "PROCESSED" => Applied(e)
  PROVE  InboxMoves /\ Received' = Received
<1>1. inbox[e].status \in InboxStatus /\ inbox[e].status # "NONE" /\ e \in Events
  BY InboxForms DEF Received
<1>2. inbox' = InboxWith(e, status) \/ inbox' = InboxWith(e, inbox[e].status)
  BY InboxForms
<1>3. ASSUME NEW s \in InboxStatus, inbox' = InboxWith(e, s), s = "PROCESSED" => Applied(e)
      PROVE  InboxMoves /\ Received' = Received
  <2>1. PICK row \in InboxRows : inbox' = [inbox EXCEPT ![e] = row] /\ row.status = s
    BY <1>3, InboxForms
  <2>2. s # "NONE"
    BY <1>3 DEF InboxStatus, Unfinished
  <2> QED
    BY <1>3, <2>1, <2>2, InboxGoesOn
<1>4. inbox[e].status = "PROCESSED" => Applied(e)
  BY DEF Applied
<1> QED
  BY <1>1, <1>2, <1>3, <1>4

\* What is known of a job and of its event.
LEMMA KnownTask ==
  ASSUME IInv, NEW j \in DOMAIN task
  PROVE  /\ j \in Tasks /\ j[1] \in Received /\ j[1] \in Events /\ task[j] \in TaskRows
         /\ sweep \in {NoSweep} \cup Events /\ breaks \in 0 .. MaxBreaks
         /\ inbox \in [Events -> InboxRows]
<1>1. j \in Tasks /\ j[1] \in Received /\ task[j] \in TaskRows
  BY DEF IInv, InTypes, InboxIsSound
<1>2. /\ sweep \in {NoSweep} \cup Events /\ breaks \in 0 .. MaxBreaks
      /\ inbox \in [Events -> InboxRows]
  BY DEF IInv, InTypes
<1> QED
  BY <1>1, <1>2 DEF Received

LEMMA ReceiveKeeps ==
  ASSUME IInv, NEW e \in Events, Receive(e)
  PROVE  IInv'
<1>1. /\ inbox[e].status = "NONE" /\ Reportable(e) /\ inbox' = [inbox EXCEPT ![e].status = "RECEIVED"]
      /\ \/ task' = TasksAdding(<<e, 0>>) /\ UNCHANGED breaks
         \/ breaks < MaxBreaks /\ breaks' = breaks + 1 /\ UNCHANGED task
      /\ UNCHANGED <<outboundVars, sweep, talkVars>>
  BY DEF Receive
<1>2. inbox \in [Events -> InboxRows] /\ inbox[e] \in InboxRows
  BY DEF IInv, InTypes
<1>3. /\ inbox' \in [Events -> InboxRows] /\ inbox'[e].status = "RECEIVED"
      /\ \A x \in Events \ {e} : inbox'[x] = inbox[x]
  <2> DEFINE row == [inbox[e] EXCEPT !.status = "RECEIVED"]
  <2>1. row \in InboxRows /\ row.status = "RECEIVED" /\ inbox' = [inbox EXCEPT ![e] = row]
    BY <1>1, <1>2 DEF InboxRows, InboxStatus, Unfinished
  <2> HIDE DEF row
  <2> QED
    BY <1>2, <2>1
<1>4. Received' = Received \cup {e}
  BY <1>3 DEF Received
<1>5. ReportsAgree'
  <2> SUFFICES ASSUME NEW id \in ExternalIds, <<id, "FAILED">> \in Received'
               PROVE  <<id, "DELIVERED">> \notin Received' /\ <<id, "READ">> \notin Received'
    BY DEF ReportsAgree
  <2>1. <<id, "FAILED">> \in Received =>
          <<id, "DELIVERED">> \notin Received /\ <<id, "READ">> \notin Received
    BY DEF IInv, InboxIsSound, ReportsAgree
  <2>2. CASE e \notin StatusEvents
    <3>1. \A s \in {"FAILED", "DELIVERED", "READ"} : <<id, s>> \in Received' => <<id, s>> \in Received
      <4> SUFFICES ASSUME NEW s \in {"FAILED", "DELIVERED", "READ"}, <<id, s>> = e
                   PROVE  FALSE
        BY <1>4
      <4> QED
        BY <2>2 DEF Events, TextEvents, StatusEvents
    <3> QED
      BY <2>1, <3>1
  <2>3. CASE e \in StatusEvents
    <3>1. IF e[2] = "FAILED"
          THEN {<<e[1], "DELIVERED">>, <<e[1], "READ">>} \cap Received = {}
          ELSE <<e[1], "FAILED">> \notin Received
      BY <1>1, <2>3 DEF Reportable
    <3>2. e = <<e[1], e[2]>>
      BY <2>3 DEF StatusEvents
    <3>3. CASE e[2] = "FAILED"
      <4>1. e # <<id, "DELIVERED">> /\ e # <<id, "READ">>
        BY <3>3
      <4> QED
        BY <1>4, <2>1, <3>1, <3>3, <4>1
    <3>4. CASE e[2] # "FAILED"
      <4>1. e # <<id, "FAILED">>
        BY <3>4
      <4>2. <<id, "FAILED">> \in Received
        BY <1>4, <4>1
      <4>3. e[1] # id
        BY <3>1, <3>4, <4>2
      <4>4. e # <<id, "DELIVERED">> /\ e # <<id, "READ">>
        BY <4>3
      <4> QED
        BY <1>4, <2>1, <4>2, <4>4
    <3> QED
      BY <3>3, <3>4
  <2> QED
    BY <2>2, <2>3
<1>6. \A x \in Events : inbox'[x].status = "PROCESSED" => Applied(x)
  BY <1>3 DEF Applied
<1>7. InboxMoves
  BY <1>3, <1>4, <1>5, <1>6 DEF InboxMoves
<1>8. <<e, 0>> \in Tasks /\ TasksMove(<<e, 0>>)
  <2>1. Waiting \in TaskRows /\ Waiting.state = "WAITING"
    BY OutboundAssumption DEF Waiting, TaskRows
  <2>2. <<e, 0>>[1] \in Received'
    BY <1>4
  <2>3. UNCHANGED task \/ task' = TasksWith(<<e, 0>>, Waiting)
    BY <1>1 DEF TasksAdding
  <2> QED
    BY <2>1, <2>2, <2>3 DEF TasksMove, Tasks
<1>9. breaks' \in 0 .. MaxBreaks /\ sweep' \in {NoSweep} \cup Events
  <2>1. breaks \in 0 .. MaxBreaks /\ MaxBreaks \in Nat /\ sweep \in {NoSweep} \cup Events
    BY MessagingAssumption DEF IInv, InTypes
  <2> QED
    BY <1>1, <2>1
<1> QED
  BY <1>1, <1>7, <1>8, <1>9, InboxStepKeeps

\* Steps that leave the jobs as they are, but for one that is added.
LEMMA WebhookKeeps ==
  ASSUME IInv, NEW e \in Events, MarkQueued(e) \/ Redeliver(e) \/ Orphan(e) \/ SweepAdds(e)
  PROVE  IInv'
<1>1. /\ sweep \in {NoSweep} \cup Events /\ breaks \in 0 .. MaxBreaks /\ MaxBreaks \in Nat
      /\ inbox \in [Events -> InboxRows] /\ inbox[e] \in InboxRows
      /\ \A j \in DOMAIN task : j[1] \in Received
  BY MessagingAssumption DEF IInv, InTypes, InboxIsSound
<1>2. breaks < MaxBreaks => breaks + 1 \in 0 .. MaxBreaks
  BY <1>1
<1>3. Waiting \in TaskRows /\ Waiting.state = "WAITING"
  BY OutboundAssumption DEF Waiting, TaskRows
<1>4. CASE MarkQueued(e)
  <2>1. e \in Received /\ inbox' = InboxWith(e, "QUEUED") /\ "QUEUED" \in InboxStatus
    BY <1>4 DEF MarkQueued, Received, InboxWith, InboxStatus, Unfinished
  <2>2. InboxMoves
    BY <2>1, InboxGets
  <2>3. <<e, 0>> \in Tasks /\ TasksMove(<<e, 0>>)
    BY <1>4 DEF MarkQueued, TasksMove, Tasks
  <2> QED
    BY <1>1, <1>4, <2>2, <2>3, InboxStepKeeps DEF MarkQueued
<1>5. CASE Redeliver(e)
  <2>1. InboxMoves /\ Received' = Received
    BY <1>5, InboxStays DEF Redeliver
  <2>2. <<e, 0>> \in Tasks /\ TasksMove(<<e, 0>>)
    <3>1. <<e, 0>>[1] \in Received'
      BY <1>5, <2>1 DEF Redeliver
    <3> QED
      BY <1>3, <1>5, <3>1 DEF Redeliver, TasksMove, Tasks
  <2> QED
    BY <1>1, <1>2, <1>5, <2>1, <2>2, InboxStepKeeps DEF Redeliver
<1>6. CASE Orphan(e)
  <2>1. e \in Received /\ inbox' = InboxWith(e, "ORPHANED") /\ "ORPHANED" \in InboxStatus
    BY <1>6 DEF Orphan, Received, InboxWith, InboxStatus
  <2>2. InboxMoves
    BY <2>1, InboxGets
  <2>3. <<e, 0>> \in Tasks /\ TasksMove(<<e, 0>>)
    BY <1>6 DEF Orphan, TasksMove, Tasks
  <2> QED
    BY <1>1, <1>6, <2>2, <2>3, InboxStepKeeps DEF Orphan
<1>7. CASE SweepAdds(e)
  <2> DEFINE j == <<e, inbox[e].attempts + 1>>
  <2>1. InboxMoves /\ Received' = Received
    BY <1>7, InboxStays DEF SweepAdds
  <2>2. inbox[e].attempts + 1 \in Nat
    BY <1>1 DEF InboxRows
  <2>3. j \in Tasks /\ j[1] = e
    BY <2>2 DEF Tasks
  <2>4. task' = TasksAdding(j) /\ sweep' = e /\ Due(e) /\ UNCHANGED <<outboundVars, inbox, talkVars>>
    BY <1>7 DEF SweepAdds
  <2>5. breaks' \in 0 .. MaxBreaks
    BY <1>1, <1>2, <1>7 DEF SweepAdds
  <2> HIDE DEF j
  <2>6. e \in Received
    BY <2>4 DEF Due, Received
  <2>7. TasksMove(j)
    BY <1>3, <2>1, <2>3, <2>4, <2>6 DEF TasksMove, TasksAdding
  <2> QED
    BY <2>1, <2>3, <2>4, <2>5, <2>7, InboxStepKeeps
<1> QED
  BY <1>4, <1>5, <1>6, <1>7

LEMMA SweepKeeps ==
  ASSUME IInv, SweepMarks \/ SweepBreaks
  PROVE  IInv'
<1>1. sweep \in Events /\ sweep' = NoSweep /\ breaks \in 0 .. MaxBreaks
      /\ UNCHANGED <<outboundVars, task, breaks, talkVars>>
  BY DEF SweepMarks, SweepBreaks, IInv, InTypes
<1>2. <<sweep, 0>> \in Tasks /\ TasksMove(<<sweep, 0>>)
  BY <1>1 DEF TasksMove, Tasks
<1>3. InboxMoves
  <2>1. UNCHANGED inbox \/ inbox' = Requeued(sweep)
    BY DEF SweepMarks, SweepBreaks
  <2>2. CASE inbox[sweep].status \in Unfinished /\ inbox' = Requeued(sweep)
    <3>1. sweep \in Received
      BY <1>1, <2>2 DEF Received, Unfinished
    <3>2. inbox' = InboxWith(sweep, "QUEUED") /\ "QUEUED" \in InboxStatus
      <4>1. inbox \in [Events -> InboxRows]
        BY DEF IInv, InTypes
      <4> QED
        BY <1>1, <2>2, <4>1 DEF Requeued, InboxWith, InboxStatus, Unfinished
    <3> QED
      BY <3>1, <3>2, InboxGets
  <2>3. CASE inbox[sweep].status \notin Unfinished /\ inbox' = Requeued(sweep)
    <3>1. inbox \in [Events -> InboxRows]
      BY DEF IInv, InTypes
    <3>2. inbox' = inbox
      BY <1>1, <2>3, <3>1 DEF Requeued, InboxRows
    <3> QED
      BY <3>2, InboxStays
  <2> QED
    BY <2>1, <2>2, <2>3, InboxStays
<1> QED
  BY <1>1, <1>2, <1>3, InboxStepKeeps

\* A row of a job that is not yet APPLIED.
LEMMA TaskMoves ==
  ASSUME IInv, NEW j \in DOMAIN task, NEW t \in TaskRows, task' = TasksWith(j, t),
         t.state # "APPLIED", t.state = "FOUND" => j[1] \in TextEvents, Received' = Received
  PROVE  TasksMove(j)
BY KnownTask DEF TasksMove

LEMMA AgainForm ==
  ASSUME IInv, NEW j \in DOMAIN task
  PROVE  \E t \in TaskRows :
           TasksAgain(j) = TasksWith(j, t) /\ t.state \in {"DEAD", "WAITING"}
<1>1. task[j] \in TaskRows /\ JobAttempts \in Nat \ {0}
  BY KnownTask, OutboundAssumption
<1>2. CASE task[j].tries + 1 >= JobAttempts
  <2> DEFINE t == [state |-> "DEAD", tries |-> JobAttempts, found |-> 0]
  <2>1. t \in TaskRows /\ t.state = "DEAD"
    BY <1>1 DEF TaskRows
  <2>2. TasksAgain(j) = TasksWith(j, t)
    BY <1>2 DEF TasksAgain
  <2> HIDE DEF t
  <2> QED
    BY <2>1, <2>2
<1>3. CASE ~(task[j].tries + 1 >= JobAttempts)
  <2> DEFINE t == [state |-> "WAITING", tries |-> task[j].tries + 1, found |-> 0]
  <2>1. task[j].tries + 1 \in 0 .. JobAttempts
    BY <1>1, <1>3 DEF TaskRows
  <2>2. t \in TaskRows /\ t.state = "WAITING"
    BY <2>1 DEF TaskRows
  <2>3. TasksAgain(j) = TasksWith(j, t)
    BY <1>3 DEF TasksAgain
  <2> HIDE DEF t
  <2> QED
    BY <2>2, <2>3
<1> QED
  BY <1>2, <1>3

LEMMA ClaimKeeps ==
  ASSUME IInv, NEW j \in DOMAIN task, Claim(j)
  PROVE  IInv'
<1> DEFINE t == [task[j] EXCEPT !.state = "CLAIMED"]
           row == [inbox[j[1]] EXCEPT !.status = "PROCESSING", !.attempts = @ + 1]
<1>1. /\ j \in Tasks /\ j[1] \in Received /\ j[1] \in Events /\ task[j] \in TaskRows
      /\ sweep \in {NoSweep} \cup Events /\ breaks \in 0 .. MaxBreaks
      /\ inbox \in [Events -> InboxRows] /\ inbox[j[1]] \in InboxRows
  BY KnownTask
<1>2. inbox' = [inbox EXCEPT ![j[1]] = row] /\ task' = TasksWith(j, t)
      /\ UNCHANGED <<outboundVars, sweep, breaks, talkVars>>
  BY <1>1 DEF Claim
<1>3. t \in TaskRows /\ t.state = "CLAIMED"
  BY <1>1 DEF TaskRows
<1>4. row \in InboxRows /\ row.status = "PROCESSING"
  <2>1. inbox[j[1]].attempts + 1 \in Nat
    BY <1>1 DEF InboxRows
  <2> QED
    BY <1>1, <2>1 DEF InboxRows, InboxStatus, Unfinished
<1> HIDE DEF t, row
<1>5. InboxMoves /\ Received' = Received
  BY <1>1, <1>2, <1>4, InboxGoesOn
<1>6. TasksMove(j)
  BY <1>2, <1>3, <1>5, TaskMoves
<1> QED
  BY <1>1, <1>2, <1>5, <1>6, InboxStepKeeps

LEMMA EndKeeps ==
  ASSUME IInv, NEW j \in DOMAIN task, Skip(j) \/ Finish(j)
  PROVE  IInv'
<1>1. /\ j \in Tasks /\ j[1] \in Received /\ j[1] \in Events
      /\ sweep \in {NoSweep} \cup Events /\ breaks \in 0 .. MaxBreaks
  BY KnownTask
<1>2. task' = TasksWithout(j) /\ UNCHANGED <<outboundVars, sweep, breaks, talkVars>>
  BY DEF Skip, Finish
<1>3. InboxMoves
  <2>1. CASE Skip(j)
    BY <2>1, InboxStays DEF Skip
  <2>2. CASE Finish(j) /\ task[j].state = "APPLIED"
    <3>1. inbox' = InboxBecomes(j[1], "PROCESSED") /\ "PROCESSED" \in InboxStatus
      BY <2>2 DEF Finish, InboxStatus
    <3>2. Applied(j[1])
      BY <2>2 DEF Applied
    <3> QED
      BY <1>1, <3>1, <3>2, InboxGets
  <2>3. CASE Finish(j) /\ task[j].state # "APPLIED"
    <3>1. inbox' = InboxBecomes(j[1], "WAITING_MESSAGE") /\ "WAITING_MESSAGE" \in InboxStatus
      BY <2>3 DEF Finish, InboxStatus, Unfinished
    <3> QED
      BY <1>1, <3>1, InboxGets
  <2> QED
    BY <2>1, <2>2, <2>3
<1>4. TasksMove(j)
  BY <1>2 DEF TasksMove
<1> QED
  BY <1>1, <1>2, <1>3, <1>4, InboxStepKeeps

LEMMA TryFailsKeeps ==
  ASSUME IInv, NEW j \in DOMAIN task, TaskBreaks(j) \/ AbortOnConflict(j)
  PROVE  IInv'
<1>1. /\ j \in Tasks /\ j[1] \in Received /\ j[1] \in Events
      /\ sweep \in {NoSweep} \cup Events /\ breaks \in 0 .. MaxBreaks /\ MaxBreaks \in Nat
  BY KnownTask, MessagingAssumption
<1>2. /\ task' = TasksAgain(j) /\ UNCHANGED <<outboundVars, sweep, talkVars>>
      /\ UNCHANGED breaks \/ (breaks < MaxBreaks /\ breaks' = breaks + 1)
      /\ UNCHANGED inbox \/ inbox' = InboxBecomes(j[1], "FAILED")
  <2>1. CASE TaskBreaks(j)
    BY <2>1 DEF TaskBreaks
  <2>2. CASE AbortOnConflict(j)
    <3>1. /\ inbox' = InboxBecomes(j[1], "FAILED") /\ task' = TasksAgain(j)
          /\ UNCHANGED <<outboundVars, sweep, breaks, talkVars>>
      BY <2>2 DEF AbortOnConflict
    <3> QED
      BY <3>1
  <2> QED
    BY <2>1, <2>2
<1>3. InboxMoves /\ Received' = Received
  <2>1. "FAILED" \in InboxStatus
    BY DEF InboxStatus, Unfinished
  <2> QED
    BY <1>1, <1>2, <2>1, InboxStays, InboxGets
<1>4. TasksMove(j)
  <2>1. PICK t \in TaskRows : TasksAgain(j) = TasksWith(j, t) /\ t.state \in {"DEAD", "WAITING"}
    BY AgainForm
  <2> QED
    BY <1>2, <1>3, <2>1, TaskMoves
<1>5. breaks' \in 0 .. MaxBreaks
  BY <1>1, <1>2
<1> QED
  BY <1>1, <1>2, <1>3, <1>4, <1>5, InboxStepKeeps

LEMMA FindConversationKeeps ==
  ASSUME IInv, NEW j \in DOMAIN task, FindConversation(j)
  PROVE  IInv'
<1>1. /\ j \in Tasks /\ task[j] \in TaskRows
      /\ sweep \in {NoSweep} \cup Events /\ breaks \in 0 .. MaxBreaks
  BY KnownTask
<1>2. PICK c \in {0} \cup Conversations :
        task' = TasksWith(j, [task[j] EXCEPT !.state = "FOUND", !.found = c])
  BY DEF FindConversation, Active
<1>3. j[1] \in TextEvents /\ UNCHANGED <<outboundVars, inbox, sweep, breaks, talkVars>>
  BY DEF FindConversation
<1> DEFINE t == [task[j] EXCEPT !.state = "FOUND", !.found = c]
<1>4. t \in TaskRows /\ t.state = "FOUND"
  BY <1>1 DEF TaskRows
<1>5. task' = TasksWith(j, t)
  BY <1>2
<1> HIDE DEF t
<1>6. InboxMoves /\ Received' = Received
  BY <1>3, InboxStays
<1>7. TasksMove(j)
  BY <1>3, <1>4, <1>5, <1>6, TaskMoves
<1> QED
  BY <1>1, <1>3, <1>6, <1>7, InboxStepKeeps

-----------------------------------------------------------------------------
(* The steps that have an effect.                                          *)

\* A job has had its effect: it is APPLIED, and so is its event.
LEMMA ApplyingKeepsTasks ==
  ASSUME IInv, NEW j \in DOMAIN task, task' = TasksWith(j, [task[j] EXCEPT !.state = "APPLIED"]),
         UNCHANGED inboxVars \/ UNCHANGED <<inbox, sweep, breaks>>
  PROVE  /\ InTypes' /\ InboxIsSound' /\ Received' = Received
         /\ \A e \in Events : Applied(e)' => Applied(e) \/ e = j[1]
<1> DEFINE t == [task[j] EXCEPT !.state = "APPLIED"]
<1>1. /\ j \in Tasks /\ j[1] \in Received /\ task[j] \in TaskRows
      /\ UNCHANGED <<inbox, sweep, breaks>>
  BY KnownTask DEF inboxVars
<1>2. t \in TaskRows /\ t.state = "APPLIED" /\ task' = TasksWith(j, t)
  BY <1>1 DEF TaskRows
<1> HIDE DEF t
<1>3. /\ DOMAIN task' = DOMAIN task \cup {j} /\ task'[j] = t
      /\ \A k \in DOMAIN task \ {j} : task'[k] = task[k]
  BY <1>2, TasksForms
<1>4. Received' = Received
  BY <1>1 DEF Received
<1>5. InTypes'
  <2>1. DOMAIN task' \subseteq Tasks
    BY <1>1, <1>3 DEF IInv, InTypes
  <2>2. \A k \in DOMAIN task' : task'[k] \in TaskRows
    BY <1>2, <1>3 DEF IInv, InTypes
  <2> QED
    BY <1>1, <2>1, <2>2 DEF IInv, InTypes
<1>6. InboxIsSound'
  <2>1. \A k \in DOMAIN task' : k[1] \in Received'
    BY <1>1, <1>3, <1>4 DEF IInv, InboxIsSound
  <2>2. \A k \in DOMAIN task' : task'[k].state = "FOUND" => k[1] \in TextEvents
    BY <1>2, <1>3 DEF IInv, InboxIsSound
  <2>3. ReportsAgree'
    BY <1>4 DEF IInv, InboxIsSound, ReportsAgree
  <2> QED
    BY <2>1, <2>2, <2>3 DEF InboxIsSound
<1>7. \A e \in Events : Applied(e)' => Applied(e) \/ e = j[1]
  BY <1>1, <1>3 DEF Applied
<1> QED
  BY <1>4, <1>5, <1>6, <1>7

LEMMA TextsAreFinite == \A c : IsFiniteSet(In(c)) /\ Cardinality(In(c) \ seen) \in Nat
<1> SUFFICES ASSUME NEW c
             PROVE  IsFiniteSet(In(c)) /\ Cardinality(In(c) \ seen) \in Nat
  OBVIOUS
<1>1. In(c) \subseteq Texts /\ In(c) \ seen \subseteq Texts /\ IsFiniteSet(Texts)
  BY MessagingAssumption DEF In
<1> QED
  BY <1>1, FS_Subset, FS_CardinalityType

LEMMA StoreTextKeeps ==
  ASSUME IInv, NEW j \in DOMAIN task, StoreText(j)
  PROVE  IInv'
<1> DEFINE x == j[1][1]
<1>1. /\ task[j].state = "FOUND" /\ ~Conflicts(j) /\ seen' = seen \ {x}
      /\ task' = TasksWith(j, [task[j] EXCEPT !.state = "APPLIED"])
      /\ UNCHANGED <<outboundVars, inbox, sweep, breaks>>
  BY DEF StoreText
<1>2. task[j] \in TaskRows /\ j[1] \in TextEvents /\ j[1] \in Events
  BY <1>1, KnownTask DEF IInv, InboxIsSound
<1>3. x \in Texts /\ j[1] = <<x, "TEXT">> /\ storedIn[x] = 0
  BY <1>1, <1>2 DEF TextEvents, Conflicts
<1>4. PICK c \in IF task[j].found = 0 THEN Fresh ELSE {task[j].found} :
        /\ conversation' = [conversation EXCEPT
             ![c].status = IF task[j].found = 0 THEN "OPEN" ELSE @, ![c].unread = @ + 1]
        /\ storedIn' = [storedIn EXCEPT ![x] = c]
  BY DEF StoreText
<1>5. c \in Conversations /\ c # 0
  <2>1. c \in Conversations
    BY <1>2, <1>4 DEF Fresh, TaskRows
  <2> QED
    BY <2>1, MessagingAssumption DEF Conversations
<1>6. /\ conversation \in [Conversations ->
                             [status : {"NONE", "OPEN", "RESOLVED", "CLOSED"}, unread : Nat]]
      /\ storedIn \in [Texts -> {0} \cup Conversations] /\ seen \subseteq Texts
      /\ \A d \in Conversations : conversation[d].unread = Cardinality(In(d) \ seen)
  BY DEF IInv, TalkTypes, Counted
<1>7. /\ conversation' \in [Conversations ->
                             [status : {"NONE", "OPEN", "RESOLVED", "CLOSED"}, unread : Nat]]
      /\ conversation'[c].unread = conversation[c].unread + 1
      /\ \A d \in Conversations \ {c} : conversation'[d] = conversation[d]
  <2> DEFINE row == [conversation[c] EXCEPT
                       !.status = IF task[j].found = 0 THEN "OPEN" ELSE @, !.unread = @ + 1]
  <2>1. row \in [status : {"NONE", "OPEN", "RESOLVED", "CLOSED"}, unread : Nat]
        /\ row.unread = conversation[c].unread + 1
    <3>1. conversation[c] \in [status : {"NONE", "OPEN", "RESOLVED", "CLOSED"}, unread : Nat]
      BY <1>5, <1>6
    <3>2. conversation[c].unread + 1 \in Nat
      BY <3>1
    <3> QED
      BY <3>1, <3>2
  <2>2. conversation' = [conversation EXCEPT ![c] = row]
    BY <1>4, <1>5, <1>6
  <2> HIDE DEF row
  <2> QED
    BY <1>5, <1>6, <2>1, <2>2
<1>8. /\ storedIn' \in [Texts -> {0} \cup Conversations] /\ storedIn'[x] = c
      /\ \A t \in Texts \ {x} : storedIn'[t] = storedIn[t]
  BY <1>3, <1>4, <1>5, <1>6
<1>9. TalkTypes'
  BY <1>1, <1>6, <1>7, <1>8 DEF TalkTypes
<1>10. /\ InTypes' /\ InboxIsSound' /\ Received' = Received
       /\ \A e \in Events : Applied(e)' => Applied(e) \/ e = j[1]
  BY <1>1, ApplyingKeepsTasks
<1>11. UNCHANGED <<message, outbox, job, accepted, faults>>
  BY <1>1 DEF outboundVars
<1>12. OutTypes' /\ OutboundIsSound'
  <2>1. OutTypes'
    BY <1>11 DEF IInv, OutTypes
  <2>2. OutboundIsSound'
    BY <1>11 DEF IInv, OutboundIsSound, DispatchIsSound, MessageIsSound, CalledFor, Sendable,
       Acceptances, Accepted
  <2> QED
    BY <2>1, <2>2
<1>13. BearersAreSent'
  BY <1>10, <1>11 DEF IInv, BearersAreSent
<1>14. AppliedAreShown'
  <2>1. \A e \in StatusEvents : e \in Events /\ e # j[1]
    BY <1>3, MessagingAssumption DEF StatusEvents, Events
  <2>2. \A e \in StatusEvents : Applied(e)' => Applied(e)
    BY <1>10, <2>1
  <2> QED
    BY <1>11, <2>2 DEF IInv, AppliedAreShown, Shows, Accepted
<1>15. AppliedAreStored'
  <2> SUFFICES ASSUME NEW t \in Texts, Applied(<<t, "TEXT">>)'
               PROVE  storedIn'[t] # 0
    BY DEF AppliedAreStored
  <2>1. CASE t = x
    BY <1>5, <1>8, <2>1
  <2>2. CASE t # x
    <3>1. <<t, "TEXT">> \in Events /\ <<t, "TEXT">> # j[1]
      BY <1>3, <2>2 DEF Events, TextEvents
    <3>2. Applied(<<t, "TEXT">>)
      BY <1>10, <3>1
    <3> QED
      BY <1>8, <2>2, <3>2 DEF IInv, AppliedAreStored
  <2> QED
    BY <2>1, <2>2
<1>16. Counted'
  <2>1. In(c)' = In(c) \cup {x} /\ x \notin In(c)
    BY <1>3, <1>5, <1>8 DEF In
  <2>2. Cardinality(In(c) \ seen)' = Cardinality(In(c) \ seen) + 1
    <3>1. (In(c) \ seen)' = (In(c) \ seen) \cup {x} /\ x \notin In(c) \ seen
      BY <1>1, <2>1
    <3>2. IsFiniteSet(In(c) \ seen)
      BY TextsAreFinite, FS_Subset
    <3>3. Cardinality((In(c) \ seen) \cup {x}) = Cardinality(In(c) \ seen) + 1
      BY <3>1, <3>2, FS_AddElement
    <3> QED
      BY <3>1, <3>3
  <2>3. ASSUME NEW d \in Conversations \ {c}
        PROVE  conversation'[d].unread = Cardinality(In(d) \ seen)'
    <3>1. d # 0
      BY MessagingAssumption DEF Conversations
    <3>2. In(d)' = In(d) /\ x \notin In(d)
      BY <1>3, <1>8, <2>3, <3>1 DEF In
    <3>3. (In(d) \ seen)' = In(d) \ seen
      BY <1>1, <3>2
    <3> QED
      BY <1>6, <1>7, <3>3
  <2>4. conversation'[c].unread = Cardinality(In(c) \ seen)'
    BY <1>5, <1>6, <1>7, <2>2
  <2> QED
    BY <2>3, <2>4 DEF Counted
<1> QED
  BY <1>9, <1>10, <1>12, <1>13, <1>14, <1>15, <1>16 DEF IInv

\* The status of a message that shows s, once the provider has reported r.
Showing(s, r) ==
  CASE r = "READ" -> IF s \in {"PENDING", "QUEUED", "SENT", "DELIVERED"} THEN "READ" ELSE s
    [] r = "DELIVERED" -> IF s \in {"PENDING", "QUEUED", "SENT"} THEN "DELIVERED" ELSE s
    [] r = "FAILED" -> IF s \in {"PENDING", "QUEUED", "SENT"} THEN "FAILED" ELSE s

LEMMA ReportForm ==
  ASSUME IInv, NEW m \in Messages, NEW r \in {"DELIVERED", "READ", "FAILED"}, ApplyStatus(m, r)
  PROVE  \E w \in MessageRows :
           /\ message' = [message EXCEPT ![m] = w]
           /\ w.dispatch = message[m].dispatch /\ w.sentAs = message[m].sentAs
           /\ w.status = Showing(message[m].status, r)
<1> DEFINE s == Showing(message[m].status, r)
           w == [message[m] EXCEPT !.status = s]
<1>1. message \in [Messages -> MessageRows] /\ message[m] \in MessageRows
  BY DEF IInv, OutTypes
<1>2. /\ StatusesFailableFrom(TRUE) = {"PENDING", "QUEUED", "SENT"}
      /\ StatusesUpgradableTo("DELIVERED") = {"PENDING", "QUEUED", "SENT"}
      /\ StatusesUpgradableTo("READ") = {"PENDING", "QUEUED", "SENT", "DELIVERED"}
  BY DEF StatusesFailableFrom, StatusesUpgradableTo, Rank, OutboundStatus
<1>3. message' = IF s # message[m].status THEN [message EXCEPT ![m].status = r] ELSE message
  BY <1>2 DEF ApplyStatus, Showing
<1>4. s = r \/ s = message[m].status
  BY DEF Showing
<1>5. s \in {"NONE"} \cup OutboundStatus
  BY <1>1, <1>4 DEF MessageRows, OutboundStatus
<1>6. message' = [message EXCEPT ![m] = w]
  BY <1>1, <1>3, <1>4 DEF MessageRows
<1> HIDE DEF s
<1>7. /\ w \in MessageRows /\ w.status = s
      /\ w.dispatch = message[m].dispatch /\ w.sentAs = message[m].sentAs
  BY <1>1, <1>5 DEF MessageRows
<1> HIDE DEF w
<1> QED
  BY <1>6, <1>7 DEF s

\* A report moves the only message that bears its identifier, which no job holds.
LEMMA BearersAreUnique ==
  ASSUME IInv, NEW m \in Messages, message[m].sentAs # 0
  PROVE  /\ message[m].sentAs \in Accepted
         /\ \A n \in Messages : message[n].sentAs = message[m].sentAs => n = m
         /\ \A d \in Dispatches :
              job[d].state = "ANSWERED" => job[d].answer # message[m].sentAs
<1>1. \A n \in Messages : message[n].sentAs = message[m].sentAs =>
        message[m].sentAs \in Accepted /\ accepted[message[m].sentAs][1] = n
  BY DEF IInv, OutboundIsSound, MessageIsSound
<1>2. ASSUME NEW d \in Dispatches, job[d].state = "ANSWERED", job[d].answer = message[m].sentAs
      PROVE  FALSE
  <2>1. accepted[job[d].answer] = d /\ message[d[1]].sentAs # job[d].answer
    BY <1>2 DEF IInv, OutboundIsSound, DispatchIsSound
  <2> QED
    BY <1>1, <1>2, <2>1
<1> QED
  BY <1>1, <1>2

LEMMA ApplyEventKeeps ==
  ASSUME IInv, NEW j \in DOMAIN task, ApplyEvent(j)
  PROVE  IInv'
<1> DEFINE id == j[1][1]
           r == j[1][2]
<1>1. /\ task[j].state = "CLAIMED" /\ j[1] \in StatusEvents
      /\ task' = TasksWith(j, [task[j] EXCEPT !.state = FoundState(id)])
      /\ UNCHANGED <<outbox, job, accepted, faults, inbox, sweep, breaks, talkVars>>
  BY DEF ApplyEvent
<1>2. /\ j \in Tasks /\ j[1] \in Received /\ j[1] \in Events /\ task[j] \in TaskRows
      /\ sweep \in {NoSweep} \cup Events /\ breaks \in 0 .. MaxBreaks
  BY KnownTask
<1>3. /\ id \in ExternalIds /\ r \in {"DELIVERED", "READ", "FAILED"} /\ j[1] = <<id, r>>
  BY <1>1, MessagingAssumption DEF StatusEvents
<1>4. CASE Bearers(id) = {}
  <2> DEFINE t == [task[j] EXCEPT !.state = "MISSING"]
  <2>1. task' = TasksWith(j, t) /\ UNCHANGED message
    BY <1>1, <1>4 DEF FoundState, ApplyEvent
  <2>2. t \in TaskRows /\ t.state = "MISSING"
    BY <1>2 DEF TaskRows
  <2> HIDE DEF t
  <2>3. InboxMoves /\ Received' = Received
    BY <1>1, InboxStays
  <2>4. TasksMove(j)
    BY <2>1, <2>2, <2>3, TaskMoves
  <2>5. UNCHANGED <<outboundVars, talkVars, sweep, breaks>>
    BY <1>1, <2>1 DEF outboundVars
  <2> QED
    BY <1>2, <2>3, <2>4, <2>5, InboxStepKeeps
<1>5. CASE Bearers(id) # {}
  <2>1. PICK m \in Bearers(id) : ApplyStatus(m, r)
    BY <1>5 DEF ApplyEvent
  <2>2. m \in Messages /\ message[m].sentAs = id /\ id # 0
    BY <2>1 DEF Bearers
  <2>3. PICK w \in MessageRows :
          /\ message' = [message EXCEPT ![m] = w]
          /\ w.dispatch = message[m].dispatch /\ w.sentAs = message[m].sentAs
          /\ w.status = Showing(message[m].status, r)
    BY <1>3, <2>1, <2>2, ReportForm
  <2>4. /\ id \in Accepted
        /\ \A n \in Messages : message[n].sentAs = id => n = m
        /\ \A d \in Dispatches : job[d].state = "ANSWERED" => job[d].answer # id
    BY <2>2, BearersAreUnique
  <2>5. /\ message \in [Messages -> MessageRows] /\ message' \in [Messages -> MessageRows]
        /\ message'[m] = w /\ \A n \in Messages \ {m} : message'[n] = message[n]
    BY <2>2, <2>3 DEF IInv, OutTypes
  <2>6. /\ UNCHANGED <<outbox, job, accepted, faults, inbox, sweep, breaks>>
        /\ UNCHANGED <<conversation, storedIn, seen>>
    BY <1>1 DEF talkVars
  <2>7. /\ InTypes' /\ InboxIsSound' /\ Received' = Received
        /\ \A e \in Events : Applied(e)' => Applied(e) \/ e = j[1]
    <3>1. FoundState(id) = "APPLIED"
      BY <1>5 DEF FoundState
    <3> QED
      BY <1>1, <2>6, <3>1, ApplyingKeepsTasks
  <2>8. OutTypes'
    BY <2>5, <2>6 DEF IInv, OutTypes
  <2>9. TalkTypes' /\ Counted'
    BY <2>6 DEF IInv, TalkTypes, Counted, In
  <2>10. \A n \in Messages : /\ message'[n].dispatch = message[n].dispatch
                             /\ message'[n].sentAs = message[n].sentAs
    BY <2>3, <2>5
  <2>11. /\ w.status = "NONE" <=> message[m].status = "NONE"
         /\ w.status \in {"PENDING", "QUEUED"} => message[m].status \in {"PENDING", "QUEUED"}
    BY <1>3, <2>3 DEF Showing
  <2>12. OutboundIsSound'
    <3>1. ASSUME NEW d \in Dispatches
          PROVE  DispatchIsSound(d)'
      <4>1. d[1] \in Messages /\ DispatchIsSound(d)
        BY DispatchParts DEF IInv, OutboundIsSound
      <4>2. CalledFor(d)' => CalledFor(d)
        <5>1. CASE d[1] = m
          BY <2>5, <2>10, <2>11, <4>1, <5>1 DEF CalledFor
        <5>2. CASE d[1] # m
          BY <2>5, <4>1, <5>2 DEF CalledFor
        <5> QED
          BY <5>1, <5>2
      <4>3. /\ message'[d[1]].dispatch = message[d[1]].dispatch
            /\ message'[d[1]].sentAs = message[d[1]].sentAs
        BY <2>10, <4>1
      <4>4. Acceptances(d)' = Acceptances(d) /\ Accepted' = Accepted
        BY <2>6 DEF Acceptances, Accepted
      <4>5. Sendable(d)' => Sendable(d)
        BY <2>6, <4>2 DEF Sendable
      <4> QED
        BY <2>6, <4>1, <4>2, <4>3, <4>4, <4>5 DEF DispatchIsSound
    <3>2. ASSUME NEW n \in Messages
          PROVE  MessageIsSound(n)'
      <4>1. MessageIsSound(n)
        BY DEF IInv, OutboundIsSound
      <4>2. message'[n].status = "NONE" <=> message[n].status = "NONE"
        BY <2>5, <2>11
      <4> QED
        BY <2>6, <2>10, <4>1, <4>2 DEF MessageIsSound, Accepted
    <3> QED
      BY <3>1, <3>2 DEF OutboundIsSound
  <2>13. BearersAreSent'
    <3> SUFFICES ASSUME NEW n \in Messages, message'[n].sentAs # 0,
                        <<message'[n].sentAs, "FAILED">> \notin Received'
                 PROVE  message'[n].status \in Shown
      BY DEF BearersAreSent
    <3>1. message[n].status \in Shown /\ <<message[n].sentAs, "FAILED">> \notin Received
      BY <2>7, <2>10 DEF IInv, BearersAreSent
    <3>2. CASE n # m
      BY <2>5, <3>1, <3>2
    <3>3. CASE n = m
      <4>1. r # "FAILED"
        BY <1>2, <1>3, <2>2, <3>1, <3>3
      <4> QED
        BY <1>3, <2>3, <2>5, <3>1, <3>3, <4>1 DEF Showing, Shown
    <3> QED
      BY <3>2, <3>3
  <2>14. AppliedAreShown'
    <3> SUFFICES ASSUME NEW e \in StatusEvents, Applied(e)'
                 PROVE  /\ e[1] \in Accepted'
                        /\ \A d \in Dispatches : job'[d].state = "ANSWERED" => job'[d].answer # e[1]
                        /\ \A n \in Messages : message'[n].sentAs = e[1] => Shows(n, e[2])'
      BY DEF AppliedAreShown
    <3>1. Applied(e) \/ e = j[1]
      BY <2>7 DEF Events
    <3>2. CASE Applied(e)
      <4>1. /\ e[1] \in Accepted
            /\ \A d \in Dispatches : job[d].state = "ANSWERED" => job[d].answer # e[1]
            /\ \A n \in Messages : message[n].sentAs = e[1] => Shows(n, e[2])
        BY <3>2 DEF IInv, AppliedAreShown
      <4>2. ASSUME NEW n \in Messages, message'[n].sentAs = e[1]
            PROVE  Shows(n, e[2])'
        <5>1. Shows(n, e[2])
          BY <2>10, <4>1, <4>2
        <5>2. CASE n # m
          BY <2>5, <5>1, <5>2 DEF Shows
        <5>3. CASE n = m
          <6>1. /\ message[m].status = "READ" => w.status = "READ"
                /\ message[m].status = "DELIVERED" => w.status \in {"DELIVERED", "READ"}
            BY <1>3, <2>3 DEF Showing
          <6> QED
            BY <2>5, <5>1, <5>3, <6>1 DEF Shows
        <5> QED
          BY <5>2, <5>3
      <4> QED
        BY <2>6, <4>1, <4>2 DEF Accepted
    <3>3. CASE e = j[1]
      <4>1. e[1] = id /\ e[2] = r
        BY <3>3
      <4>2. ASSUME NEW n \in Messages, message'[n].sentAs = id
            PROVE  Shows(n, r)'
        <5>1. n = m
          BY <2>4, <2>10, <4>2
        <5>2. r # "FAILED" => message[m].status \in Shown
          <6>1. r # "FAILED" => <<id, "FAILED">> \notin Received
            BY <1>2, <1>3 DEF IInv, InboxIsSound, ReportsAgree
          <6> QED
            BY <2>2, <6>1 DEF IInv, BearersAreSent
        <5>3. /\ r = "READ" => w.status = "READ"
              /\ r = "DELIVERED" => w.status \in {"DELIVERED", "READ"}
          BY <2>3, <5>2 DEF Showing, Shown
        <5> QED
          BY <2>5, <5>1, <5>3 DEF Shows
      <4> QED
        BY <2>4, <2>6, <4>1, <4>2 DEF Accepted
    <3> QED
      BY <3>1, <3>2, <3>3
  <2>15. AppliedAreStored'
    <3> SUFFICES ASSUME NEW t \in Texts, Applied(<<t, "TEXT">>)'
                 PROVE  storedIn'[t] # 0
      BY DEF AppliedAreStored
    <3>1. <<t, "TEXT">> \in Events /\ <<t, "TEXT">> # j[1]
      BY <1>3 DEF Events, TextEvents
    <3> QED
      BY <2>6, <2>7, <3>1 DEF IInv, AppliedAreStored
  <2> QED
    BY <2>7, <2>8, <2>9, <2>12, <2>13, <2>14, <2>15 DEF IInv
<1> QED
  BY <1>4, <1>5

\* Agents move and read conversations.
LEMMA TalkKeeps ==
  ASSUME IInv, NEW c \in Conversations,
         MarkRead(c) \/ \E to \in StatusTargets : UpdateStatus(c, to)
  PROVE  IInv'
<1>1. /\ conversation \in [Conversations ->
                             [status : {"NONE", "OPEN", "RESOLVED", "CLOSED"}, unread : Nat]]
      /\ conversation[c] \in [status : {"NONE", "OPEN", "RESOLVED", "CLOSED"}, unread : Nat]
      /\ \A d \in Conversations : conversation[d].unread = Cardinality(In(d) \ seen)
  BY DEF IInv, TalkTypes, Counted
<1>2. UNCHANGED <<message, outbox, job, accepted, faults, inbox, task, sweep, breaks, storedIn>>
  BY DEF MarkRead, UpdateStatus, outboundVars, inboxVars
<1>3. OutTypes' /\ InTypes'
  BY <1>2 DEF IInv, OutTypes, InTypes
<1>4. OutboundIsSound'
  BY <1>2 DEF IInv, OutboundIsSound, DispatchIsSound, MessageIsSound, CalledFor, Sendable,
     Acceptances, Accepted
<1>5. InboxIsSound' /\ BearersAreSent'
  BY <1>2 DEF IInv, InboxIsSound, BearersAreSent, ReportsAgree, Received
<1>6. AppliedAreShown' /\ AppliedAreStored'
  BY <1>2 DEF IInv, AppliedAreShown, AppliedAreStored, Applied, Shows, Accepted
<1>7. TalkTypes' /\ Counted'
  <2>1. CASE MarkRead(c)
    <3> DEFINE row == [conversation[c] EXCEPT !.unread = 0]
    <3>1. /\ conversation' = [conversation EXCEPT ![c] = row] /\ seen' = seen \cup In(c)
          /\ row \in [status : {"NONE", "OPEN", "RESOLVED", "CLOSED"}, unread : Nat]
          /\ row.unread = 0
      BY <1>1, <2>1 DEF MarkRead
    <3> HIDE DEF row
    <3>2. TalkTypes'
      BY <1>1, <1>2, <3>1 DEF IInv, TalkTypes, In
    <3>3. In(c)' \ seen' = {} /\ Cardinality({}) = 0
      BY <1>2, <3>1, FS_EmptySet DEF In
    <3>4. ASSUME NEW d \in Conversations
          PROVE  conversation'[d].unread = Cardinality(In(d)' \ seen')
      <4>1. CASE d = c
        BY <1>1, <3>1, <3>3, <4>1
      <4>2. CASE d # c
        <5>1. In(d)' \ seen' = In(d) \ seen
          BY <1>2, <3>1, <4>2 DEF In
        <5> QED
          BY <1>1, <3>1, <4>2, <5>1
      <4> QED
        BY <4>1, <4>2
    <3> QED
      BY <3>2, <3>4 DEF Counted
  <2>2. ASSUME NEW to \in StatusTargets, UpdateStatus(c, to)
        PROVE  TalkTypes' /\ Counted'
    <3> DEFINE row == [conversation[c] EXCEPT !.status = to]
    <3>1. /\ conversation' = [conversation EXCEPT ![c] = row] /\ UNCHANGED seen
          /\ row \in [status : {"NONE", "OPEN", "RESOLVED", "CLOSED"}, unread : Nat]
          /\ row.unread = conversation[c].unread
      BY <1>1, <2>2, MessagingAssumption DEF UpdateStatus
    <3> HIDE DEF row
    <3>2. TalkTypes'
      BY <1>1, <1>2, <3>1 DEF IInv, TalkTypes
    <3>3. \A d \in Conversations : conversation'[d].unread = conversation[d].unread
      BY <1>1, <3>1
    <3>4. \A d \in Conversations : In(d)' \ seen' = In(d) \ seen
      BY <1>2, <3>1 DEF In
    <3>5. Counted'
      BY <1>1, <3>3, <3>4 DEF Counted
    <3> QED
      BY <3>2, <3>5
  <2> QED
    BY <2>1, <2>2
<1> QED
  BY <1>3, <1>4, <1>5, <1>6, <1>7 DEF IInv

-----------------------------------------------------------------------------
LEMMA InitHolds == Init => IInv
<1> SUFFICES ASSUME Init
             PROVE  IInv
  OBVIOUS
<1>1. /\ message = [m \in Messages |-> NoMessage] /\ outbox = [d \in Dispatches |-> "NONE"]
      /\ job = [d \in Dispatches |-> NoJob] /\ accepted = <<>> /\ faults = 0
      /\ inbox = [e \in Events |-> [status |-> "NONE", attempts |-> 0]]
      /\ task = [j \in {} |-> Waiting] /\ sweep = NoSweep /\ breaks = 0
      /\ conversation = [c \in Conversations |->
                           [status |-> IF c = 1 THEN "OPEN" ELSE "NONE", unread |-> 0]]
      /\ storedIn = [t \in Texts |-> 0] /\ seen = {}
  BY DEF Init, OutboundInit
<1>2. OutTypes
  <2>1. NoMessage \in MessageRows /\ NoJob \in JobRows
    BY OutboundAssumption DEF NoMessage, NoJob, MessageRows, JobRows
  <2>2. accepted \in Seq(Dispatches) /\ Len(accepted) <= MaxAccepted /\ faults \in 0 .. MaxFaults
    BY <1>1, OutboundAssumption
  <2> QED
    BY <1>1, <2>1, <2>2 DEF OutTypes
<1>3. InTypes /\ DOMAIN task = {}
  <2>1. [status |-> "NONE", attempts |-> 0] \in InboxRows
    BY DEF InboxRows
  <2>2. breaks \in 0 .. MaxBreaks
    BY <1>1, MessagingAssumption
  <2> QED
    BY <1>1, <2>1, <2>2 DEF InTypes
<1>4. TalkTypes
  BY <1>1 DEF TalkTypes
<1>5. Accepted = {} /\ Received = {}
  BY <1>1 DEF Accepted, Received
<1>6. OutboundIsSound
  <2>1. ASSUME NEW d \in Dispatches
        PROVE  DispatchIsSound(d)
    <3>1. d[1] \in Messages
      BY DispatchParts
    <3>2. message[d[1]].status = "NONE" /\ job[d].state = "ABSENT" /\ outbox[d] = "NONE"
      BY <1>1, <3>1 DEF NoMessage, NoJob
    <3>3. Acceptances(d) = {} /\ Cardinality({}) = 0
      BY <1>5, FS_EmptySet DEF Acceptances
    <3>4. Cardinality(Acceptances(d)) <= faults /\ Cardinality(Acceptances(d)) <= 1 + faults
      BY <1>1, <3>3
    <3> QED
      BY <3>2, <3>3, <3>4 DEF DispatchIsSound, CalledFor
  <2>2. \A m \in Messages : MessageIsSound(m)
    BY <1>1 DEF MessageIsSound, NoMessage
  <2> QED
    BY <2>1, <2>2 DEF OutboundIsSound
<1>7. InboxIsSound
  BY <1>3, <1>5 DEF InboxIsSound, ReportsAgree
<1>8. BearersAreSent
  BY <1>1 DEF BearersAreSent, NoMessage
<1>9. AppliedAreShown /\ AppliedAreStored
  <2>1. \A e \in Events : ~Applied(e)
    BY <1>1, <1>3 DEF Applied
  <2> QED
    BY <2>1 DEF AppliedAreShown, AppliedAreStored, Events, TextEvents
<1>10. Counted
  <2>1. ASSUME NEW c \in Conversations
        PROVE  conversation[c].unread = Cardinality(In(c) \ seen)
    <3>1. c # 0
      BY MessagingAssumption DEF Conversations
    <3>2. In(c) \ seen = {} /\ Cardinality({}) = 0
      BY <1>1, <3>1, FS_EmptySet DEF In
    <3> QED
      BY <1>1, <3>2
  <2> QED
    BY <2>1 DEF Counted
<1> QED
  BY <1>2, <1>3, <1>4, <1>6, <1>7, <1>8, <1>9, <1>10 DEF IInv

LEMMA StutterKeeps == IInv /\ UNCHANGED vars => IInv'
<1> SUFFICES ASSUME IInv, UNCHANGED vars
             PROVE  IInv'
  OBVIOUS
<1>1. /\ UNCHANGED <<message, outbox, job, accepted, faults, inbox, task, sweep, breaks>>
      /\ UNCHANGED <<conversation, storedIn, seen>>
  BY DEF vars, outboundVars, inboxVars, talkVars
<1>2. OutTypes' /\ InTypes' /\ TalkTypes'
  BY <1>1 DEF IInv, OutTypes, InTypes, TalkTypes
<1>3. OutboundIsSound'
  BY <1>1 DEF IInv, OutboundIsSound, DispatchIsSound, MessageIsSound, CalledFor, Sendable,
     Acceptances, Accepted
<1>4. InboxIsSound' /\ BearersAreSent'
  BY <1>1 DEF IInv, InboxIsSound, BearersAreSent, ReportsAgree, Received
<1>5. AppliedAreShown' /\ AppliedAreStored' /\ Counted'
  BY <1>1 DEF IInv, AppliedAreShown, AppliedAreStored, Applied, Shows, Accepted, Counted, In
<1> QED
  BY <1>2, <1>3, <1>4, <1>5 DEF IInv

LEMMA NextKeeps == IInv /\ [Next]_vars => IInv'
<1> SUFFICES ASSUME IInv, Next
             PROVE  IInv'
  BY StutterKeeps
<1>1. CASE Requests
  BY <1>1, SendMessageKeeps, RetryMessageKeeps, TalkKeeps DEF Requests
<1>2. CASE Webhooks
  BY <1>2, ReceiveKeeps, WebhookKeeps DEF Webhooks
<1>3. CASE Recovery
  BY <1>3, WebhookKeeps, SweepKeeps DEF Recovery
<1>4. ASSUME NEW d \in Dispatches, OutboundSteps(d) \/ OutboundFaults(d),
             UNCHANGED <<inboxVars, talkVars>>
      PROVE  IInv'
  BY <1>4, JobStepsKeep
<1>5. ASSUME NEW j \in DOMAIN task, Work(j) \/ TaskBreaks(j)
      PROVE  IInv'
  BY <1>5, ClaimKeeps, EndKeeps, FindConversationKeeps, StoreTextKeeps, TryFailsKeeps,
     ApplyEventKeeps DEF Work
<1> QED
  BY <1>1, <1>2, <1>3, <1>4, <1>5 DEF Next

\* What is written above IInv holds of Messaging at any time: of its types, its messages and
\* dispatches, its events and jobs, its conversations.
THEOREM MessagingInvariant == Spec => []IInv
BY InitHolds, NextKeeps, PTL DEF Spec

\* A dispatch is sent once, and once more only for a fault (outbound.processor.ts:28).
THEOREM SendsNeedFaultsHolds == Spec => []SendsNeedFaults
<1>1. IInv => SendsNeedFaults
  BY InvariantsHold
<1> QED
  BY <1>1, MessagingInvariant, PTL

\* A message on its way is in the outbox, or has a job that will run or that died.
THEOREM SomebodyCarriesHolds == Spec => []SomebodyCarries
<1>1. IInv => SomebodyCarries
  BY InvariantsHold
<1> QED
  BY <1>1, MessagingInvariant, PTL

\* A status that was processed is shown by the message that bears its identifier.
THEOREM ProcessedStatusesAreShownHolds == Spec => []ProcessedStatusesAreShown
<1>1. IInv => ProcessedStatusesAreShown
  BY InvariantsHold
<1> QED
  BY <1>1, MessagingInvariant, PTL

\* A text that was processed is stored once, and the unread counter of a conversation counts
\* the texts that came since it was read.
THEOREM UnreadIsUnseenHolds == Spec => []UnreadIsUnseen
<1>1. IInv => UnreadIsUnseen
  BY InvariantsHold
<1> QED
  BY <1>1, MessagingInvariant, PTL
===============================================================================
