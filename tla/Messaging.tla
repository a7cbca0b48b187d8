-------------------------------- MODULE Messaging --------------------------------
(***************************************************************************)
(* Messaging: the durable inbox of the webhooks of one channel, the tasks  *)
(* that workers run on its events, the sweep that recovers the events left *)
(* behind, and the conversations with one contact.  Composed with the      *)
(* messages of Outbound, which the events that bear a status move.         *)
(***************************************************************************)
EXTENDS Outbound

CONSTANTS Texts,           \* messages that the contact sends
          Reports,         \* statuses that the provider reports
          MaxBreaks,       \* bound: crashes, failures, webhooks that come twice, slow jobs
          MaxReports,      \* bound: status events that the provider reports
          MaxClaims,       \* bound: an event claimed that often is no longer swept
          MaxConversations,\* bound: conversations with the contact
          StatusTargets    \* statuses that agents give to conversations

ASSUME MessagingAssumption ==
  /\ IsFiniteSet(Texts)
  /\ Reports \subseteq {"DELIVERED", "READ", "FAILED"}
  /\ MaxBreaks \in Nat
  /\ MaxReports \in Nat
  /\ MaxClaims \in Nat
  /\ MaxConversations \in Nat \ {0}
  /\ StatusTargets \subseteq {"OPEN", "RESOLVED", "CLOSED"}

VARIABLES inbox,        \* inbox[e]: the WhatsAppInboundEvent row
          task,         \* the jobs of the inbound queue that Redis holds
          sweep,        \* the event that the sweep has published again and is to mark
          breaks,       \* how many of them have occurred
          conversation, \* conversation[c]: the Conversation row
          storedIn,     \* storedIn[t]: the conversation that holds text t, 0 for none
          seen          \* the texts that were in their conversation when it was read

inboxVars == <<inbox, task, sweep, breaks>>
talkVars == <<conversation, storedIn, seen>>
vars == <<outboundVars, inboxVars, talkVars>>

\* The unique externalEventId: a text, or one status of one identifier.
TextEvents == Texts \X {"TEXT"}
StatusEvents == ExternalIds \X Reports
Events == TextEvents \cup StatusEvents

\* The job of the webhook is 0, the one named after attemptCount n by the sweep is n + 1.
Tasks == Events \X Nat

Unfinished == {"RECEIVED", "QUEUED", "PROCESSING", "FAILED", "WAITING_MESSAGE"}

InboxStatus == Unfinished \cup {"PROCESSED", "ORPHANED"}

Waiting == [state |-> "WAITING", tries |-> 0, found |-> 0]

NoSweep == <<>>

Conversations == 1..MaxConversations

Init ==
  /\ OutboundInit
  /\ inbox = [e \in Events |-> [status |-> "NONE", attempts |-> 0]]
  /\ task = [j \in {} |-> Waiting]
  /\ sweep = NoSweep
  /\ breaks = 0
  /\ conversation = [c \in Conversations |->
                       [status |-> IF c = 1 THEN "OPEN" ELSE "NONE", unread |-> 0]]
  /\ storedIn = [t \in Texts |-> 0]
  /\ seen = {}

-----------------------------------------------------------------------------
(* The webhook and InboundIngestionService.                                *)

TasksWith(j, t) == [k \in DOMAIN task \cup {j} |-> IF k = j THEN t ELSE task[k]]

TasksWithout(j) == [k \in DOMAIN task \ {j} |-> task[k]]

\* add() is a no-op while Redis keeps a job of that identifier.
TasksAdding(j) == IF j \in DOMAIN task THEN task ELSE TasksWith(j, Waiting)

Received == {e \in Events : inbox[e].status # "NONE"}

\* The provider reports what it has accepted, and not both a failure and a delivery.
Reportable(e) ==
  e \in StatusEvents =>
    /\ e[1] \in Accepted
    /\ Cardinality(Received \cap StatusEvents) < MaxReports
    /\ IF e[2] = "FAILED"
       THEN {<<e[1], "DELIVERED">>, <<e[1], "READ">>} \cap Received = {}
       ELSE <<e[1], "FAILED">> \notin Received

\* The event is persisted, then published, unless Redis or the API fails in between.
Receive(e) ==
  /\ inbox[e].status = "NONE"
  /\ Reportable(e)
  /\ inbox' = [inbox EXCEPT ![e].status = "RECEIVED"]
  /\ \/ task' = TasksAdding(<<e, 0>>) /\ UNCHANGED breaks
     \/ breaks < MaxBreaks /\ breaks' = breaks + 1 /\ UNCHANGED task
  /\ UNCHANGED <<outboundVars, sweep, talkVars>>

MarkQueued(e) ==
  /\ inbox[e].status = "RECEIVED"
  /\ <<e, 0>> \in DOMAIN task
  /\ inbox' = [inbox EXCEPT ![e].status = "QUEUED"]
  /\ UNCHANGED <<outboundVars, task, sweep, breaks, talkVars>>

\* The webhook comes again: the row is there, its job may not be any more.
Redeliver(e) ==
  /\ e \in Received
  /\ <<e, 0>> \notin DOMAIN task
  /\ breaks < MaxBreaks
  /\ breaks' = breaks + 1
  /\ task' = TasksWith(<<e, 0>>, Waiting)
  /\ UNCHANGED <<outboundVars, inbox, sweep, talkVars>>

-----------------------------------------------------------------------------
(* InboundProcessor.                                                       *)

\* A job that failed is tried again, and kept dead in Redis after its last try.
TasksAgain(j) ==
  TasksWith(j, IF task[j].tries + 1 >= JobAttempts
               THEN [state |-> "DEAD", tries |-> JobAttempts, found |-> 0]
               ELSE [state |-> "WAITING", tries |-> task[j].tries + 1, found |-> 0])

\* A conditional update of the event: only from PROCESSING, whoever claimed it.
InboxBecomes(e, status) ==
  [inbox EXCEPT ![e].status = IF @ = "PROCESSING" THEN status ELSE @]

Claimable == Unfinished \ {"PROCESSING"}

Claim(j) ==
  /\ task[j].state = "WAITING"
  /\ inbox[j[1]].status \in Claimable
  /\ inbox' = [inbox EXCEPT ![j[1]].status = "PROCESSING", ![j[1]].attempts = @ + 1]
  /\ task' = TasksWith(j, [task[j] EXCEPT !.state = "CLAIMED"])
  /\ UNCHANGED <<outboundVars, sweep, breaks, talkVars>>

Skip(j) ==
  /\ task[j].state = "WAITING"
  /\ inbox[j[1]].status \notin Claimable
  /\ task' = TasksWithout(j)
  /\ UNCHANGED <<outboundVars, inbox, sweep, breaks, talkVars>>

\* removeOnComplete: Redis forgets a job that ended well.
Finish(j) ==
  /\ task[j].state \in {"APPLIED", "MISSING"}
  /\ inbox' = InboxBecomes(j[1], IF task[j].state = "APPLIED" THEN "PROCESSED"
                                 ELSE "WAITING_MESSAGE")
  /\ task' = TasksWithout(j)
  /\ UNCHANGED <<outboundVars, sweep, breaks, talkVars>>

\* An error of the database: FAILED is written, or the error prevents that too; or the
\* worker dies.  A job that has not claimed its event fails all the same.
TaskBreaks(j) ==
  /\ task[j].state # "DEAD"
  /\ breaks < MaxBreaks
  /\ breaks' = breaks + 1
  /\ task' = TasksAgain(j)
  /\ inbox' \in {inbox} \cup
                (IF task[j].state = "WAITING" THEN {} ELSE {InboxBecomes(j[1], "FAILED")})
  /\ UNCHANGED <<outboundVars, sweep, talkVars>>

-----------------------------------------------------------------------------
(* InboundProcessingService: one transaction at READ COMMITTED.            *)

Active == {c \in Conversations : conversation[c].status = "OPEN"}

FindConversation(j) ==
  /\ task[j].state = "CLAIMED"
  /\ j[1] \in TextEvents
  /\ \E c \in IF Active = {} THEN {0} ELSE Active :
       task' = TasksWith(j, [task[j] EXCEPT !.state = "FOUND", !.found = c])
  /\ UNCHANGED <<outboundVars, inbox, sweep, breaks, talkVars>>

\* Mutant: the text that is there already is taken for a new one.
ConflictsOnConversation(j) == task[j].found = 0 /\ Active # {}

\* The partial unique index refuses a second active conversation, the unique identifier
\* a second message.
Conflicts(j) ==
  \/ task[j].found = 0 /\ Active # {}
  \/ storedIn[j[1][1]] # 0

Fresh == {c \in Conversations : conversation[c].status = "NONE"}

StoreText(j) ==
  LET t == j[1][1] IN
  /\ task[j].state = "FOUND"
  /\ ~Conflicts(j)
  /\ \E c \in IF task[j].found = 0 THEN Fresh ELSE {task[j].found} :
       /\ \A d \in Fresh : c <= d \/ c = task[j].found
       /\ conversation' = [conversation EXCEPT
            ![c].status = IF task[j].found = 0 THEN "OPEN" ELSE @, ![c].unread = @ + 1]
       /\ storedIn' = [storedIn EXCEPT ![t] = c]
  /\ task' = TasksWith(j, [task[j] EXCEPT !.state = "APPLIED"])
  /\ seen' = seen \ {t}
  /\ UNCHANGED <<outboundVars, inbox, sweep, breaks>>

\* PostgreSQL aborts a transaction at its first error: the query that looks for the row
\* in conflict fails too, and the job fails with it.
AbortOnConflict(j) ==
  /\ task[j].state = "FOUND"
  /\ Conflicts(j)
  /\ inbox' = InboxBecomes(j[1], "FAILED")
  /\ task' = TasksAgain(j)
  /\ UNCHANGED <<outboundVars, sweep, breaks, talkVars>>

\* Mutant: a status whose message is not found yet is taken for done.
FoundOrNot(id) == "APPLIED"

FoundState(id) == IF Bearers(id) = {} THEN "MISSING" ELSE "APPLIED"

ApplyEvent(j) ==
  LET id == j[1][1] IN
  /\ task[j].state = "CLAIMED"
  /\ j[1] \in StatusEvents
  /\ IF Bearers(id) = {} THEN UNCHANGED message
     ELSE \E m \in Bearers(id) : ApplyStatus(m, j[1][2])
  /\ task' = TasksWith(j, [task[j] EXCEPT !.state = FoundState(id)])
  /\ UNCHANGED <<outbox, job, accepted, faults, inbox, sweep, breaks, talkVars>>

-----------------------------------------------------------------------------
(* RecoveryService: adds a job for an event that is due, then marks it.    *)
(* The events of a batch are independent of each other: one at a time.     *)

\* Mutant: an event whose worker died is not looked for.
DueUnlessClaimed(e) ==
  \/ inbox[e].status \in {"RECEIVED", "QUEUED", "WAITING_MESSAGE"}
  \/ inbox[e].status = "FAILED" /\ inbox[e].attempts < JobAttempts

Due(e) ==
  \/ inbox[e].status \in {"RECEIVED", "QUEUED", "PROCESSING", "WAITING_MESSAGE"}
  \/ inbox[e].status = "FAILED" /\ inbox[e].attempts < JobAttempts

\* A job of the event waits or runs.
Attended(e) == \E j \in DOMAIN task : j[1] = e /\ task[j].state # "DEAD"

\* The event has been left alone for WHATSAPP_RECOVERY_STALENESS_MS; that its job is still
\* there counts as a break.
SweepAdds(e) ==
  /\ sweep = NoSweep
  /\ Due(e)
  /\ inbox[e].attempts < MaxClaims
  /\ IF Attended(e) THEN breaks < MaxBreaks /\ breaks' = breaks + 1 ELSE UNCHANGED breaks
  /\ task' = TasksAdding(<<e, inbox[e].attempts + 1>>)
  /\ sweep' = e
  /\ UNCHANGED <<outboundVars, inbox, talkVars>>

Requeued(e) == [inbox EXCEPT ![e].status = IF @ \in Unfinished THEN "QUEUED" ELSE @]

SweepMarks ==
  /\ sweep # NoSweep
  /\ inbox' = Requeued(sweep)
  /\ sweep' = NoSweep
  /\ UNCHANGED <<outboundVars, task, breaks, talkVars>>

\* An error is logged and the sweep goes on; or the worker dies before it marks the event.
SweepBreaks ==
  /\ sweep # NoSweep
  /\ sweep' = NoSweep
  /\ UNCHANGED <<outboundVars, inbox, task, breaks, talkVars>>

\* WHATSAPP_ORPHAN_STATUS_TTL_MS has passed.
Orphan(e) ==
  /\ inbox[e].status = "WAITING_MESSAGE"
  /\ inbox' = [inbox EXCEPT ![e].status = "ORPHANED"]
  /\ UNCHANGED <<outboundVars, task, sweep, breaks, talkVars>>

-----------------------------------------------------------------------------
(* The requests of agents: MessagesService and ConversationsService.       *)

SendMessage(m) ==
  /\ Active # {}
  /\ CreateOutbound(m)
  /\ UNCHANGED <<inboxVars, talkVars>>

RetryMessage(m) == Retry(m) /\ UNCHANGED <<inboxVars, talkVars>>

\* OPEN stands for PENDING too: both are active.
UpdateStatus(c, to) ==
  /\ \/ conversation[c].status = "OPEN" /\ to \in {"RESOLVED", "CLOSED"} /\ Fresh # {}
     \/ conversation[c].status = "RESOLVED" /\ to = "CLOSED"
     \/ conversation[c].status = "RESOLVED" /\ to = "OPEN" /\ Active = {}
  /\ conversation' = [conversation EXCEPT ![c].status = to]
  /\ UNCHANGED <<outboundVars, inboxVars, storedIn, seen>>

In(c) == {t \in Texts : storedIn[t] = c}

MarkRead(c) ==
  /\ conversation[c].unread > 0
  /\ conversation' = [conversation EXCEPT ![c].unread = 0]
  /\ seen' = seen \cup In(c)
  /\ UNCHANGED <<outboundVars, inboxVars, storedIn>>

-----------------------------------------------------------------------------
Work(j) ==
  \/ Claim(j) \/ Skip(j) \/ Finish(j)
  \/ FindConversation(j) \/ StoreText(j) \/ AbortOnConflict(j) \/ ApplyEvent(j)

Requests ==
  \/ \E m \in Messages : SendMessage(m) \/ RetryMessage(m)
  \/ \E c \in Conversations :
       MarkRead(c) \/ \E to \in StatusTargets : UpdateStatus(c, to)

Webhooks == \E e \in Events : Receive(e) \/ MarkQueued(e) \/ Redeliver(e)

Recovery == (\E e \in Events : SweepAdds(e) \/ Orphan(e)) \/ SweepMarks \/ SweepBreaks

Next ==
  \/ Requests \/ Webhooks \/ Recovery
  \/ \E d \in Dispatches :
       (OutboundSteps(d) \/ OutboundFaults(d)) /\ UNCHANGED <<inboxVars, talkVars>>
  \/ \E j \in DOMAIN task : Work(j) \/ TaskBreaks(j)

Spec == Init /\ [][Next]_vars

\* The inbound queue runs its jobs, and the interval of the sweep comes round for ever:
\* each event that is due again and again is swept in its turn, and the sweep is not
\* interrupted between its two writes for ever.
InboxFairness ==
  /\ \A e \in Events : /\ WF_vars(\E j \in DOMAIN task : j[1] = e /\ Work(j))
                       /\ SF_vars(SweepAdds(e))
  /\ \A e \in StatusEvents : WF_vars(Orphan(e))
  /\ SF_vars(SweepMarks)

InboxSpec == Spec /\ InboxFairness

-----------------------------------------------------------------------------
(* Properties.                                                             *)

TypeOK ==
  /\ message \in [Messages -> [status : {"NONE"} \cup OutboundStatus,
                               dispatch : 0..MaxDispatches, sentAs : {0} \cup ExternalIds]]
  /\ outbox \in [Dispatches -> {"NONE", "PENDING", "PUBLISHED"}]
  /\ job \in [Dispatches ->
                [state : {"ABSENT", "WAITING", "READING", "ANSWERED", "DONE", "DEAD"},
                 tries : 0..JobAttempts, answer : {0} \cup ExternalIds]]
  /\ accepted \in Seq(Dispatches)
  /\ Len(accepted) <= MaxAccepted
  /\ faults \in 0..MaxFaults
  /\ breaks \in 0..MaxBreaks
  /\ inbox \in [Events -> [status : {"NONE"} \cup InboxStatus, attempts : Nat]]
  /\ DOMAIN task \subseteq Tasks
  /\ \A j \in DOMAIN task :
       task[j] \in [state : {"WAITING", "CLAIMED", "FOUND", "APPLIED", "MISSING", "DEAD"},
                    tries : 0..JobAttempts, found : {0} \cup Conversations]
  /\ sweep \in {NoSweep} \cup Events
  /\ conversation \in [Conversations ->
                         [status : {"NONE", "OPEN", "RESOLVED", "CLOSED"}, unread : Nat]]
  /\ storedIn \in [Texts -> {0} \cup Conversations]
  /\ seen \subseteq Texts

\* The identifiers under which the provider has accepted dispatch d.
Acceptances(d) == {i \in Accepted : accepted[i] = d}

\* A dispatch is sent once, and once more only after an answer was lost or a worker died
\* (the risk that outbound.processor.ts:28 documents): retries of the queue, publications
\* again and retries of agents do not send twice by themselves.
SendsNeedFaults == \A d \in Dispatches : Cardinality(Acceptances(d)) <= 1 + faults

\* A message on its way is never forgotten: its dispatch is in the outbox, or has a job
\* that will run, or one that died, whatever failed between the two.
SomebodyCarries ==
  /\ TypeOK
  /\ \A m \in Messages : message[m].status \in {"PENDING", "QUEUED"} =>
    LET d == <<m, message[m].dispatch>> IN
    outbox[d] = "PENDING" \/ job[d].state \in {"WAITING", "READING", "ANSWERED", "DEAD"}

\* A status that was reported and processed is shown by the message that bears its
\* identifier, whatever came in between, in whatever order reports came.
ProcessedStatusesAreShown ==
  \A e \in StatusEvents, m \in Messages :
    inbox[e].status = "PROCESSED" /\ message[m].sentAs = e[1] =>
      /\ e[2] = "READ" => message[m].status = "READ"
      /\ e[2] = "DELIVERED" => message[m].status \in {"DELIVERED", "READ"}

\* A text that was processed is stored, once, in a conversation whose unread counter
\* counts exactly the texts that came since it was last read: redeliveries, sweeps and
\* tries again of its event neither lose it nor count it twice.
UnreadIsUnseen ==
  /\ \A t \in Texts : inbox[<<t, "TEXT">>].status = "PROCESSED" => storedIn[t] # 0
  /\ \A c \in Conversations : conversation[c].unread = Cardinality(In(c) \ seen)

\* Each event that was received is processed or given up, unless the job that the sweep
\* would add is one that Redis keeps dead, or the event was claimed MaxClaims times.
EventsSettle ==
  \A e \in Events :
    inbox[e].status \in Unfinished ~>
      \/ inbox[e].status \in {"PROCESSED", "ORPHANED"}
      \/ inbox[e].status = "FAILED" /\ inbox[e].attempts >= JobAttempts
      \/ inbox[e].attempts >= MaxClaims
      \/ /\ <<e, inbox[e].attempts + 1>> \in DOMAIN task
         /\ task[<<e, inbox[e].attempts + 1>>].state = "DEAD"

=============================================================================
