-------------------------------- MODULE Outbound --------------------------------
(***************************************************************************)
(* Outbound: the messages that agents send.  A message is written with an  *)
(* entry of the outbox, published to the queue under the identifier of its *)
(* dispatch, and sent by a worker whose job may be retried or die.  The    *)
(* statuses that the provider reports move the message further; a failed   *)
(* one is sent again under a new dispatch, at an agent's request.          *)
(***************************************************************************)
EXTENDS Naturals, FiniteSets, Sequences

CONSTANTS Messages,     \* outbound messages, one per clientMessageId
          MaxDispatches,\* bound: dispatches of a message, the first one included
          JobAttempts,  \* WHATSAPP_JOB_ATTEMPTS: tries of a job
          MaxAccepted,  \* bound: messages that the provider accepts
          MaxFaults     \* bound: crashes, lost answers and failures while messages are sent

ASSUME OutboundAssumption ==
  /\ IsFiniteSet(Messages)
  /\ MaxDispatches \in Nat \ {0}
  /\ JobAttempts \in Nat \ {0}
  /\ MaxAccepted \in Nat
  /\ MaxFaults \in Nat

VARIABLES message,  \* message[m]: the Message row
          outbox,   \* outbox[d]: status of the OutboxEvent of dispatch d
          job,      \* job[d]: the job of the queue whose jobId is d
          accepted, \* accepted[i]: the dispatch in which the provider accepted identifier i
          faults    \* how many faults have occurred

outboundVars == <<message, outbox, job, accepted, faults>>

Dispatches == Messages \X (1..MaxDispatches)

\* The identifiers that the provider gives to what it accepts; 0 is none.
ExternalIds == 1..MaxAccepted

Accepted == DOMAIN accepted

OutboundStatus == {"PENDING", "QUEUED", "SENT", "DELIVERED", "READ", "FAILED"}

\* attemptCount, lastAttemptAt, the timestamps and the error of a row trace what happens.
NoMessage == [status |-> "NONE", dispatch |-> 0, sentAs |-> 0]

NoJob == [state |-> "ABSENT", tries |-> 0, answer |-> 0]

OutboundInit ==
  /\ message = [m \in Messages |-> NoMessage]
  /\ outbox = [d \in Dispatches |-> "NONE"]
  /\ job = [d \in Dispatches |-> NoJob]
  /\ accepted = <<>>
  /\ faults = 0

-----------------------------------------------------------------------------
(* packages/shared/src/message-status.ts.                                  *)

Rank == [status \in OutboundStatus \ {"FAILED"} |->
           CASE status = "PENDING" -> 0 [] status = "QUEUED" -> 1 [] status = "SENT" -> 2
             [] status = "DELIVERED" -> 3 [] status = "READ" -> 4]

StatusesUpgradableTo(target) == {status \in DOMAIN Rank : Rank[status] < Rank[target]}

StatusesFailableFrom(providerConfirmed) ==
  {"PENDING", "QUEUED"} \cup (IF providerConfirmed THEN {"SENT"} ELSE {})

-----------------------------------------------------------------------------
(* MessagesService and the outbox.                                         *)

\* createOutboundInTx: the message and its outbox entry are committed together.
CreateOutbound(m) ==
  /\ message[m].status = "NONE"
  /\ message' = [message EXCEPT ![m].status = "PENDING", ![m].dispatch = 1]
  /\ outbox' = [outbox EXCEPT ![<<m, 1>>] = "PENDING"]
  /\ UNCHANGED <<job, accepted, faults>>

Retry(m) ==
  LET next == message[m].dispatch + 1 IN
  /\ message[m].status = "FAILED"
  /\ next <= MaxDispatches
  /\ message' = [message EXCEPT ![m].status = "PENDING", ![m].dispatch = next]
  /\ outbox' = [outbox EXCEPT ![<<m, next>>] = "PENDING"]
  /\ UNCHANGED <<job, accepted, faults>>

\* tryPublish and the sweep of the outbox add the job, which is a no-op while Redis keeps
\* one of that identifier, and mark the entry in a statement of their own.
AddJob(d) ==
  /\ outbox[d] = "PENDING"
  /\ job[d].state = "ABSENT"
  /\ job' = [job EXCEPT ![d].state = "WAITING"]
  /\ UNCHANGED <<message, outbox, accepted, faults>>

MarkPublished(d) ==
  /\ outbox[d] = "PENDING"
  /\ job[d].state # "ABSENT"
  /\ outbox' = [outbox EXCEPT ![d] = "PUBLISHED"]
  /\ UNCHANGED <<message, job, accepted, faults>>

\* removeOnComplete: Redis forgets the jobs that ended well, and keeps the dead ones.  It
\* matters as long as somebody may add the job again.
Forget(d) ==
  /\ job[d].state = "DONE"
  /\ outbox[d] = "PENDING"
  /\ job' = [job EXCEPT ![d] = NoJob]
  /\ UNCHANGED <<message, outbox, accepted, faults>>

-----------------------------------------------------------------------------
(* OutboundProcessor.  A job is WAITING, READING (it has read the message  *)
(* and claimed it), ANSWERED (the provider has accepted it), DONE or DEAD. *)

LastTry(d) == job[d].tries + 1 >= JobAttempts

Complete(d) == [job EXCEPT ![d].state = "DONE", ![d].answer = 0]

\* Mutant: the error is caught, and the job ends well.
TryNoMore(d) == Complete(d)

\* BullMQ runs a job again until it has been tried often enough; the run that follows the
\* death of a worker (a stalled job) counts as a try here.
TryAgain(d) ==
  [job EXCEPT ![d] = IF LastTry(d) THEN [state |-> "DEAD", tries |-> JobAttempts, answer |-> 0]
                     ELSE [state |-> "WAITING", tries |-> @.tries + 1, answer |-> 0]]

\* Mutant: the identifier of the dispatch and the status of the message are not compared.
CalledForAlways(d) == TRUE

\* A stale dispatch, a message that is sent already, one that failed: nothing to do.
CalledFor(d) ==
  message[d[1]].dispatch = d[2] /\ message[d[1]].status \in {"PENDING", "QUEUED"}

ReadMessage(d) ==
  /\ job[d].state = "WAITING"
  /\ CalledFor(d)
  /\ job' = [job EXCEPT ![d].state = "READING"]
  /\ message' = [message EXCEPT ![d[1]].status = IF @ = "PENDING" THEN "QUEUED" ELSE @]
  /\ UNCHANGED <<outbox, accepted, faults>>

Ignore(d) ==
  /\ job[d].state = "WAITING"
  /\ ~CalledFor(d)
  /\ job' = Complete(d)
  /\ UNCHANGED <<message, outbox, accepted, faults>>

\* markFailed does not look at the dispatch of the row it marks.
MarkFailed(m) ==
  [message EXCEPT ![m].status = IF @ \in StatusesFailableFrom(FALSE) THEN "FAILED" ELSE @]

\* The window is closed, the channel is not connected, no provider can be resolved, or
\* the provider refuses for good.
FailForGood(d) ==
  /\ job[d].state = "READING"
  /\ job' = Complete(d)
  /\ message' = MarkFailed(d[1])
  /\ UNCHANGED <<outbox, accepted, faults>>

\* A retryable error of the provider; the last one fails the message.
FailForNow(d) ==
  /\ job[d].state = "READING"
  /\ IF LastTry(d)
     THEN job' = Complete(d) /\ message' = MarkFailed(d[1])
     ELSE job' = TryAgain(d) /\ UNCHANGED message
  /\ UNCHANGED <<outbox, accepted, faults>>

CanAccept == Len(accepted) < MaxAccepted

Send(d) ==
  /\ job[d].state = "READING"
  /\ CanAccept
  /\ accepted' = Append(accepted, d)
  /\ job' = [job EXCEPT ![d].state = "ANSWERED", ![d].answer = Len(accepted) + 1]
  /\ UNCHANGED <<message, outbox, faults>>

\* The provider accepts and its answer is lost: for the worker, a retryable error.
LoseAnswer(d) ==
  /\ job[d].state = "READING"
  /\ CanAccept
  /\ faults < MaxFaults
  /\ faults' = faults + 1
  /\ accepted' = Append(accepted, d)
  /\ IF LastTry(d)
     THEN job' = Complete(d) /\ message' = MarkFailed(d[1])
     ELSE job' = TryAgain(d) /\ UNCHANGED message
  /\ UNCHANGED outbox

RecordSent(d) ==
  LET m == d[1] IN
  /\ job[d].state = "ANSWERED"
  /\ job' = Complete(d)
  /\ message' = IF message[m].status \in StatusesUpgradableTo("SENT")
                THEN [message EXCEPT ![m].status = "SENT", ![m].sentAs = job[d].answer]
                ELSE message
  /\ UNCHANGED <<outbox, accepted, faults>>

\* The worker dies, or the database cannot be reached: the try ends where it is.
JobBreaks(d) ==
  /\ job[d].state \in {"WAITING", "READING", "ANSWERED"}
  /\ faults < MaxFaults
  /\ faults' = faults + 1
  /\ job' = TryAgain(d)
  /\ UNCHANGED <<message, outbox, accepted>>

-----------------------------------------------------------------------------
(* MessageStatusService.apply.                                             *)

\* The message that bears the external identifier.
Bearers(id) == {m \in Messages : id # 0 /\ message[m].sentAs = id}

\* A READ also sets deliveredAt when it is not set: a timestamp, left out.
ApplyStatus(m, status) ==
  message' =
    IF message[m].status \in (IF status = "FAILED" THEN StatusesFailableFrom(TRUE)
                              ELSE StatusesUpgradableTo(status))
    THEN [message EXCEPT ![m].status = status]
    ELSE message

OutboundSteps(d) ==
  \/ AddJob(d) \/ MarkPublished(d)
  \/ ReadMessage(d) \/ Ignore(d) \/ RecordSent(d)
  \/ FailForGood(d) \/ FailForNow(d) \/ Send(d)

OutboundFaults(d) == Forget(d) \/ LoseAnswer(d) \/ JobBreaks(d)
=============================================================================
