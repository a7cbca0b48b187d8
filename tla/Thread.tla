--------------------------------- MODULE Thread ---------------------------------
(***************************************************************************)
(* One message in the thread of a conversation that an agent looks at      *)
(* (apps/web: use-conversation-messages, message-cache): its row on the    *)
(* server, the entry of the cache that stands for it, the requests of the  *)
(* agent and of a colleague, the events of the socket and the fetch of the *)
(* thread, in any order.  A request that the page has given up on goes on  *)
(* at the API, next to those that follow it.  A text is known by the       *)
(* clientMessageId it was first sent with.                                 *)
(***************************************************************************)
EXTENDS Naturals

CONSTANTS MaxSends,    \* bound: requests to send or retry
          MaxMishaps   \* bound: answers and events lost, disconnections

ASSUME ThreadAssumption == MaxSends \in Nat \ {0} /\ MaxMishaps \in Nat

VARIABLES row,     \* row[i]: the status of the message with clientMessageId i
          entry,   \* entry[i]: what the cache shows of it
          cached,  \* the cache exists: a fetch was answered or a message inserted
          sending, \* sending[n]: the n-th request to send or retry, while it is under way
          events,  \* events committed and not heard yet
          fetch,   \* the fetch of the thread that is under way
          link,    \* the socket of the page
          blind,   \* why the cache may be behind the row
          own,     \* the agent of this page writes the message, or somebody else
          sends, mishaps

threadVars == <<row, entry, cached, sending, events, fetch, link, blind, own,
                sends, mishaps>>

\* The identifiers that the sends of one text could carry.
Ids == {1, 2}

\* OUTBOUND_STATUS_RANK.  PENDING stands for QUEUED too, and DELIVERED for READ.
StatusRank == [PENDING |-> 0, SENT |-> 2, DELIVERED |-> 3]

RowStatus == DOMAIN StatusRank \cup {"FAILED"}

Absent == "ABSENT"

\* An optimistic entry has no identifier of the server yet.
NoEntry == [status |-> Absent, real |-> FALSE]

Sends == 1 .. MaxSends

\* The page that asked waits for the answer, until it gives up.
NoRequest == [at |-> "NONE", kind |-> "SEND", id |-> 1, status |-> Absent, awaited |-> FALSE]

Kinds == {"CREATED", "STATUS"}

NoFetch == [at |-> "NONE", rows |-> [i \in Ids |-> Absent]]

\* The link is DOWN, or in the room and not yet reconciled, or UP.
Links == {"DOWN", "JOINED", "UP"}

Causes == {"LOST", "EARLY", "LATE", "OVERTAKEN"}

ThreadInit ==
  /\ row = [i \in Ids |-> Absent]
  /\ entry = [i \in Ids |-> NoEntry]
  /\ cached = FALSE
  /\ sending = [n \in Sends |-> NoRequest]
  /\ events = {}
  /\ fetch = [NoFetch EXCEPT !.at = "ASKED"]
  /\ link = "JOINED"
  /\ blind = [i \in Ids |-> {}]
  /\ own \in BOOLEAN
  /\ sends = 0
  /\ mishaps = 0

-----------------------------------------------------------------------------
(* packages/shared/src/message-status.ts and message-cache.ts.             *)

IsStatusUpgrade(from, to) ==
  /\ from # to
  /\ IF to = "FAILED" THEN from \in {"PENDING", "SENT"}
     ELSE from # "FAILED" /\ StatusRank[to] > StatusRank[from]

\* Mutant: what the server sends last wins.
MergedAlways(old, status) == status

\* merge: the entry that replaces another keeps the more advanced status.
Merged(old, status) ==
  IF old.status \in {Absent, status} \/ IsStatusUpgrade(old.status, status)
  THEN status ELSE old.status

\* upsertMessage, with what the server has sent.
Upserted(i, status) == [entry EXCEPT ![i] = [status |-> Merged(@, status), real |-> TRUE]]

\* applyStatusPatch: nothing for an entry that is absent or no less advanced.
Patched(i, status) ==
  IF entry[i].status # Absent /\ IsStatusUpgrade(entry[i].status, status)
  THEN [entry EXCEPT ![i].status = status] ELSE entry

\* What is told of the identifiers that are shown as the server has them is forgotten.
Explains(i, causes) ==
  blind' = [j \in Ids |-> IF entry'[j].status = row'[j] THEN {}
                          ELSE IF j = i THEN blind[j] \cup causes ELSE blind[j]]

Tells(kind, i, status) == events' = events \cup {<<kind, i, status>>}

-----------------------------------------------------------------------------
(* The agent, and a colleague.                                             *)

Asks(kind, i, awaited) ==
  /\ sends < MaxSends
  /\ sends' = sends + 1
  /\ sending' = [sending EXCEPT ![sends + 1] =
       [at |-> "SENT", kind |-> kind, id |-> i, status |-> Absent, awaited |-> awaited]]

\* sendReply and onMutate: an optimistic entry under a new clientMessageId.
Write ==
  /\ own /\ sends = 0 /\ row[1] = Absent /\ entry[1] = NoEntry
  /\ Asks("SEND", 1, TRUE)
  /\ entry' = [entry EXCEPT ![1] = [status |-> "PENDING", real |-> FALSE]]
  /\ cached' = TRUE
  /\ UNCHANGED <<row, events, fetch, link, own, mishaps>>
  /\ Explains(1, {})

\* The identifier of the first try; 2 is the one that the comment of useSendMessage
\* speaks of, "renvoyer (nouveau clientMessageId)".
SameId(i) == i

\* resendOptimistic: onMutate merges the optimistic message into the entry.  A FAILED
\* entry has its button whatever requests are under way.
Resend(i) ==
  LET j == SameId(i) IN
  /\ own /\ entry[i] = [status |-> "FAILED", real |-> FALSE]
  /\ Asks("SEND", j, TRUE)
  /\ entry' = [entry EXCEPT ![j] = [status |-> Merged(@, "PENDING"), real |-> FALSE]]
  /\ UNCHANGED <<row, cached, events, fetch, link, own, mishaps>>
  /\ Explains(j, {})

\* The button of a FAILED message that the server knows.
AskRetry(i) ==
  /\ entry[i] = [status |-> "FAILED", real |-> TRUE]
  /\ Asks("RETRY", i, TRUE)
  /\ UNCHANGED <<row, entry, cached, events, fetch, link, blind, own, mishaps>>

\* The page of a colleague has the button too; what it shows out of date is refused.
AskRetryElsewhere(i) ==
  /\ row[i] = "FAILED"
  /\ Asks("RETRY", i, FALSE)
  /\ UNCHANGED <<row, entry, cached, events, fetch, link, blind, own, mishaps>>

-----------------------------------------------------------------------------
(* MessagesService: send and retry commit, publish, then read the row      *)
(* again, tell the room of it and answer with it.                          *)

\* The outcome waits for its page, if that still listens.
Answers(n, at, status) ==
  sending' = [sending EXCEPT ![n] =
    IF @.awaited THEN [@ EXCEPT !.at = at, !.status = status] ELSE NoRequest]

\* retry looks at the message first.
ReadRetry(n) ==
  /\ sending[n].at = "SENT" /\ sending[n].kind = "RETRY" /\ row[sending[n].id] = "FAILED"
  /\ sending' = [sending EXCEPT ![n].at = "READ"]
  /\ UNCHANGED <<row, entry, cached, events, fetch, link, blind, own, sends, mishaps>>

\* Mutant: the status that was read before the transaction is relied on.
WasFailed(i) == TRUE

\* The condition of the update.
StillFailed(i) == row[i] = "FAILED"

\* A new message, unless its clientMessageId is taken, or a FAILED one again: PENDING,
\* with a new dispatchId.
Commit(n) ==
  LET i == sending[n].id IN
  /\ IF sending[n].kind = "SEND" THEN sending[n].at = "SENT" /\ row[i] = Absent
                                 ELSE sending[n].at = "READ" /\ StillFailed(i)
  /\ row' = [row EXCEPT ![i] = "PENDING"]
  /\ sending' = [sending EXCEPT ![n].at = "COMMITTED"]
  /\ UNCHANGED <<entry, cached, events, fetch, link, own, sends, mishaps>>
  /\ Explains(i, {})

FinalizeOutbound(n) ==
  LET i == sending[n].id IN
  /\ sending[n].at = "COMMITTED"
  /\ Tells(IF sending[n].kind = "SEND" THEN "CREATED" ELSE "STATUS", i, row[i])
  /\ Answers(n, "ANSWERED", row[i])
  /\ UNCHANGED <<row, entry, cached, fetch, link, blind, own, sends, mishaps>>

\* The clientMessageId is taken: the existing message is the answer, and no event.
AnswerExisting(n) ==
  LET i == sending[n].id IN
  /\ sending[n].at = "SENT" /\ sending[n].kind = "SEND" /\ row[i] # Absent
  /\ Answers(n, "ANSWERED", row[i])
  /\ UNCHANGED <<row, entry, cached, events, fetch, link, blind, own, sends, mishaps>>

\* The conversation was closed or the window has expired, which is looked at before the
\* clientMessageId; or the message to retry is not FAILED any more.
Refuse(n) ==
  /\ \/ sending[n].kind = "SEND" /\ sending[n].at = "SENT"
     \/ /\ sending[n].kind = "RETRY" /\ sending[n].at \in {"SENT", "READ"}
        /\ row[sending[n].id] # "FAILED"
  /\ Answers(n, "REFUSED", Absent)
  /\ UNCHANGED <<row, entry, cached, events, fetch, link, blind, own, sends, mishaps>>

\* The API dies before the commit, or before it told of the message.
Dies(n) ==
  /\ sending[n].at \in {"SENT", "READ", "COMMITTED"} /\ ~sending[n].awaited
  /\ sending' = [sending EXCEPT ![n] = NoRequest]
  /\ UNCHANGED <<row, entry, cached, events, fetch, link, own, sends, mishaps>>
  /\ Explains(sending[n].id, IF sending[n].at = "COMMITTED" THEN {"LOST"} ELSE {})

-----------------------------------------------------------------------------
(* What the answers do to the cache.                                       *)

\* The status is ahead of the row when the message was retried since.
Overtakes(i, status) == IF IsStatusUpgrade(row[i], status) THEN {"LATE"} ELSE {}

HearAnswer(n) ==
  LET i == sending[n].id IN
  /\ sending[n].at = "ANSWERED"
  /\ entry' = Upserted(i, sending[n].status)
  /\ sending' = [sending EXCEPT ![n] = NoRequest]
  /\ UNCHANGED <<row, cached, events, fetch, link, own, sends, mishaps>>
  /\ Explains(i, Overtakes(i, sending[n].status))

\* onError: a send that is refused, or whose answer is lost, marks the entry FAILED.  A
\* retry only shows a message.
AfterError(n) ==
  /\ entry' = IF sending[n].kind = "SEND" THEN Patched(sending[n].id, "FAILED") ELSE entry
  /\ UNCHANGED <<row, cached, events, fetch, link, own, sends>>
  /\ Explains(sending[n].id, {})

HearRefusal(n) ==
  /\ sending[n].at = "REFUSED"
  /\ sending' = [sending EXCEPT ![n] = NoRequest]
  /\ AfterError(n)
  /\ UNCHANGED mishaps

\* The network fails, or the API, or the answer is lost.  What has reached the API goes on.
GiveUp(n) ==
  /\ sending[n].awaited /\ mishaps < MaxMishaps
  /\ sending[n].at \in {"SENT", "READ", "COMMITTED", "ANSWERED"}
  /\ sending' = [sending EXCEPT ![n] =
       IF @.at = "ANSWERED" THEN NoRequest ELSE [@ EXCEPT !.awaited = FALSE]]
  /\ AfterError(n)
  /\ mishaps' = mishaps + 1

-----------------------------------------------------------------------------
(* The worker, the provider and the other writers.                         *)

\* A colleague, the assistant or a suggestion writes a message: its clientMessageId is
\* none of this page's.
WrittenElsewhere ==
  /\ ~own /\ row[1] = Absent
  /\ row' = [row EXCEPT ![1] = "PENDING"]
  /\ Tells("CREATED", 1, "PENDING")
  /\ UNCHANGED <<entry, cached, sending, fetch, link, own, sends, mishaps>>
  /\ Explains(1, {})

\* The message is sent, fails, or the provider reports on it: the rules of the shared
\* table decide, and each change is told after its commit.
Progress(i, to) ==
  /\ row[i] # Absent /\ IsStatusUpgrade(row[i], to)
  /\ to = "DELIVERED" => row[i] # "PENDING"
  /\ row' = [row EXCEPT ![i] = to]
  /\ UNCHANGED <<entry, cached, sending, fetch, link, own, sends>>
  /\ \/ Tells("STATUS", i, to) /\ Explains(i, {}) /\ UNCHANGED mishaps
     \/ /\ mishaps < MaxMishaps
        /\ mishaps' = mishaps + 1
        /\ Explains(i, {"LOST"})
        /\ UNCHANGED events

-----------------------------------------------------------------------------
(* The socket and the fetch.                                               *)

\* message.created creates a cache that does not exist yet; a status finds its message
\* or is dropped.  What the first fetch answers replaces all of it.
Hear(e) ==
  LET i == e[2] IN
  /\ link # "DOWN" /\ e \in events
  /\ events' = events \ {e}
  /\ UNCHANGED <<row, sending, fetch, link, own, sends, mishaps>>
  /\ IF e[1] = "CREATED"
     THEN entry' = Upserted(i, e[3]) /\ cached' = TRUE
     ELSE entry' = Patched(i, e[3]) /\ UNCHANGED cached
  /\ Explains(i, (IF e[1] = "STATUS" /\ entry[i].status = Absent THEN {"EARLY"} ELSE {})
                 \cup Overtakes(i, e[3]))

\* Nobody listens.
Drop(e) ==
  /\ link = "DOWN" /\ e \in events
  /\ events' = events \ {e}
  /\ UNCHANGED <<row, entry, cached, sending, fetch, link, blind, own, sends, mishaps>>

Disconnect ==
  /\ link # "DOWN" /\ mishaps < MaxMishaps
  /\ link' = "DOWN"
  /\ mishaps' = mishaps + 1
  /\ UNCHANGED <<row, entry, cached, sending, events, fetch, blind, own, sends>>

Rejoin ==
  /\ link = "DOWN"
  /\ link' = "JOINED"
  /\ UNCHANGED <<row, entry, cached, sending, events, fetch, blind, own, sends, mishaps>>

FetchAsked == [NoFetch EXCEPT !.at = "ASKED"]

\* The acknowledgement raises connectionEpoch.  An invalidation cancels the fetch that
\* is under way, unless there is nothing cached: then it waits for that one.
Reconcile ==
  /\ link = "JOINED"
  /\ link' = "UP"
  /\ fetch' = IF cached \/ fetch.at = "NONE" THEN FetchAsked ELSE fetch
  /\ UNCHANGED <<row, entry, cached, sending, events, blind, own, sends, mishaps>>

ReadThread ==
  /\ fetch.at = "ASKED"
  /\ fetch' = [at |-> "READ", rows |-> row]
  /\ UNCHANGED <<row, entry, cached, sending, events, link, blind, own, sends, mishaps>>

\* The answer replaces the whole cache, and what was inserted in the meantime with it.
HearThread ==
  LET shown == [i \in Ids |-> [status |-> fetch.rows[i], real |-> fetch.rows[i] # Absent]]
  IN
  /\ fetch.at = "READ"
  /\ fetch' = NoFetch
  /\ entry' = shown
  /\ cached' = TRUE
  /\ blind' = [i \in Ids |-> IF shown[i].status = row[i] THEN {}
                             ELSE {"OVERTAKEN"}]
  /\ UNCHANGED <<row, sending, events, link, own, sends, mishaps>>

-----------------------------------------------------------------------------

ThreadNext ==
  \/ \E n \in Sends :
       \/ ReadRetry(n) \/ Commit(n) \/ FinalizeOutbound(n) \/ AnswerExisting(n)
       \/ Refuse(n) \/ Dies(n) \/ HearAnswer(n) \/ HearRefusal(n) \/ GiveUp(n)
  \/ Write \/ WrittenElsewhere \/ Disconnect \/ Rejoin \/ Reconcile \/ ReadThread \/ HearThread
  \/ \E i \in Ids : Resend(i) \/ AskRetry(i) \/ AskRetryElsewhere(i)
  \/ \E i \in Ids, to \in RowStatus : Progress(i, to)
  \/ \E e \in events : Hear(e) \/ Drop(e)

ThreadSpec == ThreadInit /\ [][ThreadNext]_threadVars

-----------------------------------------------------------------------------

SendRequest ==
  [at : {"NONE", "SENT", "READ", "COMMITTED", "ANSWERED", "REFUSED"},
   kind : {"SEND", "RETRY"}, id : Ids, status : RowStatus \cup {Absent}, awaited : BOOLEAN]

ThreadTypeOK ==
  /\ row \in [Ids -> RowStatus \cup {Absent}]
  /\ entry \in [Ids -> [status : RowStatus \cup {Absent}, real : BOOLEAN]]
  /\ sending \in [Sends -> SendRequest]
  /\ events \subseteq Kinds \X Ids \X RowStatus
  /\ fetch.at \in {"NONE", "ASKED", "READ"}
  /\ link \in Links
  /\ blind \in [Ids -> SUBSET Causes]
  /\ cached \in BOOLEAN /\ own \in BOOLEAN
  /\ sends \in 0 .. MaxSends /\ mishaps \in 0 .. MaxMishaps

AtRest ==
  /\ link = "UP" /\ events = {} /\ fetch.at = "NONE"
  /\ \A n \in Sends : sending[n].at = "NONE"

\* A thread at rest shows of each message what the server has, whatever the order in
\* which answers, events and fetches came; or it shows it as FAILED, which only a fetch
\* undoes; or it differs for a cause that is known: an event got lost, or overtook the one
\* that brings the message, or told after a retry of the dispatch before it, or a fetch
\* answered after a newer event (message-cache, use-conversation-messages).
ThreadKeepsUp ==
  /\ ThreadTypeOK
  /\ AtRest => \A i \in Ids :
       \/ entry[i].status \in {row[i], "FAILED"}
       \/ row[i] # Absent /\ blind[i] # {}

\* The customer is not written to twice: a copy of a text is handed to the worker only
\* when the server has none, or has one that failed, under any identifier of the text;
\* whatever requests of the agent and of colleagues overlap, given up on and committed
\* next to the one that repeats them, or decided on a status that has changed since, and
\* whatever the page shows meanwhile (send, retry, resendOptimistic).
OneCopyAtATime ==
  [][\A n \in Sends : sending[n].at # "COMMITTED" /\ sending'[n].at = "COMMITTED"
       => \A j \in Ids : row[j] \in {Absent, "FAILED"}]_threadVars
=================================================================================
