------------------------------- MODULE AiRuns --------------------------------
(***************************************************************************)
(* The life of an AI run: the worker answers a customer message of a       *)
(* WhatsApp conversation with a generated reply, and pays for it from the  *)
(* wallet of the organization.                                             *)
(*                                                                         *)
(*  - the trigger (ai-trigger.service) creates the run under the lock of   *)
(*    the conversation, supersedes the one it finds active and reserves    *)
(*    MAX_CREDITS_PER_AI_RUN credits;                                      *)
(*  - the orchestrator (ai-orchestrator.service) claims the run, calls the *)
(*    provider and its tools in memory, without any lock, and commits one  *)
(*    decision under the lock of the conversation;                         *)
(*  - two sweeps repair what was left behind (ai-recovery.service,         *)
(*    ai-reservation-sweep.service);                                       *)
(*  - meanwhile customers write, agents answer, pause the AI, accept,      *)
(*    reject or regenerate suggestions (apps/api).                         *)
(*                                                                         *)
(* A database transaction that holds the row lock it depends on is one     *)
(* action.  What the code reads before the lock, or computes in memory, is *)
(* an action of its own, and what it remembers is a variable.              *)
(***************************************************************************)
EXTENDS WalletRules, FiniteSets

CONSTANTS Conversations,    \* the conversations of one shop
          Attended,         \* those an agent attends to; in the others nobody
                            \* answers, pauses or handles suggestions
          MaxInbound,       \* bound: customer messages per conversation
          MaxToolRounds,    \* toolMaxRounds of the shop
          Modes,            \* AI modes the merchant switches between
          StatusTargets,    \* statuses an administrator gives the wallet
          TopUps,           \* top-ups that may be paid
          TopUpCredits,     \* credits of one top-up
          InitialCredits,   \* balance at the start
          Crashes,          \* whether the worker process may die
          ToolTimeouts,     \* whether a tool may outlive its timeout
          NoRun             \* null value

AiModes == {"DISABLED", "SUGGEST_ONLY", "AUTO_REPLY"}

\* A run is named by its trigger message: ai_runs.triggerMessageId is UNIQUE.
Runs == Conversations \X (1..MaxInbound)

Conv(r) == r[1]
Index(r) == r[2]

ASSUME RunsAssumption ==
  /\ IsFiniteSet(Conversations)
  /\ Attended \subseteq Conversations
  /\ MaxInbound \in Nat
  /\ MaxToolRounds \in Nat
  /\ Modes \subseteq AiModes /\ Modes # {}
  /\ StatusTargets \subseteq WalletStatus
  /\ TopUpCredits \in Nat \ {0}
  /\ InitialCredits \in 0..WALLET_MAX_CREDITS
  /\ Crashes \in BOOLEAN
  /\ ToolTimeouts \in BOOLEAN
  /\ NoRun \notin Runs
  /\ Runs \cap TopUps = {}

VARIABLES
  \* The conversation, as the other actors shape it.
  inbound,    \* inbound[c]: number of customer messages received
  outbound,   \* outbound[c]: customer messages received when the last reply left
  handoff,    \* handoff[c]: the run that opened the open handoff, or NoRun
  paused,     \* paused[c]: aiAutoReplyPaused
  mode,       \* effective AI mode; DISABLED also stands for a channel cut off
  \* The run and what it left in the database.
  run,        \* run[r]: status of the AiRun, "none" before it exists
  sug,        \* sug[r]: status of the suggestion of run r
  sent,       \* runs whose reply was sent automatically
  \* The wallet.
  wallet,     \* [balance, reserved, status, ledger]
  usage,      \* usage[r]: status of the AiUsageEvent of run r
  charged,    \* charged[r]: its creditsCharged
  tools,      \* tools[r]: tool calls recorded SUCCEEDED, up to ToolCallBound
  \* What the worker and the API remember between two transactions.
  checked,    \* triggers past the reads processTrigger makes without a lock
  exec,       \* exec[r]: how far the worker executing run r is
  rounds,     \* rounds[r]: tool rounds of that execution
  late,       \* runs with a timed out handoff tool that is still working
  accepting,  \* suggestions whose acceptance passed its stale check
  regen       \* regen[c]: active run a forced regeneration has read, or NoRun

conversation == <<inbound, outbound, handoff, paused, mode>>
artefacts    == <<sug, sent>>
money        == <<wallet, usage, charged>>
worker       == <<checked, exec, rounds, late>>
api          == <<accepting, regen>>
vars == <<conversation, run, artefacts, money, tools, worker, api>>

RunStatus    == {"none", "QUEUED", "RUNNING", "WAITING_TOOL",
                 "SUCCEEDED", "FAILED", "SUPERSEDED", "SKIPPED"}
Active       == {"QUEUED", "RUNNING", "WAITING_TOOL"}
Executing    == {"RUNNING", "WAITING_TOOL"}    \* ACTIVE_STATUSES of the orchestrator
Terminal     == {"SUCCEEDED", "FAILED", "SUPERSEDED", "SKIPPED"}
SugStatus    == {"none", "PENDING", "EXPIRED", "ACCEPTED", "REJECTED"}
UsageStatus  == {"none", "RESERVED", "CHARGED", "RELEASED", "SKIPPED"}
Decisions    == {"SUGGESTION", "HANDOFF", "NO_REPLY"}
ExecPhase    == {"none", "generate", "tools", "error"} \cup Decisions

Init ==
  /\ inbound = [c \in Conversations |-> 0]
  /\ outbound = [c \in Conversations |-> 0]
  /\ handoff = [c \in Conversations |-> NoRun]
  /\ paused = [c \in Conversations |-> FALSE]
  /\ mode \in Modes
  /\ run = [r \in Runs |-> "none"]
  /\ sug = [r \in Runs |-> "none"]
  /\ sent = {}
  /\ wallet = [balance |-> InitialCredits, reserved |-> 0,
               status |-> "ACTIVE", ledger |-> {}]
  /\ usage = [r \in Runs |-> "none"]
  /\ charged = [r \in Runs |-> 0]
  /\ tools = [r \in Runs |-> 0]
  /\ checked = {}
  /\ exec = [r \in Runs |-> "none"]
  /\ rounds = [r \in Runs |-> 0]
  /\ late = {}
  /\ accepting = {}
  /\ regen = [c \in Conversations |-> NoRun]

-----------------------------------------------------------------------------
(* The reservation of a run: WalletReservationService.                     *)

\* The wallet after releaseRunReservationInTx.  The usage event gates the
\* movement; a CLOSED wallet takes none.
Released(w, r) ==
  IF usage[r] = "RESERVED" /\ w.status # "CLOSED"
  THEN ApplyMovement(w, "RELEASE", r, MAX_CREDITS_PER_AI_RUN)
  ELSE w

\* Mutant: the movement is made, the event stays RESERVED.
UsageNotReleased(r) == usage[r]

UsageReleased(r) == IF usage[r] = "RESERVED" THEN "RELEASED" ELSE usage[r]

\* The cost finalizeRunReservationInTx decides: nothing unless ACTIVE.  The price
\* is at most the reservation, so the code's Math.min never bites.
EffectiveCharge(r, decision) ==
  IF wallet.status # "ACTIVE" THEN 0
  ELSE RunCredits(IF decision = "SUGGESTION" THEN "SUGGEST_REPLY" ELSE decision,
                  tools[r])

\* DEBIT first, RELEASE second, each validated on its own.
Debited(r, decision) ==
  IF EffectiveCharge(r, decision) = 0 THEN wallet
  ELSE ApplyMovement(wallet, "DEBIT", r, EffectiveCharge(r, decision))

SettleThrows(r, decision) ==
  /\ usage[r] = "RESERVED"
  /\ wallet.status # "CLOSED"
  /\ \/ /\ EffectiveCharge(r, decision) > 0
        /\ MovementThrows(wallet, "DEBIT", r, EffectiveCharge(r, decision))
     \/ MovementThrows(Debited(r, decision), "RELEASE", r, MAX_CREDITS_PER_AI_RUN)

\* Mutant: only the cost is released.
SettleReleasesCost(r, decision) ==
  LET charge == EffectiveCharge(r, decision) IN
  IF usage[r] # "RESERVED" THEN UNCHANGED money
  ELSE /\ usage' = [usage EXCEPT ![r] = IF charge > 0 THEN "CHARGED" ELSE "RELEASED"]
       /\ charged' = [charged EXCEPT ![r] = charge]
       /\ wallet' = IF wallet.status = "CLOSED" THEN wallet
                    ELSE ApplyMovement(Debited(r, decision), "RELEASE", r, charge)

\* finalizeRunReservationInTx, when it does not raise.
Settle(r, decision) ==
  LET charge == EffectiveCharge(r, decision) IN
  IF usage[r] # "RESERVED" THEN UNCHANGED money
  ELSE /\ usage' = [usage EXCEPT ![r] = IF charge > 0 THEN "CHARGED" ELSE "RELEASED"]
       /\ charged' = [charged EXCEPT ![r] = charge]
       /\ wallet' = IF wallet.status = "CLOSED" THEN wallet
                    ELSE ApplyMovement(Debited(r, decision), "RELEASE", r,
                                       MAX_CREDITS_PER_AI_RUN)

-----------------------------------------------------------------------------
(* Customers, agents, the merchant and the administrator.                  *)

ReceiveInbound(c) ==
  /\ inbound[c] < MaxInbound
  /\ inbound' = [inbound EXCEPT ![c] = @ + 1]
  /\ UNCHANGED <<outbound, handoff, paused, mode, run, artefacts, money, tools, worker, api>>

\* createOutboundInTx: a reply an agent sends takes the conversation over.
AgentOutbound(c) ==
  /\ outbound' = [outbound EXCEPT ![c] = inbound[c]]
  /\ paused' = [paused EXCEPT ![c] = TRUE]
  /\ UNCHANGED <<inbound, handoff, mode>>

HumanReply(c) ==
  /\ inbound[c] > 0
  /\ AgentOutbound(c)
  /\ UNCHANGED <<run, artefacts, money, tools, worker, api>>

SetPaused(c) ==
  /\ paused' = [paused EXCEPT ![c] = ~@]
  /\ UNCHANGED <<inbound, outbound, handoff, mode, run, artefacts, money, tools, worker, api>>

SetMode ==
  /\ mode' \in Modes \ {mode}
  /\ UNCHANGED <<inbound, outbound, handoff, paused, run, artefacts, money, tools, worker, api>>

SetWalletStatus ==
  /\ \E to \in StatusTargets :
       /\ CanTransitionWalletStatus(wallet.status, to)
       /\ wallet' = [wallet EXCEPT !.status = to]
  /\ UNCHANGED <<conversation, run, artefacts, usage, charged, tools, worker, api>>

\* creditTopUp: a paid top-up credits the wallet, once.
CreditTopUp(t) ==
  /\ ~MovementThrows(wallet, "CREDIT", t, TopUpCredits)
  /\ wallet' = ApplyMovement(wallet, "CREDIT", t, TopUpCredits)
  /\ UNCHANGED <<conversation, run, artefacts, usage, charged, tools, worker, api>>

-----------------------------------------------------------------------------
(* The trigger: AiTriggerService.processTrigger.  BullMQ delivers a job at *)
(* least once and the recovery sweep publishes it again, so a message that *)
(* arrived may be processed at any time and more than once.                *)

Arrived(r) == Index(r) <= inbound[Conv(r)]

\* The reads made without a lock all pass; the transaction comes later.
ProcessTrigger(r) ==
  /\ Arrived(r)
  /\ mode # "DISABLED"
  /\ handoff[Conv(r)] = NoRun
  /\ checked' = checked \cup {r}
  /\ UNCHANGED <<conversation, run, artefacts, money, tools, exec, rounds, late, api>>

\* An open handoff: a SKIPPED run uses the trigger up, with no usage event.
CreateSkippedRun(r) ==
  /\ Arrived(r)
  /\ mode # "DISABLED"
  /\ handoff[Conv(r)] # NoRun
  /\ run[r] = "none"
  /\ run' = [run EXCEPT ![r] = "SKIPPED"]
  /\ UNCHANGED <<conversation, artefacts, money, tools, worker, api>>

ActiveRuns(c) == {r \in Runs : Conv(r) = c /\ run[r] \in Active}

\* Mutant: a run that is being executed is not found.
FirstQueued(c) ==
  LET queued == {r \in ActiveRuns(c) : run[r] = "QUEUED"}
  IN  IF queued = {} THEN {NoRun} ELSE queued

\* The findFirst of the active run: one of them, or none.
FirstActive(c) == IF ActiveRuns(c) = {} THEN {NoRun} ELSE ActiveRuns(c)

\* Mutant: reserved credits count as available.
CanReserveOnBalance(w) == w.status = "ACTIVE" /\ w.balance >= MAX_CREDITS_PER_AI_RUN

\* resolveWalletSkip finds no reason to skip.
CanReserve(w) == w.status = "ACTIVE" /\ AvailableCredits(w) >= MAX_CREDITS_PER_AI_RUN

\* createRunUnderLock: supersede run a, release it, then reserve for run r, or
\* skip it when the wallet does not allow it.
SupersedeAndCreate(a, r) ==
  LET w  == IF a = NoRun THEN wallet ELSE Released(wallet, a)
      ok == CanReserve(w)
  IN  /\ run' = [x \in Runs |-> IF x = r THEN IF ok THEN "QUEUED" ELSE "SKIPPED"
                                ELSE IF x = a THEN "SUPERSEDED" ELSE run[x]]
      /\ usage' = [x \in Runs |-> IF x = r THEN IF ok THEN "RESERVED" ELSE "SKIPPED"
                                  ELSE IF x = a THEN UsageReleased(x) ELSE usage[x]]
      /\ wallet' = IF ok THEN ApplyMovement(w, "RESERVE", r, MAX_CREDITS_PER_AI_RUN)
                   ELSE w
      /\ sug' = [x \in Runs |-> IF x = a /\ sug[x] = "PENDING" THEN "EXPIRED"
                                ELSE sug[x]]
      /\ UNCHANGED <<charged, sent>>

\* The trigger stays in "checked": a second delivery of the job may hold the
\* same reads, and finds the run made (ALREADY_RUN).
CreateRunUnderLock(r) ==
  /\ r \in checked
  /\ IF run[r] # "none"
     THEN UNCHANGED <<run, artefacts, money>>
     ELSE \E a \in FirstActive(Conv(r)) : SupersedeAndCreate(a, r)
  /\ UNCHANGED <<conversation, tools, worker, api>>

-----------------------------------------------------------------------------
(* The executing worker: AiOrchestratorService.                            *)

\* runGeneration: the claim QUEUED -> RUNNING, from the job, a retry of it or
\* the recovery sweep.
RunGeneration(r) ==
  /\ run[r] = "QUEUED"
  /\ run' = [run EXCEPT ![r] = "RUNNING"]
  /\ exec' = [exec EXCEPT ![r] = "generate"]
  /\ UNCHANGED <<conversation, artefacts, money, tools, checked, rounds, late, api>>

\* The worker leaves the run; its local variables are gone.
StopExecution(r) ==
  /\ exec' = [exec EXCEPT ![r] = "none"]
  /\ rounds' = [rounds EXCEPT ![r] = 0]

\* transitionActive: lost when the run is no longer where the worker left it;
\* RunSupersededError then ends the execution.
TransitionActive(r, from, to, phase, round) ==
  IF run[r] = from
  THEN /\ run' = [run EXCEPT ![r] = to]
       /\ exec' = [exec EXCEPT ![r] = phase]
       /\ rounds' = [rounds EXCEPT ![r] = round]
  ELSE StopExecution(r) /\ UNCHANGED run

StartToolRound(r) ==
  /\ exec[r] = "generate"
  /\ rounds[r] < MaxToolRounds
  /\ TransitionActive(r, "RUNNING", "WAITING_TOOL", "tools", rounds[r])
  /\ UNCHANGED <<conversation, artefacts, money, tools, checked, late, api>>

EndToolRound(r) ==
  /\ exec[r] = "tools"
  /\ TransitionActive(r, "WAITING_TOOL", "RUNNING", "generate", rounds[r] + 1)
  /\ UNCHANGED <<conversation, artefacts, money, tools, checked, late, api>>

\* A successful call is recorded.  Bound: two calls already cost the maximum.
ToolCallBound == 2

ToolSucceeded(r) ==
  tools' = [tools EXCEPT ![r] = IF @ < ToolCallBound THEN @ + 1 ELSE @]

ToolCall(r) ==
  /\ exec[r] = "tools"
  /\ ToolSucceeded(r)
  /\ UNCHANGED <<conversation, run, artefacts, money, worker, api>>

\* request_human_handoff opens a handoff unless one is open.
OpenHandoff(r) ==
  handoff' = [handoff EXCEPT ![Conv(r)] = IF @ = NoRun THEN r ELSE @]

HandoffTool(r) ==
  /\ exec[r] = "tools"
  /\ OpenHandoff(r)
  /\ ToolSucceeded(r)
  /\ UNCHANGED <<inbound, outbound, paused, mode, run, artefacts, money, worker, api>>

\* Promise.race gives the tool up: recorded FAILED, but nothing stops it.
HandoffToolTimesOut(r) ==
  /\ ToolTimeouts
  /\ exec[r] = "tools"
  /\ late' = late \cup {r}
  /\ UNCHANGED <<conversation, run, artefacts, money, tools, checked, exec, rounds, api>>

LateHandoff(r) ==
  /\ r \in late
  /\ late' = late \ {r}
  /\ OpenHandoff(r)
  /\ UNCHANGED <<inbound, outbound, paused, mode, run, artefacts, money, tools,
                 checked, exec, rounds, api>>

\* resolveDecision: the final answer.  Calls for more tools than allowed are a
\* HANDOFF.
Decide(r) ==
  /\ exec[r] = "generate"
  /\ \E d \in Decisions : exec' = [exec EXCEPT ![r] = d]
  /\ UNCHANGED <<conversation, run, artefacts, money, tools, checked, rounds, late, api>>

\* Mutant: a transient error leaves the run RUNNING.
RetryWithoutRelease(r) ==
  /\ exec[r] = "generate"
  /\ StopExecution(r)
  /\ UNCHANGED <<conversation, run, artefacts, money, tools, checked, late, api>>

\* handleError on a transient provider error: back to QUEUED.
ReleaseForRetry(r) ==
  /\ exec[r] = "generate"
  /\ run' = [run EXCEPT ![r] = IF @ \in Executing THEN "QUEUED" ELSE @]
  /\ StopExecution(r)
  /\ UNCHANGED <<conversation, artefacts, money, tools, checked, late, api>>

\* Any other failure of the generation leads to finalizeFailed.
GenerationFails(r) ==
  /\ exec[r] \in {"generate", "tools"}
  /\ exec' = [exec EXCEPT ![r] = "error"]
  /\ UNCHANGED <<conversation, run, artefacts, money, tools, checked, rounds, late, api>>

\* One transaction: when the settlement raises, the run keeps its status.
FinalizeFailed(r) ==
  /\ exec[r] = "error"
  /\ StopExecution(r)
  /\ IF run[r] \in Executing /\ ~SettleThrows(r, "FAILED")
     THEN /\ run' = [run EXCEPT ![r] = "FAILED"]
          /\ Settle(r, "FAILED")
     ELSE UNCHANGED <<run, money>>
  /\ UNCHANGED <<conversation, artefacts, tools, checked, late, api>>

-----------------------------------------------------------------------------
(* commitDecision, one transaction under the lock of the conversation.     *)

\* Mutant: replies sent in the meantime are not looked for.
ObsoleteByInbound(r) == inbound[Conv(r)] > Index(r) \/ mode = "DISABLED"

\* checkObsolete: a newer customer message or reply, or the AI cut off.
Obsolete(r) ==
  \/ inbound[Conv(r)] > Index(r)
  \/ outbound[Conv(r)] >= Index(r)
  \/ mode = "DISABLED"

\* Obsolete: the run supersedes itself and gives its reservation back.
CommitObsolete(r) ==
  /\ exec[r] \in Decisions
  /\ Obsolete(r)
  /\ StopExecution(r)
  /\ IF run[r] \in Executing
     THEN /\ run' = [run EXCEPT ![r] = "SUPERSEDED"]
          /\ usage' = [usage EXCEPT ![r] = UsageReleased(r)]
          /\ wallet' = Released(wallet, r)
          /\ UNCHANGED charged
     ELSE UNCHANGED <<run, money>>
  /\ UNCHANGED <<conversation, artefacts, tools, checked, late, api>>

\* The gate RUNNING -> SUCCEEDED is lost: someone else ended the run.
CommitLost(r) ==
  /\ exec[r] \in Decisions
  /\ ~Obsolete(r)
  /\ run[r] # "RUNNING"
  /\ StopExecution(r)
  /\ UNCHANGED <<conversation, run, artefacts, money, tools, checked, late, api>>

\* A movement raises: everything rolls back and handleError takes over.
CommitThrows(r) ==
  /\ exec[r] \in Decisions
  /\ ~Obsolete(r)
  /\ run[r] = "RUNNING"
  /\ SettleThrows(r, exec[r])
  /\ exec' = [exec EXCEPT ![r] = "error"]
  /\ UNCHANGED <<conversation, run, artefacts, money, tools, checked, rounds, late, api>>

\* What every successful commit does before it looks at the decision.
CommitGate(r, decision) ==
  /\ exec[r] = decision
  /\ ~Obsolete(r)
  /\ run[r] = "RUNNING"
  /\ ~SettleThrows(r, decision)
  /\ run' = [run EXCEPT ![r] = "SUCCEEDED"]
  /\ StopExecution(r)
  /\ Settle(r, decision)
  /\ UNCHANGED <<tools, checked, late, api>>

\* NO_SUGGESTION: a handoff opened during the run blocks the reply.
CommitBlockedByHandoff(r) ==
  /\ CommitGate(r, "SUGGESTION")
  /\ handoff[Conv(r)] # NoRun
  /\ UNCHANGED <<conversation, artefacts>>

\* SUGGEST_ONLY, or the auto-reply gate suppressed the reply.  The gate may
\* suppress for reasons this module leaves out (window, hours, categories,
\* confidence, daily cap), so a suggestion is possible in both modes.
CommitSuggestion(r) ==
  /\ CommitGate(r, "SUGGESTION")
  /\ handoff[Conv(r)] = NoRun
  /\ sug' = [sug EXCEPT ![r] = "PENDING"]
  /\ UNCHANGED <<conversation, sent>>

\* evaluateAutoReplyGate: what it reads of the state modelled here.
AutoReplyAllowed(c) == ~paused[c]

CommitAutoReply(r) ==
  /\ CommitGate(r, "SUGGESTION")
  /\ handoff[Conv(r)] = NoRun
  /\ mode = "AUTO_REPLY"
  /\ AutoReplyAllowed(Conv(r))
  /\ sent' = sent \cup {r}
  /\ outbound' = [outbound EXCEPT ![Conv(r)] = inbound[Conv(r)]]
  /\ UNCHANGED <<inbound, handoff, paused, mode, sug>>

\* The conversation goes to a human; an open handoff is reused.
CommitHandoff(r) ==
  /\ CommitGate(r, "HANDOFF")
  /\ paused' = [paused EXCEPT ![Conv(r)] = TRUE]
  /\ OpenHandoff(r)
  /\ UNCHANGED <<inbound, outbound, mode, artefacts>>

CommitNoReply(r) ==
  /\ CommitGate(r, "NO_REPLY")
  /\ UNCHANGED <<conversation, artefacts>>

-----------------------------------------------------------------------------
(* Sweeps and crashes.                                                     *)

\* Mutant: the sweep puts stale RUNNING runs back in the queue.
RequeueStaleRuns ==
  /\ \E stale \in SUBSET {r \in Runs : run[r] \in Active} \ {{}} :
       run' = [r \in Runs |-> IF r \in stale THEN "QUEUED" ELSE run[r]]
  /\ UNCHANGED <<conversation, artefacts, money, tools, worker, api>>

\* recoverStaleRuns gives up on QUEUED runs older than the recovery window: one
\* bulk update, which leaves their reservations alone.
AbandonStaleRuns ==
  /\ \E stale \in SUBSET {r \in Runs : run[r] = "QUEUED"} \ {{}} :
       run' = [r \in Runs |-> IF r \in stale THEN "FAILED" ELSE run[r]]
  /\ UNCHANGED <<conversation, artefacts, money, tools, worker, api>>

\* Mutant: FAILED is missing from the terminal statuses of the sweep.
SweepSupersededOnly(r) ==
  /\ run[r] \in {"SUCCEEDED", "SUPERSEDED", "SKIPPED"}
  /\ usage[r] = "RESERVED"
  /\ usage' = [usage EXCEPT ![r] = UsageReleased(r)]
  /\ wallet' = Released(wallet, r)
  /\ UNCHANGED <<conversation, run, artefacts, charged, tools, worker, api>>

\* AiReservationSweepService: a terminal run that still holds a reservation.
SweepReservation(r) ==
  /\ run[r] \in Terminal
  /\ usage[r] = "RESERVED"
  /\ usage' = [usage EXCEPT ![r] = UsageReleased(r)]
  /\ wallet' = Released(wallet, r)
  /\ UNCHANGED <<conversation, run, artefacts, charged, tools, worker, api>>

\* The worker process dies: all it had in memory is gone.  A crash while it
\* executes nothing loses nothing, as its jobs are delivered again.
Crash ==
  /\ Crashes
  /\ \E r \in Runs : exec[r] # "none"
  /\ checked' = {}
  /\ exec' = [r \in Runs |-> "none"]
  /\ rounds' = [r \in Runs |-> 0]
  /\ late' = {}
  /\ UNCHANGED <<conversation, run, artefacts, money, tools, api>>

-----------------------------------------------------------------------------
(* Suggestions: AiSuggestionsService.                                      *)

\* isStale, the check of an acceptance.
Stale(r) ==
  \/ inbound[Conv(r)] > Index(r)
  \/ outbound[Conv(r)] >= Index(r)
  \/ handoff[Conv(r)] # NoRun

\* accept locks the suggestion, not the conversation, and checks ...
AcceptChecked(r) ==
  /\ sug[r] = "PENDING"
  /\ r \notin accepting
  /\ ~Stale(r)
  /\ accepting' = accepting \cup {r}
  /\ UNCHANGED <<conversation, run, artefacts, money, tools, worker, regen>>

\* ... then sends.
AcceptSends(r) ==
  /\ r \in accepting
  /\ accepting' = accepting \ {r}
  /\ sug' = [sug EXCEPT ![r] = "ACCEPTED"]
  /\ AgentOutbound(Conv(r))
  /\ UNCHANGED <<run, sent, money, tools, worker, regen>>

\* confirmStale skips the check.
AcceptConfirmed(r) ==
  /\ sug[r] = "PENDING"
  /\ r \notin accepting
  /\ sug' = [sug EXCEPT ![r] = "ACCEPTED"]
  /\ AgentOutbound(Conv(r))
  /\ UNCHANGED <<run, sent, money, tools, worker, api>>

Reject(r) ==
  /\ sug[r] = "PENDING"
  /\ r \notin accepting
  /\ sug' = [sug EXCEPT ![r] = "REJECTED"]
  /\ UNCHANGED <<conversation, run, sent, money, tools, worker, api>>

\* generate with forceRegenerate: expires the latest pending suggestion and
\* remembers the active run ...
LatestPending(c) ==
  {r \in Runs : /\ Conv(r) = c /\ sug[r] = "PENDING"
                /\ \A q \in Runs : Conv(q) = c /\ sug[q] = "PENDING"
                                   => Index(q) <= Index(r)}

RegenerateExpires(c) ==
  /\ mode # "DISABLED"
  /\ handoff[c] = NoRun
  /\ regen[c] = NoRun
  /\ sug' = [r \in Runs |-> IF r \in LatestPending(c) \ accepting THEN "EXPIRED"
                            ELSE sug[r]]
  /\ \E a \in FirstActive(c) : regen' = [regen EXCEPT ![c] = a]
  /\ UNCHANGED <<conversation, run, sent, money, tools, worker, accepting>>

\* ... which it then supersedes, if it is still active, and releases.
RegenerateSupersedes(c) ==
  LET r == regen[c] IN
  /\ r # NoRun
  /\ regen' = [regen EXCEPT ![c] = NoRun]
  /\ IF run[r] \in Active
     THEN /\ run' = [run EXCEPT ![r] = "SUPERSEDED"]
          /\ usage' = [usage EXCEPT ![r] = UsageReleased(r)]
          /\ wallet' = Released(wallet, r)
          /\ UNCHANGED charged
     ELSE UNCHANGED <<run, money>>
  /\ UNCHANGED <<conversation, artefacts, tools, worker, accepting>>

-----------------------------------------------------------------------------
Commit(r) ==
  \/ CommitObsolete(r)         \/ CommitLost(r)       \/ CommitThrows(r)
  \/ CommitBlockedByHandoff(r) \/ CommitSuggestion(r) \/ CommitAutoReply(r)
  \/ CommitHandoff(r)          \/ CommitNoReply(r)

Trigger(r) == ProcessTrigger(r) \/ CreateSkippedRun(r) \/ CreateRunUnderLock(r)

Execute(r) ==
  \/ RunGeneration(r) \/ StartToolRound(r) \/ ToolCall(r) \/ HandoffTool(r)
  \/ HandoffToolTimesOut(r) \/ EndToolRound(r) \/ Decide(r) \/ ReleaseForRetry(r)
  \/ GenerationFails(r) \/ FinalizeFailed(r) \/ Commit(r)

WorkerStep(r) == Trigger(r) \/ Execute(r) \/ LateHandoff(r) \/ SweepReservation(r)

SuggestionStep(r) ==
  AcceptChecked(r) \/ AcceptSends(r) \/ AcceptConfirmed(r) \/ Reject(r)

AgentStep(c) ==
  \/ HumanReply(c) \/ SetPaused(c) \/ RegenerateExpires(c) \/ RegenerateSupersedes(c)
  \/ \E r \in Runs : Conv(r) = c /\ SuggestionStep(r)

Next ==
  \/ \E r \in Runs : WorkerStep(r)
  \/ \E c \in Attended : AgentStep(c)
  \/ \E c \in Conversations : ReceiveInbound(c)
  \/ SetMode
  \/ SetWalletStatus
  \/ \E t \in TopUps : CreditTopUp(t)
  \/ AbandonStaleRuns
  \/ Crash

Spec == Init /\ [][Next]_vars

-----------------------------------------------------------------------------
(* Invariants.                                                             *)

WalletRefs == Runs \cup TopUps

\* Every variable holds a value of its type: the statuses are those of the Prisma
\* enums, a cost is at most the reservation, a run makes at most toolMaxRounds.
TypeOK ==
  /\ inbound \in [Conversations -> 0..MaxInbound]
  /\ outbound \in [Conversations -> 0..MaxInbound]
  /\ handoff \in [Conversations -> Runs \cup {NoRun}]
  /\ paused \in [Conversations -> BOOLEAN]
  /\ mode \in Modes
  /\ run \in [Runs -> RunStatus]
  /\ sug \in [Runs -> SugStatus]
  /\ sent \subseteq Runs
  /\ wallet \in [balance : Int, reserved : Int, status : WalletStatus,
                 ledger : SUBSET (Directions \X WalletRefs)]
  /\ usage \in [Runs -> UsageStatus]
  /\ charged \in [Runs -> 0..MAX_CREDITS_PER_AI_RUN]
  /\ tools \in [Runs -> 0..ToolCallBound]
  /\ checked \subseteq Runs
  /\ exec \in [Runs -> ExecPhase]
  /\ rounds \in [Runs -> 0..MaxToolRounds]
  /\ late \subseteq Runs
  /\ accepting \subseteq Runs
  /\ regen \in [Conversations -> Runs \cup {NoRun}]

\* The migration's partial unique index ai_runs_one_active_per_conversation is
\* never what saves the trigger: whatever the crashes, retries and late
\* triggers, two runs of one conversation are never active together.
OneActiveRunPerConversation ==
  \A q, r \in Runs : run[q] \in Active /\ run[r] \in Active /\ Conv(q) = Conv(r)
                     => q = r

\* No run is generated on credit: as long as a run may still be executed, its
\* reservation stands (createRunUnderLock, every release, the sweeps).
ActiveRunIsFunded ==
  \A r \in Runs : run[r] \in Active => usage[r] = "RESERVED"

\* The ledger tells the story of every usage event: what was reserved, debited
\* and released, each once.  Only a CLOSED wallet leaves a reservation behind.
LedgerMatchesUsage ==
  \A r \in Runs :
    /\ (<<"RESERVE", r>> \in wallet.ledger)
         <=> usage[r] \in {"RESERVED", "CHARGED", "RELEASED"}
    /\ (<<"DEBIT", r>> \in wallet.ledger) <=> usage[r] = "CHARGED"
    /\ <<"RELEASE", r>> \in wallet.ledger => usage[r] \in {"CHARGED", "RELEASED"}
    /\ usage[r] = "CHARGED" => <<"RELEASE", r>> \in wallet.ledger
    /\ usage[r] = "RELEASED" /\ wallet.status # "CLOSED"
         => <<"RELEASE", r>> \in wallet.ledger
    /\ <<"CREDIT", r>> \notin wallet.ledger

\* Runs that hold credits according to the ledger.
HeldRuns ==
  {r \in Runs : <<"RESERVE", r>> \in wallet.ledger /\ <<"RELEASE", r>> \notin wallet.ledger}

ReleasedRuns == {r \in Runs : <<"RELEASE", r>> \in wallet.ledger}

\* reserved is exactly what the runs hold, and the balance covers it: nothing is
\* released twice, reserved twice or lost by superseding, sweeping, failing or
\* settling a run, so the CHECK constraints of the wallet never fire.
ReservedIsHeldAndCovered ==
  /\ wallet.reserved = MAX_CREDITS_PER_AI_RUN * Cardinality(HeldRuns)
  /\ BalancesValid(wallet)

CreditedTopUps == {t \in TopUps : <<"CREDIT", t>> \in wallet.ledger}

\* The credits the usage events charge, counted one by one.
ChargedCredits ==
  {unit \in Runs \X (1..MAX_CREDITS_PER_AI_RUN) : unit[2] <= charged[unit[1]]}

\* Every credit is accounted for: the balance is what came in, less what the
\* usage events say was charged.
FundsConserved ==
  wallet.balance = (InitialCredits + TopUpCredits * Cardinality(CreditedTopUps))
                     - Cardinality(ChargedCredits)

\* Only a run that succeeded is paid for, and a SUSPENDED or CLOSED wallet is
\* never debited without its event saying so.
ChargedRunsSucceeded ==
  \A r \in Runs : /\ usage[r] = "CHARGED" => run[r] = "SUCCEEDED"
                  /\ usage[r] = "CHARGED" <=> charged[r] > 0

\* A run that may be claimed again has no executor left: two workers never
\* generate the same run (claim of runGeneration, handleError, crashes).
ClaimableMeansIdle ==
  \A r \in Runs : run[r] = "QUEUED" => exec[r] = "none"

-----------------------------------------------------------------------------
(* What no step may do.                                                    *)

\* A terminal run and a resolved usage event are final, whatever executor,
\* retry or sweep comes late.
OutcomesAreFinal ==
  [][\A r \in Runs :
       /\ run[r] \in Terminal => run'[r] = run[r]
       /\ usage[r] \in {"CHARGED", "RELEASED", "SKIPPED"}
            => usage'[r] = usage[r] /\ charged'[r] = charged[r]]_vars

NewReplies == {r \in Runs : r \in sent' \ sent \/ (sug[r] = "none" /\ sug'[r] # "none")}

\* Ajustement 6: a reply is only proposed or sent for the last customer message,
\* still unanswered, while no human has the conversation and the AI is on; and it
\* is only sent by itself when nobody paused the conversation.
RepliesAreFresh ==
  [][\A r \in NewReplies :
       /\ Index(r) = inbound[Conv(r)]
       /\ outbound[Conv(r)] < Index(r)
       /\ handoff[Conv(r)] = NoRun
       /\ mode # "DISABLED"
       /\ r \in sent' => ~paused[Conv(r)] /\ mode = "AUTO_REPLY"]_vars

-----------------------------------------------------------------------------
(* The wallet implements the abstract account.                             *)

Account == INSTANCE CreditAccount
             WITH MaxCost <- MAX_CREDITS_PER_AI_RUN, balance <- wallet.balance,
                  held <- HeldRuns, settled <- ReleasedRuns

\* Each run holds credits at most once, always covered, and is settled at most
\* once at a bounded cost.
ImplementsCreditAccount == Account!Spec

-----------------------------------------------------------------------------
(* Liveness.                                                               *)

\* The claim of a QUEUED run, and whatever the worker that executes it does next.
Advance(r) ==
  \/ RunGeneration(r) \/ StartToolRound(r) \/ EndToolRound(r) \/ Decide(r)
  \/ ReleaseForRetry(r) \/ GenerationFails(r) \/ FinalizeFailed(r) \/ Commit(r)

\* The worker is a running process: the run it holds in memory advances, BullMQ
\* and the recovery sweep claim QUEUED runs again and again, and both sweeps run
\* on a timer.  A run may be put back to QUEUED for ever by transient errors, and
\* the sweep gives it up once it is old: it finds it QUEUED time after time, hence
\* strong fairness.  Nothing is assumed of triggers, tools, customers, agents or
\* merchants.
Fairness ==
  /\ \A r \in Runs : WF_vars(Advance(r))
  /\ WF_vars(\E r \in Runs : SweepReservation(r))
  /\ SF_vars(AbandonStaleRuns)

FairSpec == Spec /\ Fairness

\* ai-recovery 56-58, 103-105: an active run locks its conversation, so none stays
\* active for ever.
ActiveRunsEnd ==
  \A r \in Runs : run[r] \in Active ~> run[r] \in Terminal

\* The reservation of a run that ended is always given back or charged, even
\* when the run was abandoned by a bulk update.
ReservationsReturn ==
  \A r \in Runs : usage[r] = "RESERVED" ~> usage[r] \in {"CHARGED", "RELEASED"}

=============================================================================
