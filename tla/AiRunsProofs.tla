----------------------------- MODULE AiRunsProofs -----------------------------
(***************************************************************************)
(* Proofs about AiRuns, for any number of conversations, messages and      *)
(* top-ups: types; the six kinds of steps; from them the safety of runs    *)
(* and money; then what becomes of runs and credits, and the wallet as an  *)
(* implementation of the abstract account of CreditAccount.                *)
(***************************************************************************)
EXTENDS AiRuns, FiniteSetTheorems, TLAPS

-----------------------------------------------------------------------------
(* Types.                                                                  *)

\* A run in a tool round has rounds left: why EndToolRound stays within bounds.
RoundsLeft == \A r \in Runs : exec[r] = "tools" => rounds[r] < MaxToolRounds

TypeInv == TypeOK /\ RoundsLeft

\* No run is NoRun, and the null value is no run.
LEMMA NoRunIsNoRun == NoRun \notin Runs
  BY RunsAssumption DEF RunsAssumption

\* A run belongs to a conversation and has a positive index.
LEMMA RunParts ==
  ASSUME NEW r \in Runs
  PROVE  Conv(r) \in Conversations /\ Index(r) \in 1..MaxInbound
  BY DEF Runs, Conv, Index

\* computeAiRunCredits never asks for more than the reservation.
LEMMA CreditsBounded ==
  ASSUME NEW outcome, NEW n \in Nat
  PROVE  RunCredits(outcome, n) \in 0..MAX_CREDITS_PER_AI_RUN
<1>1. ToolGrid(n) \in Nat
  BY PricingAssumption DEF ToolGrid, PricingAssumption
<1> QED
  BY <1>1, PricingAssumption DEF RunCredits, PricingAssumption

\* The type of a wallet.
Wallets == [balance : Int, reserved : Int, status : WalletStatus,
            ledger : SUBSET (Directions \X WalletRefs)]

\* A movement keeps the type of the wallet.
LEMMA MovedType ==
  ASSUME NEW w \in Wallets, NEW dir \in Directions, NEW ref \in WalletRefs, NEW n \in Int
  PROVE  ApplyMovement(w, dir, ref, n) \in Wallets
<1>1. Moved(w, dir, n) \in Wallets /\ Moved(w, dir, n).ledger = w.ledger
  BY DEF Moved, Wallets, Directions
<1>2. <<dir, ref>> \in Directions \X WalletRefs
  OBVIOUS
<1> QED
  BY <1>1, <1>2 DEF ApplyMovement, Wallets

\* Releasing a reservation keeps the types of the wallet and of the usage events.
LEMMA ReleaseType ==
  ASSUME TypeOK, NEW w \in Wallets, NEW r \in Runs
  PROVE  /\ Released(w, r) \in Wallets
         /\ UsageReleased(r) \in UsageStatus
<1>1. ApplyMovement(w, "RELEASE", r, MAX_CREDITS_PER_AI_RUN) \in Wallets
  BY MovedType, PricingAssumption DEF PricingAssumption, Directions, WalletRefs
<1> QED
  BY <1>1 DEF Released, UsageReleased, TypeOK, UsageStatus

\* So does settling a run.
LEMMA SettleType ==
  ASSUME TypeOK, NEW r \in Runs, NEW d, Settle(r, d)
  PROVE  /\ wallet' \in Wallets
         /\ usage' \in [Runs -> UsageStatus]
         /\ charged' \in [Runs -> 0..MAX_CREDITS_PER_AI_RUN]
<1> DEFINE charge == EffectiveCharge(r, d)
<1>1. charge \in 0..MAX_CREDITS_PER_AI_RUN
  <2>1. tools[r] \in Nat
    BY DEF TypeOK, ToolCallBound
  <2> QED
    BY <2>1, CreditsBounded, PricingAssumption DEF EffectiveCharge, PricingAssumption
<1>2. wallet \in Wallets
  BY DEF TypeOK, Wallets
<1>3. Debited(r, d) \in Wallets
  <2>1. ApplyMovement(wallet, "DEBIT", r, charge) \in Wallets
    BY <1>1, <1>2, MovedType, PricingAssumption DEF Directions, WalletRefs, PricingAssumption
  <2> QED
    BY <1>2, <2>1 DEF Debited
<1>4. ApplyMovement(Debited(r, d), "RELEASE", r, MAX_CREDITS_PER_AI_RUN) \in Wallets
  BY <1>3, MovedType, PricingAssumption DEF Directions, WalletRefs, PricingAssumption
<1> HIDE DEF charge
<1>5. CASE usage[r] # "RESERVED"
  BY <1>2, <1>5 DEF Settle, money, TypeOK
<1>6. CASE usage[r] = "RESERVED"
  <2>1. /\ usage' = [usage EXCEPT ![r] = IF charge > 0 THEN "CHARGED" ELSE "RELEASED"]
        /\ charged' = [charged EXCEPT ![r] = charge]
        /\ wallet' = IF wallet.status = "CLOSED" THEN wallet
                     ELSE ApplyMovement(Debited(r, d), "RELEASE", r, MAX_CREDITS_PER_AI_RUN)
    BY <1>6 DEF Settle, charge
  <2> QED
    BY <1>1, <1>2, <1>4, <2>1 DEF TypeOK, UsageStatus
<1> QED
  BY <1>5, <1>6

\* The worker's own steps and the sweeps keep the types.
LEMMA TriggerKeepsTypes ==
  ASSUME TypeInv, NEW r \in Runs, Trigger(r)
  PROVE  TypeInv'
<1> USE DEF TypeInv, RoundsLeft, TypeOK, vars, conversation, artefacts, money, worker, api
<1>1. CASE ProcessTrigger(r)
  BY <1>1 DEF ProcessTrigger
<1>2. CASE CreateSkippedRun(r)
  BY <1>2 DEF CreateSkippedRun, RunStatus
<1>3. CASE CreateRunUnderLock(r)
  <2>1. CASE run[r] # "none"
    BY <1>3, <2>1 DEF CreateRunUnderLock
  <2>2. CASE run[r] = "none"
    <3>1. PICK a \in FirstActive(Conv(r)) : SupersedeAndCreate(a, r)
      BY <1>3, <2>2 DEF CreateRunUnderLock
    <3> DEFINE w == IF a = NoRun THEN wallet ELSE Released(wallet, a)
    <3>2. a = NoRun \/ a \in Runs
      BY DEF FirstActive, ActiveRuns
    <3>3. w \in Wallets
      BY <3>2, ReleaseType DEF Wallets
    <3>4. ApplyMovement(w, "RESERVE", r, MAX_CREDITS_PER_AI_RUN) \in Wallets
      BY <3>3, MovedType, PricingAssumption DEF Directions, WalletRefs, PricingAssumption
    <3>5. \A x \in Runs : UsageReleased(x) \in UsageStatus
      BY DEF UsageReleased, UsageStatus
    <3> HIDE DEF w
    <3>6. /\ run' = [x \in Runs |-> IF x = r THEN IF CanReserve(w) THEN "QUEUED" ELSE "SKIPPED"
                                    ELSE IF x = a THEN "SUPERSEDED" ELSE run[x]]
          /\ usage' = [x \in Runs |-> IF x = r THEN IF CanReserve(w) THEN "RESERVED" ELSE "SKIPPED"
                                      ELSE IF x = a THEN UsageReleased(x) ELSE usage[x]]
          /\ wallet' = IF CanReserve(w)
                       THEN ApplyMovement(w, "RESERVE", r, MAX_CREDITS_PER_AI_RUN) ELSE w
          /\ sug' = [x \in Runs |-> IF x = a /\ sug[x] = "PENDING" THEN "EXPIRED"
                                    ELSE sug[x]]
          /\ UNCHANGED <<charged, sent>>
      BY <3>1 DEF SupersedeAndCreate, w
    <3>7. wallet' \in Wallets
      BY <3>3, <3>4, <3>6
    <3>8. UNCHANGED <<conversation, tools, worker, api>>
      BY <1>3 DEF CreateRunUnderLock
    <3>9. /\ run' \in [Runs -> RunStatus]
          /\ usage' \in [Runs -> UsageStatus]
          /\ sug' \in [Runs -> SugStatus]
      BY <3>5, <3>6 DEF RunStatus, UsageStatus, SugStatus
    <3> QED
      BY <3>6, <3>7, <3>8, <3>9 DEF Wallets
  <2> QED
    BY <2>1, <2>2
<1> QED
  BY <1>1, <1>2, <1>3 DEF Trigger

\* The steps of an execution before its commit keep the types.
LEMMA ExecutionKeepsTypes ==
  ASSUME TypeInv, NEW r \in Runs, Execute(r), ~Commit(r)
  PROVE  TypeInv'
<1> USE RunParts DEF TypeInv, RoundsLeft, TypeOK, vars, conversation, artefacts, money, worker, api,
        RunStatus, ExecPhase, Decisions
<1>0. MaxToolRounds \in Nat
  BY RunsAssumption DEF RunsAssumption
<1>1. CASE RunGeneration(r)
  BY <1>1 DEF RunGeneration
<1>2. CASE StartToolRound(r)
  BY <1>0, <1>2 DEF StartToolRound, TransitionActive, StopExecution
<1>3. CASE ToolCall(r)
  BY <1>3 DEF ToolCall, ToolSucceeded, ToolCallBound
<1>4. CASE HandoffTool(r)
  BY <1>4 DEF HandoffTool, OpenHandoff, ToolSucceeded, ToolCallBound
<1>5. CASE HandoffToolTimesOut(r)
  BY <1>5 DEF HandoffToolTimesOut
<1>6. CASE EndToolRound(r)
  BY <1>0, <1>6 DEF EndToolRound, TransitionActive, StopExecution
<1>7. CASE Decide(r)
  BY <1>7 DEF Decide
<1>8. CASE ReleaseForRetry(r)
  BY <1>0, <1>8 DEF ReleaseForRetry, StopExecution, Executing
<1>9. CASE GenerationFails(r)
  BY <1>9 DEF GenerationFails
<1>10. CASE FinalizeFailed(r)
  <2>1. CASE run[r] \in Executing /\ ~SettleThrows(r, "FAILED")
    BY <1>0, <1>10, <2>1, SettleType DEF FinalizeFailed, StopExecution, Wallets
  <2>2. CASE ~(run[r] \in Executing /\ ~SettleThrows(r, "FAILED"))
    BY <1>0, <1>10, <2>2 DEF FinalizeFailed, StopExecution
  <2> QED
    BY <2>1, <2>2
<1> QED
  BY <1>1, <1>2, <1>3, <1>4, <1>5, <1>6, <1>7, <1>8, <1>9, <1>10 DEF Execute

\* Every way a commit ends keeps the types.
LEMMA CommitKeepsTypes ==
  ASSUME TypeInv, NEW r \in Runs, Commit(r)
  PROVE  TypeInv'
<1> USE RunParts DEF TypeInv, RoundsLeft, TypeOK, vars, conversation, artefacts, money, worker, api,
        RunStatus, ExecPhase, Decisions
<1>0. MaxToolRounds \in Nat
  BY RunsAssumption DEF RunsAssumption
<1>1. CASE CommitObsolete(r)
  <2>1. wallet \in Wallets
    BY DEF Wallets
  <2>2. Released(wallet, r) \in Wallets /\ UsageReleased(r) \in UsageStatus
    BY <2>1, ReleaseType
  <2>3. CASE run[r] \in Executing
    BY <1>0, <1>1, <2>2, <2>3 DEF CommitObsolete, StopExecution, Wallets
  <2>4. CASE run[r] \notin Executing
    BY <1>0, <1>1, <2>4 DEF CommitObsolete, StopExecution
  <2> QED
    BY <2>3, <2>4
<1>2. CASE CommitLost(r)
  BY <1>0, <1>2 DEF CommitLost, StopExecution
<1>3. CASE CommitThrows(r)
  BY <1>3 DEF CommitThrows
<1>4. ASSUME NEW d, CommitGate(r, d)
      PROVE  /\ run' \in [Runs -> RunStatus]
             /\ wallet' \in Wallets
             /\ usage' \in [Runs -> UsageStatus]
             /\ charged' \in [Runs -> 0..MAX_CREDITS_PER_AI_RUN]
             /\ exec' \in [Runs -> ExecPhase]
             /\ rounds' \in [Runs -> 0..MaxToolRounds]
             /\ RoundsLeft'
             /\ UNCHANGED <<tools, checked, late, api>>
  BY <1>0, <1>4, SettleType DEF CommitGate, StopExecution
<1>5. CASE CommitBlockedByHandoff(r)
  BY <1>4, <1>5 DEF CommitBlockedByHandoff, Wallets
<1>6. CASE CommitSuggestion(r)
  BY <1>4, <1>6 DEF CommitSuggestion, Wallets, SugStatus
<1>7. CASE CommitAutoReply(r)
  BY <1>4, <1>7 DEF CommitAutoReply, Wallets
<1>8. CASE CommitHandoff(r)
  BY <1>4, <1>8 DEF CommitHandoff, OpenHandoff, Wallets
<1>9. CASE CommitNoReply(r)
  BY <1>4, <1>9 DEF CommitNoReply, Wallets
<1> QED
  BY <1>1, <1>2, <1>3, <1>5, <1>6, <1>7, <1>8, <1>9 DEF Commit

\* So do the steps of agents.
LEMMA AgentKeepsTypes ==
  ASSUME TypeInv, NEW c \in Conversations, AgentStep(c)
  PROVE  TypeInv'
<1> USE RunParts DEF TypeInv, RoundsLeft, TypeOK, vars, conversation, artefacts, money, worker, api
<1>1. CASE HumanReply(c)
  BY <1>1 DEF HumanReply, AgentOutbound
<1>2. CASE SetPaused(c)
  BY <1>2 DEF SetPaused
<1>3. CASE RegenerateExpires(c)
  <2>1. FirstActive(c) \subseteq Runs \cup {NoRun}
    BY DEF FirstActive, ActiveRuns
  <2> QED
    BY <1>3, <2>1 DEF RegenerateExpires, SugStatus
<1>4. CASE RegenerateSupersedes(c)
  <2>1. regen[c] \in Runs
    BY <1>4 DEF RegenerateSupersedes
  <2>2. wallet \in Wallets
    BY DEF Wallets
  <2>3. Released(wallet, regen[c]) \in Wallets /\ UsageReleased(regen[c]) \in UsageStatus
    BY <2>1, <2>2, ReleaseType
  <2>4. CASE run[regen[c]] \in Active
    BY <1>4, <2>1, <2>3, <2>4 DEF RegenerateSupersedes, RunStatus, Wallets
  <2>5. CASE run[regen[c]] \notin Active
    BY <1>4, <2>5 DEF RegenerateSupersedes
  <2> QED
    BY <2>4, <2>5
<1>5. ASSUME NEW r \in Runs, SuggestionStep(r)
      PROVE  TypeInv'
  <2>1. CASE AcceptChecked(r)
    BY <2>1 DEF AcceptChecked
  <2>2. CASE AcceptSends(r)
    BY <2>2 DEF AcceptSends, AgentOutbound, SugStatus
  <2>3. CASE AcceptConfirmed(r)
    BY <2>3 DEF AcceptConfirmed, AgentOutbound, SugStatus
  <2>4. CASE Reject(r)
    BY <2>4 DEF Reject, SugStatus
  <2> QED
    BY <1>5, <2>1, <2>2, <2>3, <2>4 DEF SuggestionStep
<1> QED
  BY <1>1, <1>2, <1>3, <1>4, <1>5 DEF AgentStep

\* Every step keeps the types.
LEMMA StepKeepsTypes == TypeInv /\ [Next]_vars => TypeInv'
<1> SUFFICES ASSUME TypeInv, [Next]_vars
             PROVE  TypeInv'
  OBVIOUS
<1>1. CASE \E r \in Runs : WorkerStep(r)
  <2> PICK r \in Runs : WorkerStep(r)
    BY <1>1
  <2>1. CASE Trigger(r)
    BY <2>1, TriggerKeepsTypes
  <2>2. CASE Execute(r)
    BY <2>2, ExecutionKeepsTypes, CommitKeepsTypes
  <2> USE RunParts DEF TypeInv, RoundsLeft, TypeOK, vars, conversation, artefacts, money, worker, api
  <2>3. CASE LateHandoff(r)
    BY <2>3 DEF LateHandoff, OpenHandoff
  <2>4. CASE SweepReservation(r)
    <3>1. wallet \in Wallets
      BY DEF Wallets
    <3> QED
      BY <2>4, <3>1, ReleaseType DEF SweepReservation, Wallets
  <2> QED
    BY <2>1, <2>2, <2>3, <2>4 DEF WorkerStep
<1>2. CASE \E c \in Attended : AgentStep(c)
  BY <1>2, AgentKeepsTypes, RunsAssumption DEF RunsAssumption
<1> USE DEF TypeInv, RoundsLeft, TypeOK, vars, conversation, artefacts, money, worker, api
<1>3. CASE \E c \in Conversations : ReceiveInbound(c)
  <2>1. MaxInbound \in Nat
    BY RunsAssumption DEF RunsAssumption
  <2> QED
    BY <1>3, <2>1 DEF ReceiveInbound
<1>4. CASE SetMode
  BY <1>4 DEF SetMode
<1>5. CASE SetWalletStatus
  BY <1>5, RunsAssumption DEF SetWalletStatus, RunsAssumption
<1>6. CASE \E t \in TopUps : CreditTopUp(t)
  <2> PICK t \in TopUps : CreditTopUp(t)
    BY <1>6
  <2>1. wallet \in Wallets /\ t \in WalletRefs /\ "CREDIT" \in Directions /\ TopUpCredits \in Int
    BY RunsAssumption DEF Wallets, WalletRefs, Directions, RunsAssumption
  <2>2. ApplyMovement(wallet, "CREDIT", t, TopUpCredits) \in Wallets
    BY <2>1, MovedType
  <2> QED
    BY <2>2 DEF CreditTopUp, Wallets
<1>7. CASE AbandonStaleRuns
  BY <1>7 DEF AbandonStaleRuns, RunStatus
<1>8. CASE Crash
  BY <1>8, RunsAssumption DEF Crash, ExecPhase, RunsAssumption
<1>9. CASE UNCHANGED vars
  BY <1>9
<1> QED
  BY <1>1, <1>2, <1>3, <1>4, <1>5, <1>6, <1>7, <1>8, <1>9 DEF Next

\* Initially every type holds.
LEMMA InitTypes == Init => TypeInv
  BY RunsAssumption, PricingAssumption
     DEF Init, TypeInv, RoundsLeft, TypeOK, RunsAssumption, PricingAssumption, RunStatus, SugStatus,
         WalletStatus, UsageStatus, ToolCallBound, ExecPhase

\* Type correctness: every variable keeps a value of its type, for any number of
\* conversations, messages and tool rounds.
THEOREM TypeCorrect == Spec => []TypeOK
<1>1. TypeInv => TypeOK
  BY DEF TypeInv
<1> QED
  BY <1>1, InitTypes, StepKeepsTypes, PTL DEF Spec

-----------------------------------------------------------------------------
(* What a step may do to runs and money: six kinds of steps, whatever the  *)
(* action.  The proofs of the safety properties only look at these.        *)

\* Money stands still; runs are skipped, move on, go back or are abandoned.
RunsMove ==
  /\ \A x \in Runs :
       \/ run'[x] = run[x]
       \/ run[x] = "none" /\ run'[x] = "SKIPPED"
       \/ run[x] \in Active /\ run'[x] \in Active \cup {"FAILED"}
  /\ UNCHANGED money

Creates(r, a) ==
  /\ run[r] = "none"
  /\ a \in FirstActive(Conv(r))
  /\ SupersedeAndCreate(a, r)

GivesBack(r) ==
  /\ \/ run[r] \in Active /\ run' = [run EXCEPT ![r] = "SUPERSEDED"]
     \/ run[r] \in Terminal /\ UNCHANGED run
  /\ usage' = [usage EXCEPT ![r] = UsageReleased(r)]
  /\ wallet' = Released(wallet, r)
  /\ UNCHANGED charged

Settles(r, d) ==
  /\ run[r] \in Executing
  /\ ~SettleThrows(r, d)
  /\ \/ d = "FAILED" /\ run' = [run EXCEPT ![r] = "FAILED"]
     \/ d \in Decisions /\ run' = [run EXCEPT ![r] = "SUCCEEDED"]
  /\ Settle(r, d)

Switches ==
  /\ \E to \in WalletStatus :
       /\ CanTransitionWalletStatus(wallet.status, to)
       /\ wallet' = [wallet EXCEPT !.status = to]
  /\ UNCHANGED <<run, usage, charged>>

Credits(t) ==
  /\ ~MovementThrows(wallet, "CREDIT", t, TopUpCredits)
  /\ wallet' = ApplyMovement(wallet, "CREDIT", t, TopUpCredits)
  /\ UNCHANGED <<run, usage, charged>>

StepKind ==
  \/ RunsMove
  \/ \E r \in Runs : \E a \in Runs \cup {NoRun} : Creates(r, a)
  \/ \E r \in Runs : GivesBack(r)
  \/ \E r \in Runs : \E d \in Decisions \cup {"FAILED"} : Settles(r, d)
  \/ Switches
  \/ \E t \in TopUps : Credits(t)

\* A delivery of a trigger creates a run, or leaves money alone.
LEMMA TriggerKind ==
  ASSUME TypeInv, NEW r \in Runs, Trigger(r)
  PROVE  StepKind
<1>1. CASE ProcessTrigger(r)
  BY <1>1 DEF ProcessTrigger, StepKind, RunsMove
<1>2. CASE CreateSkippedRun(r)
  BY <1>2 DEF CreateSkippedRun, StepKind, RunsMove, TypeInv, TypeOK
<1>3. CASE CreateRunUnderLock(r)
  <2>1. CASE run[r] # "none"
    BY <1>3, <2>1 DEF CreateRunUnderLock, StepKind, RunsMove
  <2>2. CASE run[r] = "none"
    <3>1. PICK a \in FirstActive(Conv(r)) : SupersedeAndCreate(a, r)
      BY <1>3, <2>2 DEF CreateRunUnderLock
    <3>2. a \in Runs \cup {NoRun}
      BY DEF FirstActive, ActiveRuns
    <3>3. Creates(r, a)
      BY <2>2, <3>1 DEF Creates
    <3> QED
      BY <3>2, <3>3 DEF StepKind
  <2> QED
    BY <2>1, <2>2
<1> QED
  BY <1>1, <1>2, <1>3 DEF Trigger

\* Before its commit an execution only moves its run, unless it ends as failed.
LEMMA ExecutionKind ==
  ASSUME TypeInv, NEW r \in Runs, Execute(r), ~Commit(r)
  PROVE  StepKind
<1> USE DEF TypeInv, TypeOK, Active, Executing, money
<1>1. CASE RunGeneration(r)
  BY <1>1 DEF RunGeneration, StepKind, RunsMove
<1>2. CASE StartToolRound(r)
  BY <1>2 DEF StartToolRound, TransitionActive, StepKind, RunsMove
<1>3. CASE ToolCall(r)
  BY <1>3 DEF ToolCall, StepKind, RunsMove
<1>4. CASE HandoffTool(r)
  BY <1>4 DEF HandoffTool, StepKind, RunsMove
<1>5. CASE HandoffToolTimesOut(r)
  BY <1>5 DEF HandoffToolTimesOut, StepKind, RunsMove
<1>6. CASE EndToolRound(r)
  BY <1>6 DEF EndToolRound, TransitionActive, StepKind, RunsMove
<1>7. CASE Decide(r)
  BY <1>7 DEF Decide, StepKind, RunsMove
<1>8. CASE ReleaseForRetry(r)
  BY <1>8 DEF ReleaseForRetry, StepKind, RunsMove
<1>9. CASE GenerationFails(r)
  BY <1>9 DEF GenerationFails, StepKind, RunsMove
<1>10. CASE FinalizeFailed(r)
  <2>1. CASE run[r] \in Executing /\ ~SettleThrows(r, "FAILED")
    <3>1. Settles(r, "FAILED")
      BY <1>10, <2>1 DEF FinalizeFailed, Settles
    <3> QED
      BY <3>1 DEF StepKind
  <2>2. CASE ~(run[r] \in Executing /\ ~SettleThrows(r, "FAILED"))
    BY <1>10, <2>2 DEF FinalizeFailed, StepKind, RunsMove
  <2> QED
    BY <2>1, <2>2
<1> QED
  BY <1>1, <1>2, <1>3, <1>4, <1>5, <1>6, <1>7, <1>8, <1>9, <1>10 DEF Execute

\* A commit settles its run, gives its credits back, or changes no money.
LEMMA CommitKind ==
  ASSUME TypeInv, NEW r \in Runs, Commit(r)
  PROVE  StepKind
<1>1. CASE CommitObsolete(r)
  <2>1. CASE run[r] \in Executing
    <3>1. GivesBack(r)
      BY <1>1, <2>1 DEF CommitObsolete, GivesBack, Executing, Active
    <3> QED
      BY <3>1 DEF StepKind
  <2>2. CASE run[r] \notin Executing
    BY <1>1, <2>2 DEF CommitObsolete, StepKind, RunsMove
  <2> QED
    BY <2>1, <2>2
<1>2. CASE CommitLost(r)
  BY <1>2 DEF CommitLost, StepKind, RunsMove
<1>3. CASE CommitThrows(r)
  BY <1>3 DEF CommitThrows, StepKind, RunsMove
<1>4. ASSUME NEW d \in Decisions, CommitGate(r, d)
      PROVE  StepKind
  <2>1. Settles(r, d)
    BY <1>4 DEF CommitGate, Settles, Executing
  <2> QED
    BY <2>1 DEF StepKind
<1> QED
  BY <1>1, <1>2, <1>3, <1>4
     DEF Commit, CommitBlockedByHandoff, CommitSuggestion, CommitAutoReply, CommitHandoff,
         CommitNoReply, Decisions

\* Of what agents do, only a forced regeneration may give credits back.
LEMMA AgentKind ==
  ASSUME TypeInv, NEW c \in Conversations, AgentStep(c)
  PROVE  StepKind
<1>1. CASE RegenerateSupersedes(c)
  <2>1. regen[c] \in Runs
    BY <1>1 DEF RegenerateSupersedes, TypeInv, TypeOK
  <2>2. CASE run[regen[c]] \in Active
    <3>1. GivesBack(regen[c])
      BY <1>1, <2>2 DEF RegenerateSupersedes, GivesBack
    <3> QED
      BY <2>1, <3>1 DEF StepKind
  <2>3. CASE run[regen[c]] \notin Active
    BY <1>1, <2>3 DEF RegenerateSupersedes, StepKind, RunsMove
  <2> QED
    BY <2>2, <2>3
<1>2. CASE HumanReply(c) \/ SetPaused(c) \/ RegenerateExpires(c)
  BY <1>2 DEF HumanReply, SetPaused, RegenerateExpires, StepKind, RunsMove
<1>3. ASSUME NEW r \in Runs, SuggestionStep(r)
      PROVE  StepKind
  BY <1>3 DEF SuggestionStep, AcceptChecked, AcceptSends, AcceptConfirmed, Reject,
              StepKind, RunsMove
<1> QED
  BY <1>1, <1>2, <1>3 DEF AgentStep

\* Every step is of one of the six kinds.
LEMMA EveryStepHasAKind == TypeInv /\ [Next]_vars => StepKind
<1> SUFFICES ASSUME TypeInv, [Next]_vars
             PROVE  StepKind
  OBVIOUS
<1>1. ASSUME NEW r \in Runs, WorkerStep(r)
      PROVE  StepKind
  <2>1. CASE Trigger(r)
    BY <2>1, TriggerKind
  <2>2. CASE Execute(r)
    BY <2>2, ExecutionKind, CommitKind
  <2>3. CASE LateHandoff(r)
    BY <2>3 DEF LateHandoff, StepKind, RunsMove
  <2>4. CASE SweepReservation(r)
    <3>1. GivesBack(r)
      BY <2>4 DEF SweepReservation, GivesBack
    <3> QED
      BY <3>1 DEF StepKind
  <2> QED
    BY <1>1, <2>1, <2>2, <2>3, <2>4 DEF WorkerStep
<1>2. ASSUME NEW c \in Attended, AgentStep(c)
      PROVE  StepKind
  BY <1>2, AgentKind, RunsAssumption DEF RunsAssumption
<1>3. CASE \E c \in Conversations : ReceiveInbound(c)
  BY <1>3 DEF ReceiveInbound, StepKind, RunsMove
<1>4. CASE SetMode
  BY <1>4 DEF SetMode, StepKind, RunsMove
<1>5. CASE SetWalletStatus
  BY <1>5, RunsAssumption DEF SetWalletStatus, StepKind, Switches, RunsAssumption
<1>6. CASE \E t \in TopUps : CreditTopUp(t)
  BY <1>6 DEF CreditTopUp, StepKind, Credits
<1>7. CASE AbandonStaleRuns
  BY <1>7 DEF AbandonStaleRuns, StepKind, RunsMove, Active
<1>8. CASE Crash
  BY <1>8 DEF Crash, StepKind, RunsMove
<1>9. CASE UNCHANGED vars
  BY <1>9 DEF vars, StepKind, RunsMove, money
<1> QED
  BY <1>1, <1>2, <1>3, <1>4, <1>5, <1>6, <1>7, <1>8, <1>9 DEF Next

-----------------------------------------------------------------------------
(* Runs and usage events.                                                  *)

\* A trigger without a run has no usage event yet, so a new run starts afresh.
NoEventBeforeRun == \A r \in Runs : run[r] = "none" => usage[r] = "none"

RunInv ==
  /\ OneActiveRunPerConversation
  /\ ActiveRunIsFunded
  /\ NoEventBeforeRun

\* What createRunUnderLock leaves in runs and usage events.
LEMMA CreatesEffect ==
  ASSUME NEW r \in Runs, NEW a \in Runs \cup {NoRun}, Creates(r, a)
  PROVE  LET w == IF a = NoRun THEN wallet ELSE Released(wallet, a) IN
         /\ run' = [x \in Runs |-> IF x = r THEN IF CanReserve(w) THEN "QUEUED" ELSE "SKIPPED"
                                   ELSE IF x = a THEN "SUPERSEDED" ELSE run[x]]
         /\ usage' = [x \in Runs |-> IF x = r THEN IF CanReserve(w) THEN "RESERVED" ELSE "SKIPPED"
                                     ELSE IF x = a THEN UsageReleased(x) ELSE usage[x]]
         /\ wallet' = IF CanReserve(w)
                      THEN ApplyMovement(w, "RESERVE", r, MAX_CREDITS_PER_AI_RUN) ELSE w
         /\ UNCHANGED charged
  BY DEF Creates, SupersedeAndCreate

\* The run that is superseded is the only active one of the conversation.
LEMMA SupersedesTheActiveRun ==
  ASSUME TypeOK, RunInv, NEW r \in Runs, NEW a \in Runs \cup {NoRun}, Creates(r, a)
  PROVE  /\ a = NoRun \/ (a \in Runs /\ run[a] \in Active /\ Conv(a) = Conv(r) /\ a # r)
         /\ \A x \in Runs : run[x] \in Active /\ Conv(x) = Conv(r) => x = a
<1>1. CASE ActiveRuns(Conv(r)) = {}
  <2>1. a = NoRun
    BY <1>1 DEF Creates, FirstActive
  <2>2. \A x \in Runs : ~(run[x] \in Active /\ Conv(x) = Conv(r))
    BY <1>1 DEF ActiveRuns
  <2> QED
    BY <2>1, <2>2
<1>2. CASE ActiveRuns(Conv(r)) # {}
  <2>1. a \in ActiveRuns(Conv(r))
    BY <1>2 DEF Creates, FirstActive
  <2>2. run[a] \in Active /\ Conv(a) = Conv(r) /\ a \in Runs
    BY <2>1 DEF ActiveRuns
  <2> QED
    BY <2>2 DEF RunInv, OneActiveRunPerConversation, Creates, Active
<1> QED
  BY <1>1, <1>2

\* How a settlement changes runs and usage events.
LEMMA SettlesEffect ==
  ASSUME TypeOK, NEW r \in Runs, NEW d \in Decisions \cup {"FAILED"}, Settles(r, d)
  PROVE  /\ run' = [run EXCEPT ![r] = IF d = "FAILED" THEN "FAILED" ELSE "SUCCEEDED"]
         /\ usage[r] = "RESERVED" =>
              /\ usage' = [usage EXCEPT ![r] = IF EffectiveCharge(r, d) > 0
                                               THEN "CHARGED" ELSE "RELEASED"]
              /\ charged' = [charged EXCEPT ![r] = EffectiveCharge(r, d)]
              /\ wallet' = IF wallet.status = "CLOSED" THEN wallet
                           ELSE ApplyMovement(Debited(r, d), "RELEASE", r,
                                              MAX_CREDITS_PER_AI_RUN)
         /\ usage[r] # "RESERVED" => UNCHANGED money
  BY DEF Settles, Settle, Decisions

\* No kind of step breaks what relates runs and usage events.
LEMMA RunInvKept ==
  ASSUME TypeOK, RunInv, StepKind
  PROVE  RunInv'
<1> USE DEF RunInv, TypeOK
<1>1. CASE RunsMove
  BY <1>1 DEF RunsMove, money, OneActiveRunPerConversation, ActiveRunIsFunded,
              NoEventBeforeRun, Active
<1>2. ASSUME NEW r \in Runs, NEW a \in Runs \cup {NoRun}, Creates(r, a)
      PROVE  RunInv'
  <2> DEFINE w == IF a = NoRun THEN wallet ELSE Released(wallet, a)
  <2> DEFINE ok == CanReserve(w)
  <2>1. /\ run' = [x \in Runs |-> IF x = r THEN IF ok THEN "QUEUED" ELSE "SKIPPED"
                                  ELSE IF x = a THEN "SUPERSEDED" ELSE run[x]]
        /\ usage' = [x \in Runs |-> IF x = r THEN IF ok THEN "RESERVED" ELSE "SKIPPED"
                                    ELSE IF x = a THEN UsageReleased(x) ELSE usage[x]]
    BY <1>2, CreatesEffect
  <2>2. /\ a = NoRun \/ (a \in Runs /\ run[a] \in Active /\ Conv(a) = Conv(r) /\ a # r)
        /\ \A x \in Runs : run[x] \in Active /\ Conv(x) = Conv(r) => x = a
    BY <1>2, SupersedesTheActiveRun
  <2> HIDE DEF ok
  <2>3. OneActiveRunPerConversation'
    BY <2>1, <2>2 DEF OneActiveRunPerConversation, Active
  <2>4. ActiveRunIsFunded'
    BY <2>1, <2>2 DEF ActiveRunIsFunded, Active
  <2>5. NoEventBeforeRun'
    BY <2>1, <2>2 DEF NoEventBeforeRun
  <2> QED
    BY <2>3, <2>4, <2>5
<1>3. ASSUME NEW r \in Runs, GivesBack(r)
      PROVE  RunInv'
  BY <1>3 DEF GivesBack, UsageReleased, OneActiveRunPerConversation, ActiveRunIsFunded,
              NoEventBeforeRun, Active, Terminal
<1>4. ASSUME NEW r \in Runs, NEW d \in Decisions \cup {"FAILED"}, Settles(r, d)
      PROVE  RunInv'
  <2>1. run' = [run EXCEPT ![r] = IF d = "FAILED" THEN "FAILED" ELSE "SUCCEEDED"]
    BY <1>4, SettlesEffect
  <2>2. \A x \in Runs : x # r => usage'[x] = usage[x]
    BY <1>4, SettlesEffect DEF money
  <2> QED
    BY <2>1, <2>2 DEF OneActiveRunPerConversation, ActiveRunIsFunded, NoEventBeforeRun, Active
<1>5. CASE Switches
  BY <1>5 DEF Switches, OneActiveRunPerConversation, ActiveRunIsFunded, NoEventBeforeRun
<1>6. ASSUME NEW t \in TopUps, Credits(t)
      PROVE  RunInv'
  BY <1>6 DEF Credits, OneActiveRunPerConversation, ActiveRunIsFunded, NoEventBeforeRun
<1> QED
  BY <1>1, <1>2, <1>3, <1>4, <1>5, <1>6 DEF StepKind

-----------------------------------------------------------------------------
(* What the movements of a run do to the wallet.                           *)

MoneyInv ==
  /\ TypeOK
  /\ RunInv
  /\ LedgerMatchesUsage
  /\ ReservedIsHeldAndCovered

\* A movement not yet in the ledger is carried out and written there.
LEMMA FreshMovement ==
  ASSUME NEW w \in Wallets, NEW dir \in Directions, NEW ref \in WalletRefs, NEW n \in Int,
         <<dir, ref>> \notin w.ledger
  PROVE  LET v == ApplyMovement(w, dir, ref, n) IN
         /\ v \in Wallets
         /\ v.ledger = w.ledger \cup {<<dir, ref>>}
         /\ v.status = w.status
         /\ v.balance = CASE dir = "CREDIT" -> w.balance + n
                          [] dir = "DEBIT"  -> w.balance - n
                          [] OTHER          -> w.balance
         /\ v.reserved = CASE dir = "RESERVE" -> w.reserved + n
                           [] dir = "RELEASE" -> w.reserved - n
                           [] OTHER           -> w.reserved
         /\ BalancesValid(v) <=> BalancesValid(Moved(w, dir, n))
<1>1. Moved(w, dir, n) \in Wallets /\ Moved(w, dir, n).ledger = w.ledger
  BY DEF Moved, Wallets, Directions
<1>2. ApplyMovement(w, dir, ref, n) = [Moved(w, dir, n) EXCEPT !.ledger = w.ledger \cup {<<dir, ref>>}]
  BY <1>1 DEF ApplyMovement, Wallets
<1>3. ApplyMovement(w, dir, ref, n) \in Wallets
  BY MovedType
<1>4. CASE dir = "CREDIT"
  BY <1>1, <1>2, <1>3, <1>4 DEF Moved, Wallets, BalancesValid
<1>5. CASE dir = "DEBIT"
  BY <1>1, <1>2, <1>3, <1>5 DEF Moved, Wallets, BalancesValid
<1>6. CASE dir = "RESERVE"
  BY <1>1, <1>2, <1>3, <1>6 DEF Moved, Wallets, BalancesValid
<1>7. CASE dir = "RELEASE"
  BY <1>1, <1>2, <1>3, <1>7 DEF Moved, Wallets, BalancesValid
<1> QED
  BY <1>4, <1>5, <1>6, <1>7 DEF Directions

\* Releasing the reservation of a run of an open wallet.
LEMMA ReleasedMoney ==
  ASSUME TypeOK, LedgerMatchesUsage, NEW r \in Runs,
         usage[r] = "RESERVED", wallet.status # "CLOSED"
  PROVE  /\ Released(wallet, r) \in Wallets
         /\ Released(wallet, r).ledger = wallet.ledger \cup {<<"RELEASE", r>>}
         /\ Released(wallet, r).status = wallet.status
         /\ Released(wallet, r).balance = wallet.balance
         /\ Released(wallet, r).reserved = wallet.reserved - MAX_CREDITS_PER_AI_RUN
         /\ r \in HeldRuns
<1>1. /\ <<"RELEASE", r>> \notin wallet.ledger
      /\ <<"RESERVE", r>> \in wallet.ledger
  BY DEF LedgerMatchesUsage
<1>2. /\ wallet \in Wallets /\ "RELEASE" \in Directions /\ r \in WalletRefs
      /\ MAX_CREDITS_PER_AI_RUN \in Int
  BY PricingAssumption DEF TypeOK, Wallets, Directions, WalletRefs, PricingAssumption
<1>3. Released(wallet, r) = ApplyMovement(wallet, "RELEASE", r, MAX_CREDITS_PER_AI_RUN)
  BY DEF Released
<1> QED
  BY <1>1, <1>2, <1>3, FreshMovement DEF HeldRuns

\* There is nothing to release otherwise.
LEMMA NothingReleased ==
  ASSUME NEW r, usage[r] # "RESERVED" \/ wallet.status = "CLOSED"
  PROVE  Released(wallet, r) = wallet
  BY DEF Released

\* Settling a run that holds a reservation of an open wallet.
LEMMA SettlesMoney ==
  ASSUME TypeOK, LedgerMatchesUsage, NEW r \in Runs, NEW d \in Decisions \cup {"FAILED"},
         Settles(r, d), usage[r] = "RESERVED", wallet.status # "CLOSED"
  PROVE  /\ EffectiveCharge(r, d) \in 0..MAX_CREDITS_PER_AI_RUN
         /\ wallet'.ledger = wallet.ledger \cup {<<"RELEASE", r>>}
              \cup (IF EffectiveCharge(r, d) > 0 THEN {<<"DEBIT", r>>} ELSE {})
         /\ wallet'.status = wallet.status
         /\ wallet'.balance = wallet.balance - EffectiveCharge(r, d)
         /\ wallet'.reserved = wallet.reserved - MAX_CREDITS_PER_AI_RUN
         /\ BalancesValid(wallet')
         /\ r \in HeldRuns
<1> DEFINE charge == EffectiveCharge(r, d)
<1> DEFINE w == Debited(r, d)
<1>1. charge \in 0..MAX_CREDITS_PER_AI_RUN
  <2>1. tools[r] \in Nat
    BY DEF TypeOK, ToolCallBound
  <2> QED
    BY <2>1, CreditsBounded, PricingAssumption DEF EffectiveCharge, PricingAssumption
<1>2. /\ <<"RELEASE", r>> \notin wallet.ledger
      /\ <<"DEBIT", r>> \notin wallet.ledger
      /\ <<"RESERVE", r>> \in wallet.ledger
  BY DEF LedgerMatchesUsage
<1>3. /\ wallet \in Wallets /\ r \in WalletRefs
      /\ "RELEASE" \in Directions /\ "DEBIT" \in Directions
      /\ MAX_CREDITS_PER_AI_RUN \in Int
  BY PricingAssumption DEF TypeOK, Wallets, Directions, WalletRefs, PricingAssumption
<1>4. /\ wallet' = ApplyMovement(w, "RELEASE", r, MAX_CREDITS_PER_AI_RUN)
      /\ ~MovementThrows(w, "RELEASE", r, MAX_CREDITS_PER_AI_RUN)
  BY SettlesEffect DEF Settles, SettleThrows
<1>5. /\ w \in Wallets
      /\ w.ledger = wallet.ledger \cup (IF charge > 0 THEN {<<"DEBIT", r>>} ELSE {})
      /\ w.status = wallet.status
      /\ w.balance = wallet.balance - charge
      /\ w.reserved = wallet.reserved
  <2>1. CASE charge = 0
    BY <1>3, <2>1 DEF Debited, Wallets
  <2>2. CASE charge > 0
    <3>1. w = ApplyMovement(wallet, "DEBIT", r, charge) /\ charge \in Int
      BY <1>1, <2>2, PricingAssumption DEF Debited, PricingAssumption
    <3> QED
      BY <1>2, <1>3, <2>2, <3>1, FreshMovement
  <2> QED
    BY <1>1, <2>1, <2>2, PricingAssumption DEF PricingAssumption
<1>6. <<"RELEASE", r>> \notin w.ledger
  BY <1>2, <1>5
<1>7. BalancesValid(Moved(w, "RELEASE", MAX_CREDITS_PER_AI_RUN))
  BY <1>4, <1>6 DEF MovementThrows
<1> HIDE DEF charge, w
<1>8. /\ wallet'.ledger = w.ledger \cup {<<"RELEASE", r>>}
      /\ wallet'.status = w.status
      /\ wallet'.balance = w.balance
      /\ wallet'.reserved = w.reserved - MAX_CREDITS_PER_AI_RUN
      /\ BalancesValid(wallet')
  BY <1>3, <1>4, <1>5, <1>6, <1>7, FreshMovement
<1>9. r \in HeldRuns
  BY <1>2 DEF HeldRuns
<1> QED
  BY <1>1, <1>5, <1>8, <1>9 DEF charge

\* Whether superseding run a gives credits back.
Frees(a) == a # NoRun /\ wallet.status # "CLOSED"

\* The wallet once the superseded run is released, before the new one reserves.
Freed(a) == IF a = NoRun THEN wallet ELSE Released(wallet, a)

\* What superseding a run returns to the wallet.
LEMMA FreedMoney ==
  ASSUME TypeOK, RunInv, LedgerMatchesUsage, NEW r \in Runs, NEW a \in Runs \cup {NoRun}, Creates(r, a)
  PROVE  /\ Freed(a) \in Wallets
         /\ Freed(a).ledger = wallet.ledger \cup (IF Frees(a) THEN {<<"RELEASE", a>>} ELSE {})
         /\ Freed(a).status = wallet.status
         /\ Freed(a).balance = wallet.balance
         /\ Freed(a).reserved = wallet.reserved
                                  - (IF Frees(a) THEN MAX_CREDITS_PER_AI_RUN ELSE 0)
         /\ Frees(a) => a \in HeldRuns /\ usage[a] = "RESERVED" /\ a # r
<1>1. wallet \in Wallets /\ MAX_CREDITS_PER_AI_RUN \in Int
  BY PricingAssumption DEF TypeOK, Wallets, PricingAssumption
<1>2. CASE a = NoRun
  BY <1>1, <1>2 DEF Freed, Frees, Wallets
<1>3. CASE a # NoRun
  <2>1. a \in Runs /\ run[a] \in Active /\ a # r
    BY <1>3, SupersedesTheActiveRun
  <2>2. usage[a] = "RESERVED"
    BY <2>1 DEF RunInv, ActiveRunIsFunded
  <2>3. CASE wallet.status = "CLOSED"
    BY <1>1, <1>3, <2>3, NothingReleased DEF Freed, Frees, Wallets
  <2>4. CASE wallet.status # "CLOSED"
    BY <1>3, <2>1, <2>2, <2>4, ReleasedMoney DEF Freed, Frees
  <2> QED
    BY <2>3, <2>4
<1> QED
  BY <1>2, <1>3

\* Creating a run reserves for it when the wallet allows it.
LEMMA CreatesMoney ==
  ASSUME TypeOK, RunInv, LedgerMatchesUsage, NEW r \in Runs, NEW a \in Runs \cup {NoRun}, Creates(r, a)
  PROVE  LET ok == CanReserve(Freed(a)) IN
         /\ wallet'.ledger = Freed(a).ledger \cup (IF ok THEN {<<"RESERVE", r>>} ELSE {})
         /\ wallet'.status = wallet.status
         /\ wallet'.balance = wallet.balance
         /\ wallet'.reserved = Freed(a).reserved + (IF ok THEN MAX_CREDITS_PER_AI_RUN ELSE 0)
         /\ ok => wallet'.reserved <= wallet'.balance
         /\ r \notin HeldRuns /\ r \notin ReleasedRuns
<1>1. usage[r] = "none"
  BY DEF Creates, RunInv, NoEventBeforeRun
<1>2. <<"RESERVE", r>> \notin wallet.ledger /\ <<"RELEASE", r>> \notin wallet.ledger
  BY <1>1 DEF LedgerMatchesUsage
<1>3. <<"RESERVE", r>> \notin Freed(a).ledger
  BY <1>2, FreedMoney
<1>4. wallet' = IF CanReserve(Freed(a))
                THEN ApplyMovement(Freed(a), "RESERVE", r, MAX_CREDITS_PER_AI_RUN)
                ELSE Freed(a)
  BY CreatesEffect DEF Freed
<1>5. /\ Freed(a) \in Wallets /\ "RESERVE" \in Directions /\ r \in WalletRefs
      /\ MAX_CREDITS_PER_AI_RUN \in Int
  BY FreedMoney, PricingAssumption DEF Directions, WalletRefs, PricingAssumption
<1>6. /\ Freed(a).status = wallet.status
      /\ Freed(a).balance = wallet.balance
      /\ Freed(a).balance \in Int /\ Freed(a).reserved \in Int
  BY <1>5, FreedMoney DEF Wallets
<1>7. r \notin HeldRuns /\ r \notin ReleasedRuns
  BY <1>2 DEF HeldRuns, ReleasedRuns
<1>8. CASE CanReserve(Freed(a))
  <2>1. /\ wallet'.ledger = Freed(a).ledger \cup {<<"RESERVE", r>>}
        /\ wallet'.status = Freed(a).status
        /\ wallet'.balance = Freed(a).balance
        /\ wallet'.reserved = Freed(a).reserved + MAX_CREDITS_PER_AI_RUN
    BY <1>3, <1>4, <1>5, <1>8, FreshMovement
  <2>2. Freed(a).balance - Freed(a).reserved >= MAX_CREDITS_PER_AI_RUN
    BY <1>8 DEF CanReserve, AvailableCredits
  <2> QED
    BY <1>5, <1>6, <1>7, <1>8, <2>1, <2>2
<1>9. CASE ~CanReserve(Freed(a))
  BY <1>4, <1>6, <1>7, <1>9
<1> QED
  BY <1>8, <1>9

-----------------------------------------------------------------------------
(* The ledger and the usage events tell the same story.                    *)

\* No kind of step lets the ledger and the usage events disagree.
LEMMA LedgerKept ==
  ASSUME TypeOK, RunInv, LedgerMatchesUsage, StepKind
  PROVE  LedgerMatchesUsage'
<1>1. CASE RunsMove
  BY <1>1 DEF RunsMove, money, LedgerMatchesUsage
<1>2. ASSUME NEW r \in Runs, NEW a \in Runs \cup {NoRun}, Creates(r, a)
      PROVE  LedgerMatchesUsage'
  <2> DEFINE ok == CanReserve(Freed(a))
  <2>1. usage' = [x \in Runs |-> IF x = r THEN IF ok THEN "RESERVED" ELSE "SKIPPED"
                                 ELSE IF x = a THEN UsageReleased(x) ELSE usage[x]]
    BY <1>2, CreatesEffect DEF Freed
  <2>2. usage[r] = "none"
    BY <1>2 DEF Creates, RunInv, NoEventBeforeRun
  <2>3. /\ wallet'.ledger = wallet.ledger
               \cup (IF Frees(a) THEN {<<"RELEASE", a>>} ELSE {})
               \cup (IF ok THEN {<<"RESERVE", r>>} ELSE {})
        /\ wallet'.status = wallet.status
        /\ Frees(a) => usage[a] = "RESERVED" /\ a # r
    BY <1>2, CreatesMoney, FreedMoney
  <2>4. a \in Runs => usage[a] = "RESERVED" /\ a # r
    BY <1>2, SupersedesTheActiveRun, NoRunIsNoRun DEF RunInv, ActiveRunIsFunded
  <2>5. a \in Runs => (Frees(a) <=> wallet.status # "CLOSED")
    BY NoRunIsNoRun DEF Frees
  <2>6. Frees(a) => a \in Runs
    BY DEF Frees
  <2> HIDE DEF ok
  <2> SUFFICES ASSUME NEW x \in Runs
               PROVE  /\ (<<"RESERVE", x>> \in wallet'.ledger)
                            <=> usage'[x] \in {"RESERVED", "CHARGED", "RELEASED"}
                      /\ (<<"DEBIT", x>> \in wallet'.ledger) <=> usage'[x] = "CHARGED"
                      /\ <<"RELEASE", x>> \in wallet'.ledger => usage'[x] \in {"CHARGED", "RELEASED"}
                      /\ usage'[x] = "CHARGED" => <<"RELEASE", x>> \in wallet'.ledger
                      /\ usage'[x] = "RELEASED" /\ wallet'.status # "CLOSED"
                           => <<"RELEASE", x>> \in wallet'.ledger
                      /\ <<"CREDIT", x>> \notin wallet'.ledger
    BY DEF LedgerMatchesUsage
  <2>7. CASE x = r
    BY <2>1, <2>2, <2>3, <2>6, <2>7 DEF LedgerMatchesUsage
  <2>8. CASE x = a /\ x # r
    BY <2>1, <2>3, <2>4, <2>5, <2>8 DEF LedgerMatchesUsage, UsageReleased
  <2>9. CASE x # a /\ x # r
    BY <2>1, <2>3, <2>9 DEF LedgerMatchesUsage
  <2> QED
    BY <2>7, <2>8, <2>9
<1>3. ASSUME NEW r \in Runs, GivesBack(r)
      PROVE  LedgerMatchesUsage'
  <2>1. CASE usage[r] # "RESERVED"
    BY <1>3, <2>1, NothingReleased DEF GivesBack, UsageReleased, LedgerMatchesUsage, TypeOK
  <2>2. CASE usage[r] = "RESERVED" /\ wallet.status = "CLOSED"
    BY <1>3, <2>2, NothingReleased DEF GivesBack, UsageReleased, LedgerMatchesUsage, TypeOK
  <2>3. CASE usage[r] = "RESERVED" /\ wallet.status # "CLOSED"
    <3>1. /\ wallet'.ledger = wallet.ledger \cup {<<"RELEASE", r>>}
          /\ wallet'.status = wallet.status
      BY <1>3, <2>3, ReleasedMoney DEF GivesBack
    <3>2. usage' = [usage EXCEPT ![r] = "RELEASED"]
      BY <1>3, <2>3 DEF GivesBack, UsageReleased
    <3> QED
      BY <2>3, <3>1, <3>2 DEF LedgerMatchesUsage, TypeOK
  <2> QED
    BY <2>1, <2>2, <2>3
<1>4. ASSUME NEW r \in Runs, NEW d \in Decisions \cup {"FAILED"}, Settles(r, d)
      PROVE  LedgerMatchesUsage'
  <2>1. CASE usage[r] # "RESERVED"
    BY <1>4, <2>1, SettlesEffect DEF money, LedgerMatchesUsage
  <2>2. CASE usage[r] = "RESERVED" /\ wallet.status = "CLOSED"
    <3>1. EffectiveCharge(r, d) = 0
      BY <2>2 DEF EffectiveCharge
    <3>2. usage' = [usage EXCEPT ![r] = "RELEASED"] /\ wallet' = wallet
      BY <1>4, <2>2, <3>1, SettlesEffect
    <3> QED
      BY <2>2, <3>2 DEF LedgerMatchesUsage, TypeOK
  <2>3. CASE usage[r] = "RESERVED" /\ wallet.status # "CLOSED"
    <3>1. usage' = [usage EXCEPT ![r] = IF EffectiveCharge(r, d) > 0 THEN "CHARGED" ELSE "RELEASED"]
      BY <1>4, <2>3, SettlesEffect
    <3>2. /\ wallet'.ledger = wallet.ledger \cup {<<"RELEASE", r>>}
               \cup (IF EffectiveCharge(r, d) > 0 THEN {<<"DEBIT", r>>} ELSE {})
          /\ wallet'.status = wallet.status
      BY <1>4, <2>3, SettlesMoney
    <3>3. CASE EffectiveCharge(r, d) > 0
      BY <2>3, <3>1, <3>2, <3>3 DEF LedgerMatchesUsage, TypeOK
    <3>4. CASE ~(EffectiveCharge(r, d) > 0)
      BY <2>3, <3>1, <3>2, <3>4 DEF LedgerMatchesUsage, TypeOK
    <3> QED
      BY <3>3, <3>4
  <2> QED
    BY <2>1, <2>2, <2>3
<1>5. CASE Switches
  <2>1. PICK to \in WalletStatus : /\ CanTransitionWalletStatus(wallet.status, to)
                                   /\ wallet' = [wallet EXCEPT !.status = to]
    BY <1>5 DEF Switches
  <2>2. wallet'.ledger = wallet.ledger /\ wallet.status # "CLOSED" /\ usage' = usage
    BY <1>5, <2>1 DEF Switches, CanTransitionWalletStatus, TypeOK
  <2> QED
    BY <2>2 DEF LedgerMatchesUsage
<1>6. ASSUME NEW t \in TopUps, Credits(t)
      PROVE  LedgerMatchesUsage'
  <2>1. CASE <<"CREDIT", t>> \in wallet.ledger
    BY <1>6, <2>1 DEF Credits, ApplyMovement, LedgerMatchesUsage
  <2>2. CASE <<"CREDIT", t>> \notin wallet.ledger
    <3>1. /\ wallet \in Wallets /\ "CREDIT" \in Directions /\ t \in WalletRefs
          /\ TopUpCredits \in Int
      BY RunsAssumption DEF TypeOK, Wallets, Directions, WalletRefs, RunsAssumption
    <3>2. /\ wallet'.ledger = wallet.ledger \cup {<<"CREDIT", t>>}
          /\ wallet'.status = wallet.status
          /\ usage' = usage
      BY <1>6, <2>2, <3>1, FreshMovement DEF Credits
    <3>3. t \notin Runs
      BY RunsAssumption DEF RunsAssumption
    <3> QED
      BY <3>2, <3>3 DEF LedgerMatchesUsage
  <2> QED
    BY <2>1, <2>2
<1> QED
  BY <1>1, <1>2, <1>3, <1>4, <1>5, <1>6 DEF StepKind

-----------------------------------------------------------------------------
(* What the account holds.                                                 *)

\* There are finitely many runs, so what they hold can be counted.
LEMMA RunsFinite == IsFiniteSet(Runs)
<1>1. IsFiniteSet(Conversations) /\ MaxInbound \in Int
  BY RunsAssumption DEF RunsAssumption
<1>2. IsFiniteSet(1..MaxInbound)
  BY <1>1, FS_Interval
<1> QED
  BY <1>1, <1>2, FS_Product DEF Runs

\* The runs that hold credits are finitely many.
LEMMA HeldFinite == IsFiniteSet(HeldRuns) /\ Cardinality(HeldRuns) \in Nat
<1>1. HeldRuns \in SUBSET Runs
  BY DEF HeldRuns
<1> QED
  BY <1>1, RunsFinite, FS_Subset, FS_CardinalityType

\* A run gives up its hold.
LEMMA OneLess ==
  ASSUME NEW S, IsFiniteSet(S), NEW x \in S, NEW m \in Nat
  PROVE  /\ m * Cardinality(S \ {x}) = m * Cardinality(S) - m
         /\ m * Cardinality(S) >= m
<1>1. Cardinality(S) \in Nat /\ Cardinality(S \ {x}) \in Nat
  BY FS_RemoveElement, FS_CardinalityType
<1>2. Cardinality(S) = Cardinality(S \ {x}) + 1
  BY <1>1, FS_RemoveElement
<1>3. \A n \in Nat : m * (n + 1) = m * n + m /\ m * n >= 0
  OBVIOUS
<1>4. m * Cardinality(S) = m * Cardinality(S \ {x}) + m /\ m * Cardinality(S \ {x}) >= 0
  BY <1>1, <1>2, <1>3
<1> HIDE <1>2, <1>3
<1> DEFINE p == m * Cardinality(S)
<1> DEFINE q == m * Cardinality(S \ {x})
<1>5. p \in Int /\ q \in Int
  BY <1>1
<1>6. p = q + m /\ q >= 0
  BY <1>4
<1> HIDE DEF p, q
<1>7. q = p - m /\ p >= m
  BY <1>5, <1>6
<1> QED
  BY <1>7 DEF p, q

\* A run takes a hold.
LEMMA OneMore ==
  ASSUME NEW S, IsFiniteSet(S), NEW x, x \notin S, NEW m \in Nat
  PROVE  m * Cardinality(S \cup {x}) = m * Cardinality(S) + m
<1>1. Cardinality(S) \in Nat /\ Cardinality(S \cup {x}) = Cardinality(S) + 1
  BY FS_AddElement, FS_CardinalityType
<1>2. \A n \in Nat : m * (n + 1) = m * n + m
  OBVIOUS
<1> QED
  BY <1>1, <1>2

\* The holds after a run is created.
LEMMA CreatesHolds ==
  ASSUME TypeOK, RunInv, LedgerMatchesUsage, NEW r \in Runs, NEW a \in Runs \cup {NoRun}, Creates(r, a)
  PROVE  /\ HeldRuns' = (HeldRuns \ (IF Frees(a) THEN {a} ELSE {}))
                          \cup (IF CanReserve(Freed(a)) THEN {r} ELSE {})
         /\ ReleasedRuns' = ReleasedRuns \cup (IF Frees(a) THEN {a} ELSE {})
<1> DEFINE ok == CanReserve(Freed(a))
<1>1. /\ wallet'.ledger = wallet.ledger
               \cup (IF Frees(a) THEN {<<"RELEASE", a>>} ELSE {})
               \cup (IF ok THEN {<<"RESERVE", r>>} ELSE {})
      /\ Frees(a) => a \in HeldRuns /\ a # r
      /\ r \notin HeldRuns /\ r \notin ReleasedRuns
  BY CreatesMoney, FreedMoney
<1> HIDE DEF ok
<1>2. \A x \in Runs : /\ (<<"RESERVE", x>> \in wallet'.ledger)
                            <=> ((<<"RESERVE", x>> \in wallet.ledger) \/ (ok /\ x = r))
                      /\ (<<"RELEASE", x>> \in wallet'.ledger)
                            <=> ((<<"RELEASE", x>> \in wallet.ledger) \/ (Frees(a) /\ x = a))
  BY <1>1
<1>3. Frees(a) => a \in Runs
  BY <1>1 DEF HeldRuns
<1>4. ReleasedRuns' = ReleasedRuns \cup (IF Frees(a) THEN {a} ELSE {})
  BY <1>2, <1>3 DEF ReleasedRuns
<1>5. HeldRuns' = (HeldRuns \ (IF Frees(a) THEN {a} ELSE {})) \cup (IF ok THEN {r} ELSE {})
  BY <1>1, <1>2, <1>3 DEF HeldRuns, ReleasedRuns
<1> QED
  BY <1>4, <1>5 DEF ok

\* The holds after a run is released or settled.
LEMMA EndsHold ==
  ASSUME NEW r \in Runs, NEW more \in SUBSET ({"DEBIT"} \X Runs),
         wallet'.ledger = wallet.ledger \cup {<<"RELEASE", r>>} \cup more
  PROVE  HeldRuns' = HeldRuns \ {r} /\ ReleasedRuns' = ReleasedRuns \cup {r}
<1>1. \A x \in Runs : /\ (<<"RESERVE", x>> \in wallet'.ledger) <=> (<<"RESERVE", x>> \in wallet.ledger)
                      /\ (<<"RELEASE", x>> \in wallet'.ledger)
                            <=> ((<<"RELEASE", x>> \in wallet.ledger) \/ x = r)
  <2>1. \A x : <<"RESERVE", x>> \notin more /\ <<"RELEASE", x>> \notin more
    OBVIOUS
  <2> QED
    BY <2>1
<1> QED
  BY <1>1 DEF HeldRuns, ReleasedRuns

\* A run that is released or settled returns exactly what it held.
LEMMA HoldReturned ==
  ASSUME TypeOK, ReservedIsHeldAndCovered, NEW r \in HeldRuns,
         HeldRuns' = HeldRuns \ {r},
         wallet'.reserved = wallet.reserved - MAX_CREDITS_PER_AI_RUN
  PROVE  /\ wallet'.reserved = MAX_CREDITS_PER_AI_RUN * Cardinality(HeldRuns')
         /\ wallet'.reserved >= 0
<1> DEFINE m == MAX_CREDITS_PER_AI_RUN
<1>1. m \in Nat
  BY PricingAssumption DEF PricingAssumption
<1> HIDE DEF m
<1>2. m * Cardinality(HeldRuns \ {r}) = m * Cardinality(HeldRuns) - m /\ m * Cardinality(HeldRuns) >= m
  BY <1>1, HeldFinite, OneLess
<1>3. wallet.reserved = m * Cardinality(HeldRuns) /\ wallet'.reserved = wallet.reserved - m
  BY DEF ReservedIsHeldAndCovered, m
<1>4. wallet.reserved \in Int
  BY DEF TypeOK
<1>5. wallet'.reserved = m * Cardinality(HeldRuns') /\ wallet'.reserved >= 0
  BY <1>1, <1>2, <1>3, <1>4
<1> QED
  BY <1>5 DEF m

\* Releasing a run returns its hold at no cost, or does nothing at all.
LEMMA GivesBackHold ==
  ASSUME MoneyInv, NEW r \in Runs, GivesBack(r)
  PROVE  /\ ReservedIsHeldAndCovered'
         /\ wallet'.balance = wallet.balance
         /\ \/ HeldRuns' = HeldRuns /\ ReleasedRuns' = ReleasedRuns
            \/ /\ r \in HeldRuns
               /\ HeldRuns' = HeldRuns \ {r} /\ ReleasedRuns' = ReleasedRuns \cup {r}
<1> USE DEF MoneyInv
<1>1. CASE usage[r] # "RESERVED" \/ wallet.status = "CLOSED"
  <2>1. wallet' = wallet
    BY <1>1, NothingReleased DEF GivesBack
  <2> QED
    BY <2>1 DEF HeldRuns, ReleasedRuns, ReservedIsHeldAndCovered
<1>2. CASE usage[r] = "RESERVED" /\ wallet.status # "CLOSED"
  <2>1. /\ wallet'.ledger = wallet.ledger \cup {<<"RELEASE", r>>}
        /\ wallet'.balance = wallet.balance
        /\ wallet'.reserved = wallet.reserved - MAX_CREDITS_PER_AI_RUN
        /\ r \in HeldRuns
    BY <1>2, ReleasedMoney DEF GivesBack
  <2>2. HeldRuns' = HeldRuns \ {r} /\ ReleasedRuns' = ReleasedRuns \cup {r}
    <3> DEFINE more == {}
    <3>1. more \in SUBSET ({"DEBIT"} \X Runs)
      OBVIOUS
    <3>2. wallet'.ledger = wallet.ledger \cup {<<"RELEASE", r>>} \cup more
      BY <2>1
    <3> HIDE DEF more
    <3> QED
      BY <3>1, <3>2, EndsHold
  <2>3. /\ wallet'.reserved = MAX_CREDITS_PER_AI_RUN * Cardinality(HeldRuns')
        /\ wallet'.reserved >= 0
    BY <2>1, <2>2, HoldReturned
  <2>4. BalancesValid(wallet')
    <3>1. wallet.reserved \in Int /\ wallet.balance \in Int /\ MAX_CREDITS_PER_AI_RUN \in Nat
      BY PricingAssumption DEF TypeOK, PricingAssumption
    <3> QED
      BY <2>1, <2>3, <3>1 DEF BalancesValid, ReservedIsHeldAndCovered
  <2> QED
    BY <2>1, <2>2, <2>3, <2>4 DEF ReservedIsHeldAndCovered
<1> QED
  BY <1>1, <1>2

\* Settling a run ends its hold at a cost of at most the hold, or does nothing.
LEMMA SettlesHold ==
  ASSUME MoneyInv, NEW r \in Runs, NEW d \in Decisions \cup {"FAILED"}, Settles(r, d)
  PROVE  /\ ReservedIsHeldAndCovered'
         /\ \/ /\ wallet'.balance = wallet.balance
               /\ HeldRuns' = HeldRuns /\ ReleasedRuns' = ReleasedRuns
            \/ /\ r \in HeldRuns
               /\ HeldRuns' = HeldRuns \ {r} /\ ReleasedRuns' = ReleasedRuns \cup {r}
               /\ wallet'.balance \in (wallet.balance - MAX_CREDITS_PER_AI_RUN)..wallet.balance
<1> USE DEF MoneyInv
<1>1. CASE usage[r] # "RESERVED" \/ wallet.status = "CLOSED"
  <2>1. wallet' = wallet
    BY <1>1, SettlesEffect DEF money
  <2> QED
    BY <2>1 DEF HeldRuns, ReleasedRuns, ReservedIsHeldAndCovered
<1>2. CASE usage[r] = "RESERVED" /\ wallet.status # "CLOSED"
  <2> DEFINE charge == EffectiveCharge(r, d)
  <2> DEFINE more == IF charge > 0 THEN {<<"DEBIT", r>>} ELSE {}
  <2>1. /\ charge \in 0..MAX_CREDITS_PER_AI_RUN
        /\ wallet'.ledger = wallet.ledger \cup {<<"RELEASE", r>>} \cup more
        /\ wallet'.balance = wallet.balance - charge
        /\ wallet'.reserved = wallet.reserved - MAX_CREDITS_PER_AI_RUN
        /\ BalancesValid(wallet')
        /\ r \in HeldRuns
    BY <1>2, SettlesMoney
  <2>2. more \in SUBSET ({"DEBIT"} \X Runs)
    OBVIOUS
  <2> HIDE DEF charge, more
  <2>3. HeldRuns' = HeldRuns \ {r} /\ ReleasedRuns' = ReleasedRuns \cup {r}
    BY <2>1, <2>2, EndsHold
  <2>4. wallet'.reserved = MAX_CREDITS_PER_AI_RUN * Cardinality(HeldRuns')
    BY <2>1, <2>3, HoldReturned
  <2>5. wallet'.balance \in (wallet.balance - MAX_CREDITS_PER_AI_RUN)..wallet.balance
    BY <2>1, PricingAssumption DEF TypeOK, PricingAssumption
  <2> QED
    BY <2>1, <2>3, <2>4, <2>5 DEF ReservedIsHeldAndCovered
<1> QED
  BY <1>1, <1>2

\* Creating a run ends the hold of the run it supersedes, then takes its own.
LEMMA CreatesHold ==
  ASSUME MoneyInv, NEW r \in Runs, NEW a \in Runs \cup {NoRun}, Creates(r, a)
  PROVE  ReservedIsHeldAndCovered' /\ wallet'.balance = wallet.balance
<1> USE DEF MoneyInv
<1> DEFINE ok == CanReserve(Freed(a))
<1> DEFINE m == MAX_CREDITS_PER_AI_RUN
<1> DEFINE kept == HeldRuns \ (IF Frees(a) THEN {a} ELSE {})
<1>1. m \in Nat
  BY PricingAssumption DEF PricingAssumption
<1>2. /\ wallet'.balance = wallet.balance
      /\ wallet'.reserved = Freed(a).reserved + (IF ok THEN m ELSE 0)
      /\ ok => wallet'.reserved <= wallet'.balance
      /\ r \notin HeldRuns
      /\ Freed(a).reserved = wallet.reserved - (IF Frees(a) THEN m ELSE 0)
      /\ Frees(a) => a \in HeldRuns
  BY CreatesMoney, FreedMoney
<1>3. HeldRuns' = kept \cup (IF ok THEN {r} ELSE {})
  BY CreatesHolds
<1>4. /\ wallet.reserved = m * Cardinality(HeldRuns)
      /\ wallet.reserved \in Int /\ wallet.balance \in Int
      /\ wallet.reserved >= 0 /\ wallet.reserved <= wallet.balance
      /\ wallet.balance >= 0 /\ wallet.balance <= WALLET_MAX_CREDITS
  BY DEF ReservedIsHeldAndCovered, BalancesValid, TypeOK
<1> HIDE DEF ok, m
<1>5. /\ IsFiniteSet(kept) /\ r \notin kept
      /\ Freed(a).reserved = m * Cardinality(kept)
      /\ Freed(a).reserved \in Int
      /\ Freed(a).reserved >= 0 /\ Freed(a).reserved <= wallet.reserved
  <2>1. CASE Frees(a)
    <3>1. kept = HeldRuns \ {a} /\ a \in HeldRuns
      BY <1>2, <2>1
    <3>2. /\ m * Cardinality(HeldRuns \ {a}) = m * Cardinality(HeldRuns) - m
          /\ m * Cardinality(HeldRuns) >= m
      BY <1>1, <3>1, HeldFinite, OneLess
    <3>3. IsFiniteSet(HeldRuns \ {a})
      BY HeldFinite, FS_RemoveElement
    <3>4. Freed(a).reserved = wallet.reserved - m
      BY <1>2, <2>1
    <3> HIDE DEF kept
    <3> QED
      BY <1>1, <1>2, <1>4, <3>1, <3>2, <3>3, <3>4
  <2>2. CASE ~Frees(a)
    <3>1. kept = HeldRuns
      BY <2>2
    <3>2. Freed(a).reserved = wallet.reserved
      BY <1>2, <1>4, <2>2
    <3> HIDE DEF kept
    <3> QED
      BY <1>1, <1>2, <1>4, <3>1, <3>2, HeldFinite
  <2> QED
    BY <2>1, <2>2
<1> HIDE DEF kept
<1>6. CASE ok
  <2>1. m * Cardinality(kept \cup {r}) = m * Cardinality(kept) + m
    BY <1>1, <1>5, OneMore
  <2>2. wallet'.reserved = m * Cardinality(HeldRuns')
    BY <1>2, <1>3, <1>5, <1>6, <2>1
  <2>3. wallet'.reserved >= 0 /\ wallet'.reserved <= wallet'.balance
    BY <1>1, <1>2, <1>5, <1>6
  <2> QED
    BY <1>2, <1>4, <2>2, <2>3 DEF ReservedIsHeldAndCovered, BalancesValid, m
<1>7. CASE ~ok
  <2>1. HeldRuns' = kept /\ wallet'.reserved = Freed(a).reserved
    BY <1>2, <1>3, <1>5, <1>7
  <2>2. wallet'.reserved >= 0 /\ wallet'.reserved <= wallet'.balance
    BY <1>2, <1>4, <1>5, <2>1
  <2> QED
    BY <1>2, <1>4, <1>5, <2>1, <2>2 DEF ReservedIsHeldAndCovered, BalancesValid, m
<1> QED
  BY <1>6, <1>7

\* A top-up adds to the balance once, within its cap, and touches no hold.
LEMMA CreditsHold ==
  ASSUME MoneyInv, NEW t \in TopUps, Credits(t)
  PROVE  /\ ReservedIsHeldAndCovered'
         /\ HeldRuns' = HeldRuns /\ ReleasedRuns' = ReleasedRuns
         /\ \/ wallet'.balance = wallet.balance
            \/ wallet'.balance \in Nat /\ wallet'.balance > wallet.balance
<1> USE DEF MoneyInv
<1>1. CASE <<"CREDIT", t>> \in wallet.ledger
  <2>1. wallet' = wallet
    BY <1>1 DEF Credits, ApplyMovement
  <2> QED
    BY <2>1 DEF HeldRuns, ReleasedRuns, ReservedIsHeldAndCovered
<1>2. CASE <<"CREDIT", t>> \notin wallet.ledger
  <2>1. /\ wallet \in Wallets /\ "CREDIT" \in Directions /\ t \in WalletRefs
        /\ TopUpCredits \in Int /\ TopUpCredits > 0
    BY RunsAssumption DEF TypeOK, Wallets, Directions, WalletRefs, RunsAssumption
  <2>2. BalancesValid(Moved(wallet, "CREDIT", TopUpCredits))
    BY <1>2 DEF Credits, MovementThrows
  <2>3. /\ wallet' \in Wallets
        /\ wallet'.ledger = wallet.ledger \cup {<<"CREDIT", t>>}
        /\ wallet'.balance = wallet.balance + TopUpCredits
        /\ wallet'.reserved = wallet.reserved
        /\ BalancesValid(wallet')
    BY <1>2, <2>1, <2>2, FreshMovement DEF Credits
  <2>4. HeldRuns' = HeldRuns /\ ReleasedRuns' = ReleasedRuns
    BY <2>3 DEF HeldRuns, ReleasedRuns
  <2>5. wallet'.balance \in Nat /\ wallet'.balance > wallet.balance
    BY <2>1, <2>3 DEF BalancesValid, Wallets
  <2> QED
    BY <2>3, <2>4, <2>5 DEF ReservedIsHeldAndCovered
<1> QED
  BY <1>1, <1>2

\* A change of the wallet's status touches no credit.
LEMMA SwitchesHold ==
  ASSUME MoneyInv, Switches
  PROVE  /\ ReservedIsHeldAndCovered'
         /\ HeldRuns' = HeldRuns /\ ReleasedRuns' = ReleasedRuns
         /\ wallet'.balance = wallet.balance
<1>1. /\ wallet'.ledger = wallet.ledger
      /\ wallet'.balance = wallet.balance
      /\ wallet'.reserved = wallet.reserved
  BY DEF Switches, MoneyInv, TypeOK
<1>2. HeldRuns' = HeldRuns /\ ReleasedRuns' = ReleasedRuns
  BY <1>1 DEF HeldRuns, ReleasedRuns
<1> QED
  BY <1>1, <1>2 DEF ReservedIsHeldAndCovered, BalancesValid, MoneyInv

\* No step breaks what the wallet holds.
LEMMA HoldsKept ==
  ASSUME MoneyInv, StepKind
  PROVE  ReservedIsHeldAndCovered'
<1>1. CASE RunsMove
  BY <1>1 DEF RunsMove, money, HeldRuns, ReservedIsHeldAndCovered, MoneyInv
<1> QED
  BY <1>1, CreatesHold, GivesBackHold, SettlesHold, SwitchesHold, CreditsHold DEF StepKind

-----------------------------------------------------------------------------
(* The theorems.                                                           *)

\* The inductive invariant: types, runs, ledger and holds support each other.
AiInv == TypeInv /\ MoneyInv

\* It holds at the start.
LEMMA InitMoney == Init => AiInv
<1> SUFFICES ASSUME Init
             PROVE  AiInv
  OBVIOUS
<1>1. TypeInv
  BY InitTypes
<1>2. RunInv
  BY DEF Init, RunInv, OneActiveRunPerConversation, ActiveRunIsFunded, NoEventBeforeRun, Active
<1>3. LedgerMatchesUsage
  BY DEF Init, LedgerMatchesUsage
<1>4. HeldRuns = {}
  BY DEF Init, HeldRuns
<1>5. MAX_CREDITS_PER_AI_RUN * Cardinality(HeldRuns) = 0
  BY <1>4, FS_EmptySet, PricingAssumption DEF PricingAssumption
<1>6. ReservedIsHeldAndCovered
  BY <1>5, RunsAssumption, PricingAssumption
     DEF Init, ReservedIsHeldAndCovered, BalancesValid, RunsAssumption, PricingAssumption
<1> QED
  BY <1>1, <1>2, <1>3, <1>6 DEF AiInv, MoneyInv, TypeInv

\* Every step keeps it.
LEMMA StepKeepsMoney == AiInv /\ [Next]_vars => AiInv'
<1> SUFFICES ASSUME AiInv, [Next]_vars
             PROVE  AiInv'
  OBVIOUS
<1>1. TypeInv'
  BY StepKeepsTypes DEF AiInv
<1>2. StepKind
  BY EveryStepHasAKind DEF AiInv
<1>3. RunInv' /\ LedgerMatchesUsage' /\ ReservedIsHeldAndCovered'
  BY <1>2, RunInvKept, LedgerKept, HoldsKept DEF AiInv, MoneyInv
<1> QED
  BY <1>1, <1>3 DEF AiInv, MoneyInv, TypeInv

\* The invariant holds throughout.
THEOREM MoneyInvariant == Spec => []AiInv
  BY InitMoney, StepKeepsMoney, PTL DEF Spec

\* Two runs of one conversation are never active together: the locked trigger
\* alone guarantees what the partial unique index would otherwise enforce.
THEOREM OneActiveRun == Spec => []OneActiveRunPerConversation
<1>1. AiInv => OneActiveRunPerConversation
  BY DEF AiInv, MoneyInv, RunInv
<1> QED
  BY <1>1, MoneyInvariant, PTL

\* A run that may still be executed has its reservation.
THEOREM ActiveRunsAreFunded == Spec => []ActiveRunIsFunded
<1>1. AiInv => ActiveRunIsFunded
  BY DEF AiInv, MoneyInv, RunInv
<1> QED
  BY <1>1, MoneyInvariant, PTL

\* The ledger and the usage events never disagree about a run.
THEOREM LedgerIsConsistent == Spec => []LedgerMatchesUsage
<1>1. AiInv => LedgerMatchesUsage
  BY DEF AiInv, MoneyInv
<1> QED
  BY <1>1, MoneyInvariant, PTL

\* The wallet reserves exactly what its runs hold, and its balance covers it.
THEOREM ReservationsAreCovered == Spec => []ReservedIsHeldAndCovered
<1>1. AiInv => ReservedIsHeldAndCovered
  BY DEF AiInv, MoneyInv
<1> QED
  BY <1>1, MoneyInvariant, PTL

-----------------------------------------------------------------------------
(* Only a run that succeeded is paid for.                                  *)

\* A failed run, or one that decided on no reply, costs nothing.
LEMMA OnlySuggestionsCost ==
  ASSUME NEW r, NEW d, d # "SUGGESTION", d # "SUGGEST_REPLY"
  PROVE  EffectiveCharge(r, d) = 0
  BY DEF EffectiveCharge, RunCredits

\* Every kind of step keeps it.
LEMMA ChargesKept ==
  ASSUME TypeOK, RunInv, ChargedRunsSucceeded, StepKind
  PROVE  ChargedRunsSucceeded'
<1> USE DEF TypeOK, ChargedRunsSucceeded
<1>1. CASE RunsMove
  BY <1>1 DEF RunsMove, money, Active
<1>2. ASSUME NEW r \in Runs, NEW a \in Runs \cup {NoRun}, Creates(r, a)
      PROVE  ChargedRunsSucceeded'
  <2> DEFINE ok == CanReserve(Freed(a))
  <2>1. /\ run' = [x \in Runs |-> IF x = r THEN IF ok THEN "QUEUED" ELSE "SKIPPED"
                                  ELSE IF x = a THEN "SUPERSEDED" ELSE run[x]]
        /\ usage' = [x \in Runs |-> IF x = r THEN IF ok THEN "RESERVED" ELSE "SKIPPED"
                                    ELSE IF x = a THEN UsageReleased(x) ELSE usage[x]]
        /\ charged' = charged
    BY <1>2, CreatesEffect DEF Freed
  <2>2. usage[r] = "none"
    BY <1>2 DEF Creates, RunInv, NoEventBeforeRun
  <2>3. a \in Runs => usage[a] = "RESERVED"
    BY <1>2, SupersedesTheActiveRun, NoRunIsNoRun DEF RunInv, ActiveRunIsFunded
  <2> HIDE DEF ok
  <2> QED
    BY <2>1, <2>2, <2>3 DEF UsageReleased
<1>3. ASSUME NEW r \in Runs, GivesBack(r)
      PROVE  ChargedRunsSucceeded'
  BY <1>3 DEF GivesBack, UsageReleased, Active
<1>4. ASSUME NEW r \in Runs, NEW d \in Decisions \cup {"FAILED"}, Settles(r, d)
      PROVE  ChargedRunsSucceeded'
  <2>1. run' = [run EXCEPT ![r] = IF d = "FAILED" THEN "FAILED" ELSE "SUCCEEDED"]
    BY <1>4, SettlesEffect
  <2>2. CASE usage[r] = "RESERVED"
    <3>1. /\ usage' = [usage EXCEPT ![r] = IF EffectiveCharge(r, d) > 0 THEN "CHARGED" ELSE "RELEASED"]
          /\ charged' = [charged EXCEPT ![r] = EffectiveCharge(r, d)]
      BY <1>4, <2>2, SettlesEffect
    <3>2. d = "FAILED" => ~(EffectiveCharge(r, d) > 0)
      BY OnlySuggestionsCost
    <3> QED
      BY <2>1, <3>1, <3>2
  <2>3. CASE usage[r] # "RESERVED"
    <3>1. usage' = usage /\ charged' = charged
      BY <1>4, <2>3, SettlesEffect DEF money
    <3>2. usage[r] # "CHARGED"
      BY <1>4 DEF Settles, Executing
    <3> QED
      BY <2>1, <3>1, <3>2
  <2> QED
    BY <2>2, <2>3
<1>5. CASE Switches
  BY <1>5 DEF Switches
<1>6. ASSUME NEW t \in TopUps, Credits(t)
      PROVE  ChargedRunsSucceeded'
  BY <1>6 DEF Credits
<1> QED
  BY <1>1, <1>2, <1>3, <1>4, <1>5, <1>6 DEF StepKind

\* Whatever fails, is superseded, abandoned or released, an organization only pays
\* for runs that succeeded, and a cost is recorded exactly on charged events.
THEOREM ChargesAreEarned == Spec => []ChargedRunsSucceeded
<1>1. Init => ChargedRunsSucceeded
  BY DEF Init, ChargedRunsSucceeded
<1>2. AiInv /\ ChargedRunsSucceeded /\ [Next]_vars => ChargedRunsSucceeded'
  BY EveryStepHasAKind, ChargesKept DEF AiInv, MoneyInv
<1> QED
  BY <1>1, <1>2, MoneyInvariant, PTL DEF Spec

-----------------------------------------------------------------------------
(* Every credit is accounted for.                                          *)

\* Finitely many credits are charged.
LEMMA ChargedFinite == IsFiniteSet(ChargedCredits) /\ Cardinality(ChargedCredits) \in Nat
<1>1. IsFiniteSet(1..MAX_CREDITS_PER_AI_RUN)
  BY FS_Interval, PricingAssumption DEF PricingAssumption
<1>2. IsFiniteSet(Runs \X (1..MAX_CREDITS_PER_AI_RUN))
  BY <1>1, RunsFinite, FS_Product
<1> QED
  BY <1>2, FS_Subset, FS_CardinalityType DEF ChargedCredits

\* The credits of one run are counted one by one.
LEMMA ChargeAdds ==
  ASSUME TypeOK, NEW r \in Runs, charged[r] = 0, NEW n \in 0..MAX_CREDITS_PER_AI_RUN,
         charged' = [charged EXCEPT ![r] = n]
  PROVE  Cardinality(ChargedCredits') = Cardinality(ChargedCredits) + n
<1> DEFINE own == {r} \X (1..n)
<1>1. n \in Nat /\ MAX_CREDITS_PER_AI_RUN \in Nat
  BY PricingAssumption DEF PricingAssumption
<1>2. IsFiniteSet(own) /\ Cardinality(own) = n
  <2>1. IsFiniteSet({r}) /\ Cardinality({r}) = 1
    BY FS_Singleton
  <2>2. IsFiniteSet(1..n) /\ Cardinality(1..n) = n
    BY <1>1, FS_Interval
  <2>3. IsFiniteSet(own) /\ Cardinality(own) = Cardinality({r}) * Cardinality(1..n)
    BY <2>1, <2>2, FS_Product
  <2> QED
    BY <1>1, <2>1, <2>2, <2>3
<1>3. ChargedCredits' = ChargedCredits \cup own /\ ChargedCredits \cap own = {}
  BY <1>1 DEF ChargedCredits, TypeOK
<1>4. IsFiniteSet(ChargedCredits) /\ Cardinality(ChargedCredits) \in Nat
  BY ChargedFinite
<1> HIDE DEF own
<1>5. Cardinality(ChargedCredits \cup own)
        = Cardinality(ChargedCredits) + Cardinality(own) - Cardinality({})
  BY <1>2, <1>3, <1>4, FS_Union
<1> QED
  BY <1>1, <1>2, <1>3, <1>4, <1>5, FS_EmptySet

FundsInv == IsFiniteSet(CreditedTopUps) /\ FundsConserved

\* A step that moves no credit in or out.
LEMMA FundsRest ==
  ASSUME FundsInv, wallet'.balance = wallet.balance, charged' = charged,
         \A t \in TopUps : <<"CREDIT", t>> \in wallet'.ledger <=> <<"CREDIT", t>> \in wallet.ledger
  PROVE  FundsInv'
<1>1. CreditedTopUps' = CreditedTopUps /\ ChargedCredits' = ChargedCredits
  BY DEF CreditedTopUps, ChargedCredits
<1> QED
  BY <1>1 DEF FundsInv, FundsConserved

\* A settlement takes from the balance what its event says.
LEMMA SettlesFunds ==
  ASSUME MoneyInv, ChargedRunsSucceeded, FundsInv,
         NEW r \in Runs, NEW d \in Decisions \cup {"FAILED"}, Settles(r, d)
  PROVE  FundsInv'
<1> USE DEF MoneyInv
<1>1. CASE usage[r] # "RESERVED"
  BY <1>1, SettlesEffect, FundsRest DEF money
<1>2. CASE usage[r] = "RESERVED" /\ wallet.status = "CLOSED"
  <2>1. EffectiveCharge(r, d) = 0 /\ charged[r] = 0
    BY <1>2, PricingAssumption DEF EffectiveCharge, ChargedRunsSucceeded, TypeOK, PricingAssumption
  <2>2. wallet' = wallet /\ charged' = charged
    BY <1>2, <2>1, SettlesEffect DEF TypeOK
  <2> QED
    BY <2>2, FundsRest
<1>3. CASE usage[r] = "RESERVED" /\ wallet.status # "CLOSED"
  <2> DEFINE charge == EffectiveCharge(r, d)
  <2>1. /\ charge \in 0..MAX_CREDITS_PER_AI_RUN
        /\ wallet'.ledger = wallet.ledger \cup {<<"RELEASE", r>>}
             \cup (IF charge > 0 THEN {<<"DEBIT", r>>} ELSE {})
        /\ wallet'.balance = wallet.balance - charge
    BY <1>3, SettlesMoney
  <2>2. charged' = [charged EXCEPT ![r] = charge] /\ charged[r] = 0
    BY <1>3, SettlesEffect, PricingAssumption DEF ChargedRunsSucceeded, TypeOK, PricingAssumption
  <2> HIDE DEF charge
  <2>3. CreditedTopUps' = CreditedTopUps
    BY <2>1 DEF CreditedTopUps
  <2>4. Cardinality(ChargedCredits') = Cardinality(ChargedCredits) + charge
    BY <2>1, <2>2, ChargeAdds
  <2>5. wallet.balance \in Int /\ charge \in Int /\ Cardinality(ChargedCredits) \in Nat
    BY <2>1, ChargedFinite, PricingAssumption DEF TypeOK, PricingAssumption
  <2> DEFINE in == InitialCredits + TopUpCredits * Cardinality(CreditedTopUps)
  <2>6. in \in Int
    <3>1. Cardinality(CreditedTopUps) \in Nat
      BY FS_CardinalityType DEF FundsInv
    <3> QED
      BY <3>1, RunsAssumption, PricingAssumption DEF RunsAssumption, PricingAssumption
  <2>7. wallet.balance = in - Cardinality(ChargedCredits)
    BY DEF FundsInv, FundsConserved, in
  <2>8. InitialCredits + TopUpCredits * Cardinality(CreditedTopUps') = in
    BY <2>3
  <2> HIDE DEF in
  <2>9. wallet'.balance = in - Cardinality(ChargedCredits')
    BY <2>1, <2>4, <2>5, <2>6, <2>7
  <2>10. IsFiniteSet(CreditedTopUps')
    BY <2>3 DEF FundsInv
  <2> QED
    BY <2>8, <2>9, <2>10 DEF FundsInv, FundsConserved
<1> QED
  BY <1>1, <1>2, <1>3

\* A top-up adds its credits, once.
LEMMA CreditsFunds ==
  ASSUME MoneyInv, FundsInv, NEW t \in TopUps, Credits(t)
  PROVE  FundsInv'
<1> USE DEF MoneyInv
<1>1. CASE <<"CREDIT", t>> \in wallet.ledger
  <2>1. wallet' = wallet /\ charged' = charged
    BY <1>1 DEF Credits, ApplyMovement
  <2> QED
    BY <2>1, FundsRest
<1>2. CASE <<"CREDIT", t>> \notin wallet.ledger
  <2>1. /\ wallet \in Wallets /\ "CREDIT" \in Directions /\ t \in WalletRefs
        /\ TopUpCredits \in Nat
    BY RunsAssumption DEF TypeOK, Wallets, Directions, WalletRefs, RunsAssumption
  <2>2. /\ wallet'.ledger = wallet.ledger \cup {<<"CREDIT", t>>}
        /\ wallet'.balance = wallet.balance + TopUpCredits
        /\ charged' = charged
    BY <1>2, <2>1, FreshMovement DEF Credits
  <2>3. CreditedTopUps' = CreditedTopUps \cup {t} /\ t \notin CreditedTopUps
    BY <1>2, <2>2 DEF CreditedTopUps
  <2>4. ChargedCredits' = ChargedCredits
    BY <2>2 DEF ChargedCredits
  <2>5. IsFiniteSet(CreditedTopUps')
    BY <2>3, FS_AddElement DEF FundsInv
  <2> DEFINE paid == TopUpCredits * Cardinality(CreditedTopUps)
  <2>6. paid' = paid + TopUpCredits
    BY <2>1, <2>3, OneMore DEF FundsInv
  <2>7. wallet.balance \in Int /\ paid \in Int /\ Cardinality(ChargedCredits) \in Nat
    <3>1. Cardinality(CreditedTopUps) \in Nat
      BY FS_CardinalityType DEF FundsInv
    <3> QED
      BY <2>1, <3>1, ChargedFinite DEF TypeOK
  <2>8. wallet.balance = (InitialCredits + paid) - Cardinality(ChargedCredits)
    BY DEF FundsInv, FundsConserved
  <2>9. InitialCredits \in Int
    BY RunsAssumption, PricingAssumption DEF RunsAssumption, PricingAssumption
  <2> HIDE DEF paid
  <2>10. wallet'.balance = (InitialCredits + paid') - Cardinality(ChargedCredits')
    BY <2>1, <2>2, <2>4, <2>6, <2>7, <2>8, <2>9
  <2> QED
    BY <2>5, <2>10 DEF paid, FundsInv, FundsConserved
<1> QED
  BY <1>1, <1>2

\* No kind of step makes or loses a credit.
LEMMA FundsKept ==
  ASSUME MoneyInv, ChargedRunsSucceeded, FundsInv, StepKind
  PROVE  FundsInv'
<1> USE DEF MoneyInv
<1>1. CASE RunsMove
  BY <1>1, FundsRest DEF RunsMove, money
<1>2. ASSUME NEW r \in Runs, NEW a \in Runs \cup {NoRun}, Creates(r, a)
      PROVE  FundsInv'
  <2>1. /\ wallet'.ledger = wallet.ledger
               \cup (IF Frees(a) THEN {<<"RELEASE", a>>} ELSE {})
               \cup (IF CanReserve(Freed(a)) THEN {<<"RESERVE", r>>} ELSE {})
        /\ wallet'.balance = wallet.balance
    BY <1>2, CreatesMoney, FreedMoney
  <2>2. charged' = charged
    BY <1>2, CreatesEffect
  <2> QED
    BY <2>1, <2>2, FundsRest
<1>3. ASSUME NEW r \in Runs, GivesBack(r)
      PROVE  FundsInv'
  <2>1. wallet'.balance = wallet.balance
    BY <1>3, GivesBackHold
  <2>2. wallet'.ledger \in {wallet.ledger, wallet.ledger \cup {<<"RELEASE", r>>}}
    BY <1>3, ReleasedMoney, NothingReleased DEF GivesBack
  <2>3. charged' = charged
    BY <1>3 DEF GivesBack
  <2> QED
    BY <2>1, <2>2, <2>3, FundsRest
<1>4. CASE Switches
  <2>1. wallet'.balance = wallet.balance /\ wallet'.ledger = wallet.ledger /\ charged' = charged
    BY <1>4 DEF Switches, TypeOK
  <2> QED
    BY <2>1, FundsRest
<1> QED
  BY <1>1, <1>2, <1>3, <1>4, SettlesFunds, CreditsFunds DEF StepKind

\* At the start nothing was credited or charged.
LEMMA InitFunds == Init => FundsInv
<1> SUFFICES ASSUME Init
             PROVE  FundsInv
  OBVIOUS
<1>1. CreditedTopUps = {} /\ ChargedCredits = {}
  BY PricingAssumption DEF Init, CreditedTopUps, ChargedCredits, PricingAssumption
<1>2. Cardinality({}) = 0 /\ IsFiniteSet({})
  BY FS_EmptySet
<1>3. InitialCredits \in Int /\ TopUpCredits \in Int
  BY RunsAssumption, PricingAssumption DEF RunsAssumption, PricingAssumption
<1>4. wallet.balance = InitialCredits
  BY DEF Init
<1> QED
  BY <1>1, <1>2, <1>3, <1>4 DEF FundsInv, FundsConserved

\* No credit appears or is lost: the balance is what was there, plus what top-ups
\* brought, less what the usage events charge, whatever fails or is released.
THEOREM FundsStayConserved == Spec => []FundsConserved
<1>1. AiInv /\ ChargedRunsSucceeded /\ FundsInv /\ [Next]_vars => FundsInv'
  BY EveryStepHasAKind, FundsKept DEF AiInv, MoneyInv
<1>2. Spec => []FundsInv
  BY <1>1, InitFunds, MoneyInvariant, ChargesAreEarned, PTL DEF Spec
<1>3. FundsInv => FundsConserved
  BY DEF FundsInv
<1> QED
  BY <1>2, <1>3, PTL

-----------------------------------------------------------------------------
(* Outcomes are final.                                                     *)

Final(r) ==
  /\ run[r] \in Terminal => run'[r] = run[r]
  /\ usage[r] \in {"CHARGED", "RELEASED", "SKIPPED"}
       => usage'[r] = usage[r] /\ charged'[r] = charged[r]

\* No kind of step takes an outcome back.
LEMMA OutcomesStay ==
  ASSUME TypeOK, RunInv, StepKind
  PROVE  \A x \in Runs : Final(x)
<1> USE DEF TypeOK, Final
<1>1. CASE RunsMove
  BY <1>1 DEF RunsMove, money, Active, Terminal
<1>2. ASSUME NEW r \in Runs, NEW a \in Runs \cup {NoRun}, Creates(r, a)
      PROVE  \A x \in Runs : Final(x)
  <2> DEFINE ok == CanReserve(Freed(a))
  <2>1. /\ run' = [x \in Runs |-> IF x = r THEN IF ok THEN "QUEUED" ELSE "SKIPPED"
                                  ELSE IF x = a THEN "SUPERSEDED" ELSE run[x]]
        /\ usage' = [x \in Runs |-> IF x = r THEN IF ok THEN "RESERVED" ELSE "SKIPPED"
                                    ELSE IF x = a THEN UsageReleased(x) ELSE usage[x]]
        /\ charged' = charged
    BY <1>2, CreatesEffect DEF Freed
  <2>2. run[r] = "none" /\ usage[r] = "none"
    BY <1>2 DEF Creates, RunInv, NoEventBeforeRun
  <2>3. a \in Runs => run[a] \in Active /\ usage[a] = "RESERVED"
    BY <1>2, SupersedesTheActiveRun, NoRunIsNoRun DEF RunInv, ActiveRunIsFunded
  <2> HIDE DEF ok
  <2> QED
    BY <2>1, <2>2, <2>3 DEF Active, Terminal
<1>3. ASSUME NEW r \in Runs, GivesBack(r)
      PROVE  \A x \in Runs : Final(x)
  BY <1>3 DEF GivesBack, UsageReleased, Active, Terminal
<1>4. ASSUME NEW r \in Runs, NEW d \in Decisions \cup {"FAILED"}, Settles(r, d)
      PROVE  \A x \in Runs : Final(x)
  <2>1. run' = [run EXCEPT ![r] = IF d = "FAILED" THEN "FAILED" ELSE "SUCCEEDED"]
    BY <1>4, SettlesEffect
  <2>2. run[r] \notin Terminal
    BY <1>4 DEF Settles, Executing, Terminal
  <2>3. \A x \in Runs : usage[x] \in {"CHARGED", "RELEASED", "SKIPPED"}
                          => usage'[x] = usage[x] /\ charged'[x] = charged[x]
    BY <1>4, SettlesEffect DEF money
  <2> QED
    BY <2>1, <2>2, <2>3
<1>5. CASE Switches
  BY <1>5 DEF Switches
<1>6. ASSUME NEW t \in TopUps, Credits(t)
      PROVE  \A x \in Runs : Final(x)
  BY <1>6 DEF Credits
<1> QED
  BY <1>1, <1>2, <1>3, <1>4, <1>5, <1>6 DEF StepKind

\* A run that ended never changes its status again, and a reservation that was
\* resolved is never resolved another way, whatever comes late.
THEOREM OutcomesNeverChange == Spec => OutcomesAreFinal
<1>1. AiInv /\ [Next]_vars => [\A r \in Runs : Final(r)]_vars
  BY EveryStepHasAKind, OutcomesStay DEF AiInv, MoneyInv
<1>2. Spec => [][\A r \in Runs : Final(r)]_vars
  BY <1>1, MoneyInvariant, PTL DEF Spec
<1> QED
  BY <1>2 DEF OutcomesAreFinal, Final

-----------------------------------------------------------------------------
(* One executor.                                                           *)

\* A run not yet created or waiting to be claimed has no executor.
IdleInv == \A r \in Runs : run[r] \in {"none", "QUEUED"} => exec[r] = "none"

\* The worker's own steps: a claim takes a run out of the queue, and only an
\* executor that leaves puts it back.
LEMMA WorkerKeepsIdle ==
  ASSUME TypeOK, IdleInv, NEW r \in Runs, WorkerStep(r)
  PROVE  IdleInv'
<1> USE DEF TypeOK, IdleInv, vars, worker, api, conversation, artefacts, money, Decisions, StopExecution
<1>1. CASE Trigger(r)
  <2>1. CASE ProcessTrigger(r) \/ CreateSkippedRun(r)
    BY <2>1 DEF ProcessTrigger, CreateSkippedRun
  <2>2. CASE CreateRunUnderLock(r)
    BY <2>2 DEF CreateRunUnderLock, SupersedeAndCreate
  <2> QED
    BY <1>1, <2>1, <2>2 DEF Trigger
<1>2. CASE Execute(r) /\ ~Commit(r)
  <2>1. CASE RunGeneration(r) \/ ToolCall(r) \/ HandoffTool(r) \/ HandoffToolTimesOut(r)
               \/ Decide(r) \/ GenerationFails(r)
    BY <2>1 DEF RunGeneration, ToolCall, HandoffTool, HandoffToolTimesOut, Decide, GenerationFails
  <2>2. CASE StartToolRound(r) \/ EndToolRound(r)
    BY <2>2 DEF StartToolRound, EndToolRound, TransitionActive
  <2>3. CASE ReleaseForRetry(r)
    BY <2>3 DEF ReleaseForRetry
  <2>4. CASE FinalizeFailed(r)
    BY <2>4 DEF FinalizeFailed
  <2> QED
    BY <1>2, <2>1, <2>2, <2>3, <2>4 DEF Execute
<1>3. CASE Commit(r)
  <2>1. CASE CommitObsolete(r) \/ CommitLost(r) \/ CommitThrows(r)
    BY <2>1 DEF CommitObsolete, CommitLost, CommitThrows
  <2>2. ASSUME NEW d, CommitGate(r, d)
        PROVE  IdleInv'
    BY <2>2 DEF CommitGate
  <2> QED
    BY <1>3, <2>1, <2>2
       DEF Commit, CommitBlockedByHandoff, CommitSuggestion, CommitAutoReply, CommitHandoff,
           CommitNoReply
<1>4. CASE LateHandoff(r) \/ SweepReservation(r)
  BY <1>4 DEF LateHandoff, SweepReservation
<1> QED
  BY <1>1, <1>2, <1>3, <1>4 DEF WorkerStep

\* Every step keeps it.
LEMMA StepKeepsIdle == TypeOK /\ IdleInv /\ [Next]_vars => IdleInv'
<1> SUFFICES ASSUME TypeOK, IdleInv, [Next]_vars
             PROVE  IdleInv'
  OBVIOUS
<1>1. CASE \E r \in Runs : WorkerStep(r)
  BY <1>1, WorkerKeepsIdle
<1> USE DEF TypeOK, IdleInv, vars, worker, api, conversation, artefacts, money
<1>2. ASSUME NEW c \in Attended, AgentStep(c)
      PROVE  IdleInv'
  <2>1. CASE HumanReply(c) \/ SetPaused(c) \/ RegenerateExpires(c) \/ RegenerateSupersedes(c)
    BY <2>1 DEF HumanReply, SetPaused, RegenerateExpires, RegenerateSupersedes
  <2>2. ASSUME NEW r \in Runs, SuggestionStep(r)
        PROVE  IdleInv'
    BY <2>2 DEF SuggestionStep, AcceptChecked, AcceptSends, AcceptConfirmed, Reject
  <2> QED
    BY <1>2, <2>1, <2>2 DEF AgentStep
<1>3. CASE \E c \in Conversations : ReceiveInbound(c)
  BY <1>3 DEF ReceiveInbound
<1>4. CASE SetMode \/ SetWalletStatus \/ (\E t \in TopUps : CreditTopUp(t))
  BY <1>4 DEF SetMode, SetWalletStatus, CreditTopUp
<1>5. CASE AbandonStaleRuns
  BY <1>5 DEF AbandonStaleRuns
<1>6. CASE Crash
  BY <1>6 DEF Crash
<1>7. CASE UNCHANGED vars
  BY <1>7
<1> QED
  BY <1>1, <1>2, <1>3, <1>4, <1>5, <1>6, <1>7 DEF Next

\* A run that may be claimed again has no executor left, so two workers never
\* generate the same run at once, whatever the retries, redeliveries and crashes.
THEOREM OneExecutor == Spec => []ClaimableMeansIdle
<1>1. Init => IdleInv
  BY DEF Init, IdleInv
<1>2. IdleInv => ClaimableMeansIdle
  BY DEF IdleInv, ClaimableMeansIdle
<1> QED
  BY <1>1, <1>2, StepKeepsIdle, TypeCorrect, PTL DEF Spec

-----------------------------------------------------------------------------
(* Replies.                                                                *)

\* What a reply rests on: the message of a run arrived, a suggestion being
\* accepted exists, and only a run that succeeded sent its reply.
ReplyInv ==
  \A r \in Runs : /\ run[r] # "none" \/ r \in checked => Arrived(r)
                  /\ r \in accepting => sug[r] # "none"
                  /\ r \in sent => run[r] = "SUCCEEDED"

\* What a step may do to replies and to what they rest on: only a commit makes one.
ReplyStep ==
  /\ \A c \in Conversations : inbound'[c] >= inbound[c]
  /\ \A x \in Runs :
       /\ run'[x] # "none" \/ x \in checked' => run[x] # "none" \/ x \in checked \/ Arrived(x)
       /\ x \in accepting' => x \in accepting \/ sug[x] # "none"
       /\ sug[x] # "none" => sug'[x] # "none"
       /\ sug[x] = "none" /\ sug'[x] # "none" => CommitSuggestion(x)
       /\ x \in sent' => x \in sent \/ CommitAutoReply(x)

\* A step that leaves replies alone makes none.
LEMMA NoReplyIsMade ==
  ASSUME TypeOK, ReplyInv,
         \A c \in Conversations : inbound'[c] >= inbound[c],
         \A x \in Runs : run'[x] # "none" => run[x] # "none" \/ x \in checked \/ Arrived(x),
         \A x \in Runs : x \in checked' => x \in checked \/ Arrived(x),
         \A x \in Runs : x \in accepting' => x \in accepting \/ sug[x] # "none",
         \A x \in Runs : sug[x] = "none" <=> sug'[x] = "none",
         sent' = sent
  PROVE  ReplyStep
  BY DEF ReplyStep

\* The worker's steps before a commit.
LEMMA ExecutionMakesNoReply ==
  ASSUME TypeOK, ReplyInv, NEW r \in Runs, WorkerStep(r), ~Commit(r)
  PROVE  ReplyStep
<1> USE DEF TypeOK, vars, worker, api, conversation, artefacts, money, StopExecution
<1>1. CASE ProcessTrigger(r) \/ CreateSkippedRun(r)
  BY <1>1, NoReplyIsMade DEF ProcessTrigger, CreateSkippedRun
<1>2. CASE CreateRunUnderLock(r)
  <2>1. CASE run[r] # "none"
    BY <1>2, <2>1, NoReplyIsMade DEF CreateRunUnderLock
  <2>2. CASE run[r] = "none"
    <3>1. PICK a \in FirstActive(Conv(r)) : SupersedeAndCreate(a, r)
      BY <1>2, <2>2 DEF CreateRunUnderLock
    <3>2. /\ r \in checked
          /\ UNCHANGED <<conversation, checked, api, sent>>
      BY <1>2, <3>1 DEF CreateRunUnderLock, SupersedeAndCreate
    <3>3. a \in Runs => run[a] # "none"
      BY NoRunIsNoRun DEF FirstActive, ActiveRuns, Active
    <3>4. \A x \in Runs : run'[x] # "none" => x = r \/ x = a \/ run[x] # "none"
      BY <3>1 DEF SupersedeAndCreate
    <3>5. \A x \in Runs : sug[x] = "none" <=> sug'[x] = "none"
      BY <3>1 DEF SupersedeAndCreate
    <3> QED
      BY <3>2, <3>3, <3>4, <3>5, NoReplyIsMade
  <2> QED
    BY <2>1, <2>2
<1>3. CASE RunGeneration(r) \/ ToolCall(r) \/ HandoffTool(r) \/ HandoffToolTimesOut(r)
             \/ Decide(r) \/ GenerationFails(r)
  BY <1>3, NoReplyIsMade
     DEF RunGeneration, ToolCall, HandoffTool, HandoffToolTimesOut, Decide, GenerationFails
<1>4. CASE StartToolRound(r) \/ EndToolRound(r)
  BY <1>4, NoReplyIsMade DEF StartToolRound, EndToolRound, TransitionActive
<1>5. CASE ReleaseForRetry(r)
  BY <1>5, NoReplyIsMade DEF ReleaseForRetry, Executing
<1>6. CASE FinalizeFailed(r)
  BY <1>6, NoReplyIsMade DEF FinalizeFailed, Executing
<1>7. CASE LateHandoff(r) \/ SweepReservation(r)
  BY <1>7, NoReplyIsMade DEF LateHandoff, SweepReservation
<1> QED
  BY <1>1, <1>2, <1>3, <1>4, <1>5, <1>6, <1>7 DEF WorkerStep, Trigger, Execute

\* A commit makes at most the reply of its own run.
LEMMA CommitMakesOneReply ==
  ASSUME TypeOK, ReplyInv, NEW r \in Runs, Commit(r)
  PROVE  ReplyStep
<1> USE DEF TypeOK, vars, worker, api, conversation, artefacts, money, StopExecution
<1>0. \A c \in Conversations : inbound[c] >= inbound[c]
  OBVIOUS
<1>1. CASE CommitObsolete(r) \/ CommitLost(r) \/ CommitThrows(r)
  BY <1>1, NoReplyIsMade DEF CommitObsolete, CommitLost, CommitThrows, Executing
<1>2. ASSUME NEW d, CommitGate(r, d)
      PROVE  /\ \A x \in Runs : run'[x] # "none" => run[x] # "none"
             /\ checked' = checked /\ accepting' = accepting
  BY <1>2 DEF CommitGate
<1>3. CASE CommitBlockedByHandoff(r) \/ CommitHandoff(r) \/ CommitNoReply(r)
  BY <1>0, <1>2, <1>3, NoReplyIsMade DEF CommitBlockedByHandoff, CommitHandoff, CommitNoReply
<1>4. CASE CommitSuggestion(r)
  <2>1. sug' = [sug EXCEPT ![r] = "PENDING"] /\ sent' = sent /\ inbound' = inbound
    BY <1>4 DEF CommitSuggestion
  <2> QED
    BY <1>0, <1>2, <1>4, <2>1 DEF ReplyStep, CommitSuggestion
<1>5. CASE CommitAutoReply(r)
  <2>1. sug' = sug /\ sent' = sent \cup {r} /\ inbound' = inbound
    BY <1>5 DEF CommitAutoReply
  <2> QED
    BY <1>0, <1>2, <1>5, <2>1 DEF ReplyStep, CommitAutoReply
<1> QED
  BY <1>1, <1>3, <1>4, <1>5 DEF Commit

\* Agents answer and handle suggestions; they make none.
LEMMA AgentsMakeNoReply ==
  ASSUME TypeOK, ReplyInv, NEW c \in Conversations, AgentStep(c)
  PROVE  ReplyStep
<1> USE DEF TypeOK, vars, worker, api, conversation, artefacts, money
<1>1. CASE HumanReply(c) \/ SetPaused(c)
  BY <1>1, NoReplyIsMade DEF HumanReply, SetPaused, AgentOutbound
<1>2. CASE RegenerateExpires(c)
  BY <1>2, NoReplyIsMade DEF RegenerateExpires, LatestPending
<1>3. CASE RegenerateSupersedes(c)
  <2>1. \A x \in Runs : run'[x] # "none" => run[x] # "none"
    BY <1>3 DEF RegenerateSupersedes, Active
  <2> QED
    BY <1>3, <2>1, NoReplyIsMade DEF RegenerateSupersedes
<1>4. ASSUME NEW r \in Runs, SuggestionStep(r)
      PROVE  ReplyStep
  <2>1. CASE AcceptChecked(r)
    BY <2>1, NoReplyIsMade DEF AcceptChecked
  <2>2. CASE AcceptSends(r)
    <3>1. sug[r] # "none"
      BY <2>2 DEF AcceptSends, ReplyInv
    <3> QED
      BY <2>2, <3>1, NoReplyIsMade DEF AcceptSends, AgentOutbound
  <2>3. CASE AcceptConfirmed(r)
    BY <2>3, NoReplyIsMade DEF AcceptConfirmed, AgentOutbound
  <2>4. CASE Reject(r)
    BY <2>4, NoReplyIsMade DEF Reject
  <2> QED
    BY <1>4, <2>1, <2>2, <2>3, <2>4 DEF SuggestionStep
<1> QED
  BY <1>1, <1>2, <1>3, <1>4 DEF AgentStep

\* So every step is a reply step.
LEMMA EveryStepIsAReplyStep ==
  ASSUME TypeOK, ReplyInv, [Next]_vars
  PROVE  ReplyStep
<1>1. CASE \E r \in Runs : WorkerStep(r)
  <2> PICK r \in Runs : WorkerStep(r)
    BY <1>1
  <2> QED
    BY ExecutionMakesNoReply, CommitMakesOneReply
<1>2. CASE \E c \in Attended : AgentStep(c)
  BY <1>2, AgentsMakeNoReply, RunsAssumption DEF RunsAssumption
<1> USE DEF TypeOK, vars, worker, api, conversation, artefacts, money
<1>3. CASE \E c \in Conversations : ReceiveInbound(c)
  BY <1>3, NoReplyIsMade DEF ReceiveInbound
<1>4. CASE SetMode \/ SetWalletStatus \/ (\E t \in TopUps : CreditTopUp(t))
  BY <1>4, NoReplyIsMade DEF SetMode, SetWalletStatus, CreditTopUp
<1>5. CASE AbandonStaleRuns
  BY <1>5, NoReplyIsMade DEF AbandonStaleRuns
<1>6. CASE Crash
  BY <1>6, NoReplyIsMade DEF Crash
<1>7. CASE UNCHANGED vars
  BY <1>7, NoReplyIsMade
<1> QED
  BY <1>1, <1>2, <1>3, <1>4, <1>5, <1>6, <1>7 DEF Next

\* Every step keeps what replies rest on.
LEMMA RepliesStaySound ==
  ASSUME AiInv, ReplyInv, [Next]_vars, TypeOK'
  PROVE  ReplyInv'
<1>1. ReplyStep
  BY EveryStepIsAReplyStep DEF AiInv, TypeInv
<1>2. \A r \in Runs : Final(r)
  BY EveryStepHasAKind, OutcomesStay DEF AiInv, MoneyInv
<1> SUFFICES ASSUME NEW r \in Runs
             PROVE  /\ run'[r] # "none" \/ r \in checked' => Arrived(r)'
                    /\ r \in accepting' => sug'[r] # "none"
                    /\ r \in sent' => run'[r] = "SUCCEEDED"
  BY DEF ReplyInv
<1>3. run'[r] # "none" \/ r \in checked' => Arrived(r)'
  <2>1. run'[r] # "none" \/ r \in checked' => Arrived(r)
    BY <1>1 DEF ReplyStep, ReplyInv
  <2>2. /\ inbound[Conv(r)] \in Int /\ inbound'[Conv(r)] \in Int /\ Index(r) \in Int
        /\ inbound'[Conv(r)] >= inbound[Conv(r)]
    BY <1>1, RunParts DEF ReplyStep, AiInv, TypeInv, TypeOK
  <2> QED
    BY <2>1, <2>2 DEF Arrived
<1>4. r \in accepting' => sug'[r] # "none"
  BY <1>1 DEF ReplyStep, ReplyInv
<1>5. r \in sent' => run'[r] = "SUCCEEDED"
  <2>1. CASE r \in sent
    BY <1>2, <2>1 DEF ReplyInv, Final, Terminal
  <2>2. CASE CommitAutoReply(r)
    BY <2>2 DEF CommitAutoReply, CommitGate, AiInv, TypeInv, TypeOK
  <2> QED
    BY <1>1, <2>1, <2>2 DEF ReplyStep
<1> QED
  BY <1>3, <1>4, <1>5

\* A reply answers the last message of its customer, on the terms of its mode.
Fresh(r) ==
  /\ Index(r) = inbound[Conv(r)]
  /\ outbound[Conv(r)] < Index(r)
  /\ handoff[Conv(r)] = NoRun
  /\ mode # "DISABLED"
  /\ r \in sent' => ~paused[Conv(r)] /\ mode = "AUTO_REPLY"

\* Every reply a step makes does.
LEMMA NewRepliesAreFresh ==
  ASSUME AiInv, ReplyInv, [Next]_vars
  PROVE  \A r \in NewReplies : Fresh(r)
<1> SUFFICES ASSUME NEW r \in NewReplies
             PROVE  Fresh(r)
  OBVIOUS
<1>1. r \in Runs /\ (CommitSuggestion(r) \/ CommitAutoReply(r))
  BY EveryStepIsAReplyStep DEF ReplyStep, NewReplies, AiInv, TypeInv
<1>2. CommitGate(r, "SUGGESTION") /\ handoff[Conv(r)] = NoRun
  BY <1>1 DEF CommitSuggestion, CommitAutoReply
<1>3. run[r] = "RUNNING" /\ ~Obsolete(r)
  BY <1>2 DEF CommitGate
<1>4. Index(r) = inbound[Conv(r)] /\ outbound[Conv(r)] < Index(r) /\ mode # "DISABLED"
  <2>1. Arrived(r)
    BY <1>1, <1>3 DEF ReplyInv
  <2>2. inbound[Conv(r)] \in Int /\ outbound[Conv(r)] \in Int /\ Index(r) \in Int
    BY <1>1, RunParts DEF AiInv, TypeInv, TypeOK
  <2> QED
    BY <1>3, <2>1, <2>2 DEF Arrived, Obsolete
<1>5. r \in sent' => ~paused[Conv(r)] /\ mode = "AUTO_REPLY"
  <2>1. r \notin sent
    BY <1>1, <1>3 DEF ReplyInv
  <2> QED
    BY <1>1, <2>1 DEF CommitSuggestion, CommitAutoReply, AutoReplyAllowed
<1> QED
  BY <1>2, <1>4, <1>5 DEF Fresh

\* A reply is only proposed or sent for the last message of a customer, still
\* unanswered, while no human has the conversation and the AI is on, whatever
\* happened between the reading of the conversation and the commit.
THEOREM RepliesStayFresh == Spec => RepliesAreFresh
<1>1. Init => ReplyInv
  BY DEF Init, ReplyInv
<1>2. AiInv /\ TypeOK' /\ ReplyInv /\ [Next]_vars => ReplyInv'
  BY RepliesStaySound
<1>3. Spec => []ReplyInv
  BY <1>1, <1>2, MoneyInvariant, TypeCorrect, PTL DEF Spec
<1>4. AiInv /\ ReplyInv /\ [Next]_vars => [\A r \in NewReplies : Fresh(r)]_vars
  BY NewRepliesAreFresh
<1>5. Spec => [][\A r \in NewReplies : Fresh(r)]_vars
  BY <1>3, <1>4, MoneyInvariant, PTL DEF Spec
<1> QED
  BY <1>5 DEF RepliesAreFresh, Fresh

-----------------------------------------------------------------------------
(* The wallet implements the abstract account.                             *)

\* The account starts empty of holds.
LEMMA InitAccount == Init => Account!Init
<1> SUFFICES ASSUME Init
             PROVE  Account!Init
  OBVIOUS
<1>1. HeldRuns = {} /\ ReleasedRuns = {}
  BY DEF Init, HeldRuns, ReleasedRuns
<1>2. wallet.balance \in Nat
  BY RunsAssumption, PricingAssumption DEF Init, RunsAssumption, PricingAssumption
<1> QED
  BY <1>1, <1>2 DEF Account!Init

\* The account counts its holds as the wallet does.
LEMMA CoveredMeans ==
  \A b, h : Account!Covered(b, h) <=> MAX_CREDITS_PER_AI_RUN * Cardinality(h) <= b
  BY DEF Account!Covered, Account!Cardinality, Cardinality

\* A run whose hold ends without a new one settles in the account.
LEMMA SettlesInAccount ==
  ASSUME NEW r \in HeldRuns, TypeOK', ReservedIsHeldAndCovered',
         HeldRuns' = HeldRuns \ {r}, ReleasedRuns' = ReleasedRuns \cup {r},
         wallet'.balance \in (wallet.balance - MAX_CREDITS_PER_AI_RUN)..wallet.balance
  PROVE  Account!Next
<1>1. Account!Covered(wallet'.balance, HeldRuns')
  <2>1. MAX_CREDITS_PER_AI_RUN * Cardinality(HeldRuns') <= wallet'.balance
    BY DEF ReservedIsHeldAndCovered, BalancesValid
  <2> QED
    BY <2>1, CoveredMeans
<1>2. Account!Settle(r)
  BY <1>1 DEF Account!Settle
<1> QED
  BY <1>2 DEF Account!Next

\* Every kind of step is a step of the account, or none.
LEMMA StepOfAccount ==
  ASSUME MoneyInv, MoneyInv', StepKind
  PROVE  [Account!Next]_(Account!vars)
<1> USE DEF MoneyInv, Account!vars
<1>0. MAX_CREDITS_PER_AI_RUN \in Nat /\ wallet.balance \in Int
  BY PricingAssumption DEF PricingAssumption, TypeOK
<1>1. CASE RunsMove
  BY <1>1 DEF RunsMove, money, HeldRuns, ReleasedRuns
<1>2. ASSUME NEW r \in Runs, NEW a \in Runs \cup {NoRun}, Creates(r, a)
      PROVE  [Account!Next]_(Account!vars)
  <2>1. /\ HeldRuns' = (HeldRuns \ (IF Frees(a) THEN {a} ELSE {}))
                          \cup (IF CanReserve(Freed(a)) THEN {r} ELSE {})
        /\ ReleasedRuns' = ReleasedRuns \cup (IF Frees(a) THEN {a} ELSE {})
        /\ wallet'.balance = wallet.balance
        /\ Frees(a) => a \in HeldRuns
        /\ r \notin HeldRuns /\ r \notin ReleasedRuns
    BY <1>2, CreatesHolds, CreatesMoney, CreatesHold, FreedMoney
  <2>2. CASE CanReserve(Freed(a))
    <3> DEFINE over == IF Frees(a) THEN {a} ELSE {}
    <3>1. over \in SUBSET HeldRuns
      BY <2>1
    <3>2. Account!Covered(wallet.balance, HeldRuns')
      <4>1. MAX_CREDITS_PER_AI_RUN * Cardinality(HeldRuns') <= wallet.balance
        BY <2>1 DEF ReservedIsHeldAndCovered, BalancesValid
      <4> QED
        BY <4>1, CoveredMeans
    <3>3. HeldRuns' = (HeldRuns \ over) \cup {r} /\ ReleasedRuns' = ReleasedRuns \cup over
      BY <2>1, <2>2
    <3> HIDE DEF over
    <3>4. Account!Hold(r, over)
      BY <2>1, <3>2, <3>3 DEF Account!Hold
    <3> QED
      BY <3>1, <3>4 DEF Account!Next
  <2>3. CASE ~CanReserve(Freed(a)) /\ Frees(a)
    <3>1. HeldRuns' = HeldRuns \ {a} /\ ReleasedRuns' = ReleasedRuns \cup {a} /\ a \in HeldRuns
      BY <2>1, <2>3
    <3>2. wallet'.balance \in (wallet.balance - MAX_CREDITS_PER_AI_RUN)..wallet.balance
      BY <1>0, <2>1
    <3> QED
      BY <3>1, <3>2, SettlesInAccount
  <2>4. CASE ~CanReserve(Freed(a)) /\ ~Frees(a)
    BY <2>1, <2>4
  <2> QED
    BY <2>2, <2>3, <2>4
<1>3. ASSUME NEW r \in Runs, GivesBack(r)
      PROVE  [Account!Next]_(Account!vars)
  <2>1. wallet'.balance \in (wallet.balance - MAX_CREDITS_PER_AI_RUN)..wallet.balance
    BY <1>0, <1>3, GivesBackHold
  <2> QED
    BY <1>3, <2>1, GivesBackHold, SettlesInAccount
<1>4. ASSUME NEW r \in Runs, NEW d \in Decisions \cup {"FAILED"}, Settles(r, d)
      PROVE  [Account!Next]_(Account!vars)
  BY <1>4, SettlesHold, SettlesInAccount
<1>5. CASE Switches
  BY <1>5, SwitchesHold
<1>6. ASSUME NEW t \in TopUps, Credits(t)
      PROVE  [Account!Next]_(Account!vars)
  BY <1>6, CreditsHold DEF Account!Next, Account!Credit
<1> QED
  BY <1>1, <1>2, <1>3, <1>4, <1>5, <1>6 DEF StepKind

\* To its runs the wallet is a simple account: each run holds the maximum once,
\* always covered, and its hold ends once, at a bounded cost.
THEOREM WalletImplementsAccount == Spec => ImplementsCreditAccount
<1>1. AiInv /\ AiInv' /\ [Next]_vars => [Account!Next]_(Account!vars)
  BY EveryStepHasAKind, StepOfAccount DEF AiInv
<1> QED
  BY <1>1, InitAccount, MoneyInvariant, PTL DEF Spec, ImplementsCreditAccount, Account!Spec
==============================================================================
