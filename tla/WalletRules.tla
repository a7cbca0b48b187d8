----------------------------- MODULE WalletRules -----------------------------
(***************************************************************************)
(* The pure rules of packages/wallet: how one movement changes the two     *)
(* balances of an organization's wallet, what an AI run costs, and which   *)
(* status changes a wallet allows.  They are shared by the API and by the  *)
(* worker, whose applyMovementInTx are mirrors of each other.              *)
(*                                                                         *)
(* A wallet is a record [balance, reserved, status, ledger].  The ledger   *)
(* (table wallet_transactions) is the set of idempotency keys already      *)
(* written; a key <<direction, reference>> names one movement.             *)
(***************************************************************************)
EXTENDS Integers

CONSTANTS MAX_CREDITS_PER_AI_RUN,   \* what a run reserves, and the most it costs
          WALLET_MAX_CREDITS        \* cap on a balance (10^9 in the code)

ASSUME PricingAssumption ==
  /\ MAX_CREDITS_PER_AI_RUN \in Nat /\ MAX_CREDITS_PER_AI_RUN >= 1
  /\ WALLET_MAX_CREDITS \in Nat

WalletStatus == {"ACTIVE", "SUSPENDED", "CLOSED"}

Directions == {"CREDIT", "DEBIT", "RESERVE", "RELEASE"}

\* WALLET_STATUS_TRANSITIONS: CLOSED is terminal.
CanTransitionWalletStatus(from, to) ==
  \/ from = "ACTIVE"    /\ to \in {"SUSPENDED", "CLOSED"}
  \/ from = "SUSPENDED" /\ to \in {"ACTIVE", "CLOSED"}

AvailableCredits(w) == w.balance - w.reserved

\* assertBalancesValid, and the CHECK constraints of the wallets table.
BalancesValid(w) ==
  /\ w.balance >= 0
  /\ w.reserved >= 0
  /\ w.reserved <= w.balance
  /\ w.balance <= WALLET_MAX_CREDITS

\* The arithmetic of computeBalancesAfter.
Moved(w, direction, amount) ==
  CASE direction = "CREDIT"  -> [w EXCEPT !.balance  = @ + amount]
    [] direction = "DEBIT"   -> [w EXCEPT !.balance  = @ - amount]
    [] direction = "RESERVE" -> [w EXCEPT !.reserved = @ + amount]
    [] direction = "RELEASE" -> [w EXCEPT !.reserved = @ - amount]

\* applyMovementInTx raises: the wallet's status forbids the movement, or the
\* balances before or after it break an invariant.  A key already in the
\* ledger is answered before any of these tests.
MovementThrows(w, direction, ref, amount) ==
  /\ <<direction, ref>> \notin w.ledger
  /\ \/ w.status = "CLOSED"
     \/ direction \in {"RESERVE", "DEBIT"} /\ w.status # "ACTIVE"
     \/ ~BalancesValid(w)
     \/ ~BalancesValid(Moved(w, direction, amount))

\* Mutant: the idempotency key is written but not looked up.
ApplyMovementAgain(w, direction, ref, amount) ==
  [Moved(w, direction, amount) EXCEPT !.ledger = @ \cup {<<direction, ref>>}]

\* What applyMovementInTx leaves behind when it does not raise: a key already
\* written is a replay and changes nothing.
ApplyMovement(w, direction, ref, amount) ==
  IF <<direction, ref>> \in w.ledger
  THEN w
  ELSE [Moved(w, direction, amount) EXCEPT !.ledger = @ \cup {<<direction, ref>>}]

-----------------------------------------------------------------------------
\* The price of the tools that succeeded, however many there were.
ToolGrid(successfulToolCalls) ==
  CASE successfulToolCalls = 0 -> 1
    [] successfulToolCalls = 1 -> 2
    [] OTHER                   -> MAX_CREDITS_PER_AI_RUN

\* computeAiRunCredits, grid v1: only SUGGEST_REPLY is billed.
RunCredits(outcome, successfulToolCalls) ==
  IF outcome # "SUGGEST_REPLY" THEN 0
  ELSE IF ToolGrid(successfulToolCalls) < MAX_CREDITS_PER_AI_RUN
       THEN ToolGrid(successfulToolCalls)
       ELSE MAX_CREDITS_PER_AI_RUN
=============================================================================
