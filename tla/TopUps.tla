-------------------------------- MODULE TopUps --------------------------------
(***************************************************************************)
(* Top-ups of a wallet: an organization pays a provider (Genius Pay), and  *)
(* the API credits the wallet once it has proof of the payment.            *)
(*                                                                         *)
(*  - createTopUp writes the top-up, then opens a payment with the         *)
(*    provider outside any transaction, then records its identifier;       *)
(*  - the provider reports each change by a webhook, delivered any number  *)
(*    of times, in any order, or never; the API stores it in a durable     *)
(*    inbox, then applies it;                                              *)
(*  - the reconciliation sweep expires old top-ups, applies what is left   *)
(*    in the inbox and polls the provider (payment-reconciliation.service).*)
(*                                                                         *)
(* The one rule of all of them is that only creditTopUp, under the lock of *)
(* the top-up, credits the wallet.  Everything else reads a status and     *)
(* writes the next one with a conditional update.                          *)
(***************************************************************************)
EXTENDS WalletRules, FiniteSets

CONSTANTS TopUps,         \* top-ups that may be created
          Outcomes,       \* statuses that payments take at the provider
          Credits,        \* creditsGranted + bonusCredits of a top-up
          InitialCredits, \* balance at the start
          StatusTargets,  \* statuses an administrator gives the wallet
          BatchSize,      \* how many events or top-ups a phase of the sweep takes (50)
          Errors,         \* whether calls may fail and the API process may die
          Sweep           \* the reconciliation sweep of the API process

TopUpStatus == {"PENDING", "PROCESSING", "PAID", "FAILED", "CANCELLED", "EXPIRED",
                "REFUNDED", "REVIEW_REQUIRED"}

PaymentFailures == {"FAILED", "CANCELLED", "EXPIRED"}

\* What the provider reports; PENDING is not worth a report.
Reports == {"PROCESSING", "PAID", "REFUNDED"} \cup PaymentFailures

\* A webhook event, or the answer to a poll: a top-up and the status of its payment.
Events == TopUps \X Reports

Target(e) == e[1]
Report(e) == e[2]

\* Whoever applies an event: the request that received it, or the sweep.
Workers == Events \cup {Sweep}

ASSUME TopUpsAssumption ==
  /\ IsFiniteSet(TopUps)
  /\ Outcomes \subseteq Reports
  /\ Credits \in Nat \ {0}
  /\ InitialCredits \in 0..WALLET_MAX_CREDITS
  /\ StatusTargets \subseteq WalletStatus
  /\ BatchSize \in Nat \ {0}
  /\ Errors \in BOOLEAN
  /\ Sweep \notin Events

VARIABLES
  \* The database.
  topup,    \* topup[t]: status, "none" before it is created
  linked,   \* top-ups whose providerPaymentId is recorded
  inbox,    \* inbox[e]: status of the PaymentWebhookEvent, or "none"
  wallet,   \* [balance, reserved, status, ledger]
  \* The provider.
  payment,  \* payment[t]: status of the payment, "none" before it is opened
  emitted,  \* webhook events sent at least once
  misreported, \* top-ups whose payment was made with another amount or currency than
            \* the top-up's, or reports none
  \* What the API remembers.
  opening,  \* opening[t]: how far createTopUp is
  job,      \* job[w]: "none", "apply", the status transitionTopUp has read, or "mark"
  sweep,    \* phase of the sweep
  todo,     \* what is left of the batch of its phase
  current,  \* the event it is applying
  \* Time.
  aged      \* top-ups older than PAYMENT_RECONCILIATION_MAX_AGE_MS

database == <<topup, linked, inbox, wallet>>
provider == <<payment, emitted, misreported>>
sweeping == <<sweep, todo, current>>
vars == <<database, provider, opening, job, sweeping, aged>>

InitialWallet == [balance |-> InitialCredits, reserved |-> 0, status |-> "ACTIVE", ledger |-> {}]

Init ==
  /\ topup = [t \in TopUps |-> "none"]
  /\ linked = {}
  /\ inbox = [e \in Events |-> "none"]
  /\ wallet = InitialWallet
  /\ payment = [t \in TopUps |-> "none"]
  /\ emitted = {}
  /\ misreported = {}
  /\ opening = [t \in TopUps |-> "none"]
  /\ job = [w \in Workers |-> "none"]
  /\ sweep = "idle"
  /\ todo = {}
  /\ current = Sweep
  /\ aged = {}

Open == {"PENDING", "PROCESSING"}
Credited == {"PAID", "REFUNDED"}

\* TOPUP_STATUS_TRANSITIONS: only a PAID top-up is not at its end, as it may be
\* refunded.
CanTransitionTopUp(from, to) ==
  \/ from \in Open   /\ to \in {"PAID", "REVIEW_REQUIRED"} \cup PaymentFailures
  \/ from = "PENDING" /\ to = "PROCESSING"
  \/ from = "PAID"    /\ to = "REFUNDED"

-----------------------------------------------------------------------------
(* createTopUp.                                                            *)

CreateTopUp(t) ==
  /\ topup[t] = "none"
  /\ topup' = [topup EXCEPT ![t] = "PENDING"]
  /\ opening' = [opening EXCEPT ![t] = "calling"]
  /\ UNCHANGED <<linked, inbox, wallet, provider, job, sweeping, aged>>

\* createPayment opens a payment, unless the call fails; and it may fail after the
\* provider has opened it ...
OpenPayment(t) ==
  /\ opening[t] = "calling"
  /\ \/ /\ payment' = [payment EXCEPT ![t] = "PENDING"]
        /\ opening' = [opening EXCEPT ![t] = "linking"]
     \/ /\ Errors
        /\ payment' \in {payment, [payment EXCEPT ![t] = "PENDING"]}
        /\ opening' = [opening EXCEPT ![t] = "none"]
  /\ UNCHANGED <<database, emitted, misreported, job, sweeping, aged>>

\* ... and its identifier is recorded.
LinkPayment(t) ==
  /\ opening[t] = "linking"
  /\ linked' = linked \cup {t}
  /\ opening' = [opening EXCEPT ![t] = "none"]
  /\ UNCHANGED <<topup, inbox, wallet, provider, job, sweeping, aged>>

-----------------------------------------------------------------------------
(* The provider.                                                           *)

ProviderTransition(from, to) ==
  \/ from = "PENDING"    /\ to \in {"PROCESSING", "PAID"} \cup PaymentFailures
  \/ from = "PROCESSING" /\ to \in {"PAID"} \cup PaymentFailures
  \/ from = "PAID"       /\ to = "REFUNDED"

\* The amount and currency reported with a payment are those of the top-up, or not.
ProviderMoves(t) ==
  \E to \in Outcomes :
    /\ ProviderTransition(payment[t], to)
    /\ payment' = [payment EXCEPT ![t] = to]
    /\ emitted' = emitted \cup {<<t, to>>}
    /\ misreported' \in IF to = "PAID" THEN {misreported, misreported \cup {t}} ELSE {misreported}
    /\ UNCHANGED <<database, opening, job, sweeping, aged>>

\* Time passes.
GrowsOld(t) ==
  /\ topup[t] # "none"
  /\ t \notin aged
  /\ aged' = aged \cup {t}
  /\ UNCHANGED <<database, provider, opening, job, sweeping>>

-----------------------------------------------------------------------------
(* Applying an outcome: TopUpService.applyPaymentOutcome.                  *)

EventOf(w) == IF w = Sweep THEN current ELSE w

\* checkPaymentAmount.
AmountMatches(t) == t \notin misreported

\* Mutant: the amount reported is not looked at.
CreditsAnyAmount(e) == Report(e) = "PAID"

\* Mutant: a payment that is only on its way is credited.
CreditsEarly(e) == Report(e) \in {"PROCESSING", "PAID"} /\ AmountMatches(Target(e))

CreditsWallet(e) == Report(e) = "PAID" /\ AmountMatches(Target(e))

\* The status that an outcome other than a credit asks for.
NextStatus(e) == IF Report(e) = "PAID" THEN "REVIEW_REQUIRED" ELSE Report(e)

JobGoesOn(w, phase) == job' = [job EXCEPT ![w] = phase]

CreditThrows(t) ==
  \/ ~CanTransitionTopUp(topup[t], "PAID")
  \/ MovementThrows(wallet, "CREDIT", t, Credits)

\* Mutant: an error is not told from a success.
CreditOrMark(w) ==
  LET t == Target(EventOf(w)) IN
  /\ job[w] = "apply"
  /\ CreditsWallet(EventOf(w))
  /\ JobGoesOn(w, "mark")
  /\ IF topup[t] = "PAID" \/ CreditThrows(t)
     THEN UNCHANGED <<topup, wallet>>
     ELSE /\ topup' = [topup EXCEPT ![t] = "PAID"]
          /\ wallet' = ApplyMovement(wallet, "CREDIT", t, Credits)
  /\ UNCHANGED <<linked, inbox, provider, opening, sweeping, aged>>

\* creditTopUp, one transaction under the lock of the top-up: nothing if it is
\* PAID; an error if it may not become PAID or the wallet takes no credit.
CreditTopUp(w) ==
  LET t == Target(EventOf(w)) IN
  /\ job[w] = "apply"
  /\ CreditsWallet(EventOf(w))
  /\ IF topup[t] # "PAID" /\ CreditThrows(t)
     THEN JobGoesOn(w, "none") ELSE JobGoesOn(w, "mark")
  /\ IF topup[t] = "PAID" \/ CreditThrows(t)
     THEN UNCHANGED <<topup, wallet>>
     ELSE /\ topup' = [topup EXCEPT ![t] = "PAID"]
          /\ wallet' = ApplyMovement(wallet, "CREDIT", t, Credits)
  /\ UNCHANGED <<linked, inbox, provider, opening, sweeping, aged>>

\* transitionTopUp reads the status, and gives up when it does not allow the next ...
ReadTopUp(w) ==
  LET e == EventOf(w) IN
  /\ job[w] = "apply"
  /\ ~CreditsWallet(e)
  /\ JobGoesOn(w, IF CanTransitionTopUp(topup[Target(e)], NextStatus(e))
                  THEN topup[Target(e)] ELSE "mark")
  /\ UNCHANGED <<database, provider, opening, sweeping, aged>>

\* ... then writes, if the status is still the one it has read.
SwapTopUp(w) ==
  LET e == EventOf(w) IN
  /\ job[w] \in TopUpStatus
  /\ topup' = [topup EXCEPT ![Target(e)] = IF @ = job[w] THEN NextStatus(e) ELSE @]
  /\ JobGoesOn(w, "mark")
  /\ UNCHANGED <<linked, inbox, wallet, provider, opening, sweeping, aged>>

\* The event is PROCESSED; the answer to a poll is no event.
MarkProcessed(w) ==
  /\ job[w] = "mark"
  /\ IF w = Sweep /\ sweep = "poll"
     THEN UNCHANGED inbox
     ELSE inbox' = [inbox EXCEPT ![EventOf(w)] = "PROCESSED"]
  /\ JobGoesOn(w, "none")
  /\ UNCHANGED <<topup, linked, wallet, provider, opening, sweeping, aged>>

\* An error before or between these steps, like an answer of the provider that
\* does not come, leaves the event RECEIVED.
JobFails(w) ==
  /\ Errors
  /\ job[w] # "none"
  /\ JobGoesOn(w, "none")
  /\ UNCHANGED <<database, provider, opening, sweeping, aged>>

-----------------------------------------------------------------------------
(* Webhooks: PaymentWebhookService.handleGeniusPay.                        *)

\* The unique externalEventId makes every other delivery of the event a no-op.
ReceiveWebhook(e) ==
  /\ e \in emitted
  /\ inbox[e] = "none"
  /\ inbox' = [inbox EXCEPT ![e] = "RECEIVED"]
  /\ JobGoesOn(e, "apply")
  /\ UNCHANGED <<topup, linked, wallet, provider, opening, sweeping, aged>>

-----------------------------------------------------------------------------
(* Reconciliation: PaymentReconciliationService.sweep.                     *)

\* Mutant: only PENDING top-ups expire.
SweepExpiresPending ==
  /\ sweep = "idle"
  /\ topup' = [t \in TopUps |-> IF topup[t] = "PENDING" /\ t \in aged THEN "EXPIRED"
                                ELSE topup[t]]
  /\ sweep' = "expired"
  /\ UNCHANGED <<linked, inbox, wallet, provider, opening, job, todo, current, aged>>

\* 1. Open top-ups beyond the window expire, by one bulk update.
SweepExpires ==
  /\ sweep = "idle"
  /\ topup' = [t \in TopUps |-> IF topup[t] \in Open /\ t \in aged THEN "EXPIRED"
                                ELSE topup[t]]
  /\ sweep' = "expired"
  /\ UNCHANGED <<linked, inbox, wallet, provider, opening, job, todo, current, aged>>

\* `take: BATCH_SIZE`, in no stated order.
Batches(S) ==
  {B \in SUBSET S : \/ B = S /\ Cardinality(S) <= BatchSize
                    \/ Cardinality(B) = BatchSize}

\* 2. Events that stayed RECEIVED are applied, one after the other.
SweepReadsInbox ==
  /\ sweep = "expired"
  /\ sweep' = "replay"
  /\ todo' \in Batches({e \in Events : inbox[e] = "RECEIVED"})
  /\ UNCHANGED <<database, provider, opening, job, current, aged>>

SweepApplies(e) ==
  /\ job[Sweep] = "none"
  /\ current' = e
  /\ JobGoesOn(Sweep, "apply")

SweepReplays ==
  /\ sweep = "replay"
  /\ \E e \in todo : SweepApplies(e) /\ todo' = todo \ {e}
  /\ UNCHANGED <<database, provider, opening, sweep, aged>>

\* 3. Open top-ups within the window are polled.
SweepReadsOpen ==
  /\ sweep = "replay"
  /\ todo = {}
  /\ job[Sweep] = "none"
  /\ sweep' = "poll"
  /\ todo' \in Batches({t \in linked : topup[t] \in Open /\ t \notin aged})
  /\ UNCHANGED <<database, provider, opening, job, current, aged>>

\* An answer PENDING, like no answer, changes nothing.
SweepPolls ==
  /\ sweep = "poll"
  /\ \E t \in todo :
       /\ todo' = todo \ {t}
       /\ IF payment[t] \in Reports
          THEN SweepApplies(<<t, payment[t]>>)
          ELSE job[Sweep] = "none" /\ UNCHANGED <<job, current>>
  /\ UNCHANGED <<database, provider, opening, sweep, aged>>

SweepEnds ==
  /\ sweep = "poll"
  /\ todo = {}
  /\ job[Sweep] = "none"
  /\ sweep' = "idle"
  /\ current' = Sweep
  /\ UNCHANGED <<database, provider, opening, job, todo, aged>>

\* A query of the sweep itself fails: what is left waits for the next one.
SweepFails ==
  /\ Errors
  /\ sweep # "idle"
  /\ job[Sweep] = "none"
  /\ sweep' = "idle"
  /\ todo' = {}
  /\ current' = Sweep
  /\ UNCHANGED <<database, provider, opening, job, aged>>

-----------------------------------------------------------------------------
\* An administrator changes the wallet's status.
SetWalletStatus ==
  /\ \E to \in StatusTargets :
       /\ CanTransitionWalletStatus(wallet.status, to)
       /\ wallet' = [wallet EXCEPT !.status = to]
  /\ UNCHANGED <<topup, linked, inbox, provider, opening, job, sweeping, aged>>

\* The API process dies; the inbox is durable.
Crash ==
  /\ Errors
  /\ opening' = [t \in TopUps |-> "none"]
  /\ job' = [w \in Workers |-> "none"]
  /\ sweep' = "idle"
  /\ todo' = {}
  /\ current' = Sweep
  /\ UNCHANGED <<database, provider, aged>>

-----------------------------------------------------------------------------
ApplyOutcome(w) ==
  CreditTopUp(w) \/ ReadTopUp(w) \/ SwapTopUp(w) \/ MarkProcessed(w)

SweepStep ==
  \/ SweepExpires \/ SweepReadsInbox \/ SweepReplays
  \/ SweepReadsOpen \/ SweepPolls \/ SweepEnds

TopUpStep(t) ==
  CreateTopUp(t) \/ OpenPayment(t) \/ LinkPayment(t) \/ ProviderMoves(t) \/ GrowsOld(t)

Next ==
  \/ \E t \in TopUps : TopUpStep(t)
  \/ \E e \in Events : ReceiveWebhook(e)
  \/ \E w \in Workers : ApplyOutcome(w) \/ JobFails(w)
  \/ SweepStep \/ SweepFails
  \/ SetWalletStatus
  \/ Crash

Spec == Init /\ [][Next]_vars

\* What the process does on its own: a timer calls the sweep again and again, and a
\* sweep goes on.  Nothing is asked of the organization, of the provider, nor of the
\* requests that bring webhooks.
Fairness ==
  /\ \A t \in TopUps : WF_vars(GrowsOld(t))
  /\ WF_vars(ApplyOutcome(Sweep))
  /\ WF_vars(SweepStep)

FairSpec == Spec /\ Fairness

-----------------------------------------------------------------------------
(* Properties.                                                             *)

TypeOK ==
  /\ topup \in [TopUps -> TopUpStatus \cup {"none"}]
  /\ linked \subseteq TopUps
  /\ inbox \in [Events -> {"none", "RECEIVED", "PROCESSED"}]
  /\ wallet \in [balance: Int, reserved: Int, status: WalletStatus,
                 ledger: SUBSET ({"CREDIT"} \X TopUps)]
  /\ payment \in [TopUps -> Reports \cup {"none", "PENDING"}]
  /\ emitted \subseteq Events
  /\ misreported \subseteq TopUps
  /\ opening \in [TopUps -> {"none", "calling", "linking"}]
  /\ job \in [Workers -> {"none", "apply", "mark"} \cup TopUpStatus]
  /\ sweep \in {"idle", "expired", "replay", "poll"}
  /\ todo \subseteq IF sweep = "poll" THEN TopUps ELSE Events
  /\ current \in Workers
  /\ aged \subseteq TopUps

\* The ledger of the wallet and the statuses of the top-ups, which several
\* requests and the sweep write, tell the same story: a top-up has its credit in
\* the ledger exactly when it is PAID, or was and is REFUNDED (creditTopUp).
CreditedMeansPaid ==
  \A t \in TopUps : <<"CREDIT", t>> \in wallet.ledger <=> topup[t] \in Credited

\* No status is ahead of the payment, nor about another payment: whatever the
\* order in which events are applied, a top-up only fails with its payment, is only
\* PAID for a payment of its exact amount, and is only put in review for a
\* payment that arrived with another one (D4, applyPaymentOutcome).
TopUpFollowsPayment ==
  \A t \in TopUps :
    /\ topup[t] = "PROCESSING" => payment[t] \notin {"none", "PENDING"}
    /\ topup[t] \in {"FAILED", "CANCELLED", "REFUNDED"} => payment[t] = topup[t]
    /\ topup[t] \in Credited \cup {"REVIEW_REQUIRED"} => payment[t] \in Credited
    /\ topup[t] \in Credited => AmountMatches(t)
    /\ topup[t] = "REVIEW_REQUIRED" => ~AmountMatches(t)

\* An event that announced an exact payment is only PROCESSED once the top-up is
\* credited: an error in between never loses it (handleGeniusPay, sweep).
ProcessedIsApplied ==
  \A t \in TopUps \ misreported :
    inbox[<<t, "PAID">>] = "PROCESSED" => topup[t] \in Credited

\* Statuses only change as TOPUP_STATUS_TRANSITIONS allows, although the writers
\* read the status before they write it (transitionTopUp, sweep).
TransitionsAreLegal ==
  [][\A t \in TopUps :
       \/ topup'[t] = topup[t]
       \/ topup[t] = "none" /\ topup'[t] = "PENDING"
       \/ CanTransitionTopUp(topup[t], topup'[t])]_vars

\* No top-up stays open for ever, even if its payment was never opened, its
\* webhooks are lost or the process dies (PaymentReconciliationService.sweep).
OpenTopUpsEnd ==
  \A t \in TopUps : topup[t] \in Open ~> topup[t] \notin Open

\* What the organization is promised: the wallet is credited once for each
\* payment, if it is exact, and for nothing else.
Ideal == INSTANCE IdealTopUps WITH
  balance  <- wallet.balance,
  paid     <- {t \in TopUps : payment[t] \in Credited /\ AmountMatches(t)},
  credited <- {t \in TopUps : <<"CREDIT", t>> \in wallet.ledger}

\* The webhooks, the sweep and their races implement that promise.
ImplementsIdealTopUps == Ideal!Spec
=============================================================================
