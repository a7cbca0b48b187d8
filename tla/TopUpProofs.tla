------------------------------ MODULE TopUpProofs ------------------------------
(***************************************************************************)
(* Proofs about TopUps, for any number of top-ups.                         *)
(***************************************************************************)
EXTENDS TopUps, TLAPS

-----------------------------------------------------------------------------
(* Types.                                                                  *)

\* A worker at work has an event.
JobHasEvent == \A w \in Workers : job[w] # "none" => EventOf(w) \in Events

TypeInv == TypeOK /\ JobHasEvent

\* An event has a top-up, and asks for a status that top-ups have.
LEMMA EventParts ==
  ASSUME NEW e \in Events
  PROVE  /\ Target(e) \in TopUps
         /\ Report(e) \in Reports
         /\ NextStatus(e) \in TopUpStatus
         /\ EventOf(e) = e
  BY TopUpsAssumption
  DEF Events, Target, Report, NextStatus, Reports, TopUpStatus, PaymentFailures, EventOf,
      TopUpsAssumption

\* Whatever a batch leaves out, it takes nothing else.
LEMMA BatchIsSubset ==
  ASSUME NEW S, NEW B \in Batches(S)
  PROVE  B \subseteq S
  BY DEF Batches

\* The type of the wallet.
Wallets == [balance : Int, reserved : Int, status : WalletStatus,
            ledger : SUBSET ({"CREDIT"} \X TopUps)]

\* What a credit does to the wallet.
LEMMA CreditMoves ==
  ASSUME TypeOK, NEW t \in TopUps
  PROVE  LET w == ApplyMovement(wallet, "CREDIT", t, Credits) IN
         /\ w \in Wallets
         /\ w.ledger = wallet.ledger \cup {<<"CREDIT", t>>}
         /\ w.balance = IF <<"CREDIT", t>> \in wallet.ledger
                        THEN wallet.balance ELSE wallet.balance + Credits
<1>1. wallet \in Wallets
  BY DEF TypeOK, Wallets
<1>2. Moved(wallet, "CREDIT", Credits) = [wallet EXCEPT !.balance = @ + Credits]
  BY DEF Moved
<1>3. Credits \in Nat
  BY TopUpsAssumption DEF TopUpsAssumption
<1>4. CASE <<"CREDIT", t>> \in wallet.ledger
  <2>1. ApplyMovement(wallet, "CREDIT", t, Credits) = wallet
    BY <1>4 DEF ApplyMovement
  <2>2. wallet.ledger = wallet.ledger \cup {<<"CREDIT", t>>}
    BY <1>4
  <2> QED
    BY <1>1, <1>4, <2>1, <2>2
<1>5. CASE <<"CREDIT", t>> \notin wallet.ledger
  <2>1. ApplyMovement(wallet, "CREDIT", t, Credits)
          = [[wallet EXCEPT !.balance = @ + Credits] EXCEPT !.ledger = @ \cup {<<"CREDIT", t>>}]
    BY <1>2, <1>5 DEF ApplyMovement
  <2>2. ApplyMovement(wallet, "CREDIT", t, Credits)
          = [wallet EXCEPT !.balance = @ + Credits, !.ledger = @ \cup {<<"CREDIT", t>>}]
    BY <1>1, <2>1 DEF Wallets
  <2>3. wallet.ledger \cup {<<"CREDIT", t>>} \in SUBSET ({"CREDIT"} \X TopUps)
    BY <1>1 DEF Wallets
  <2>4. wallet.balance + Credits \in Int
    BY <1>1, <1>3 DEF Wallets
  <2> QED
    BY <1>1, <1>5, <2>2, <2>3, <2>4 DEF Wallets
<1> QED
  BY <1>4, <1>5

\* The initial state is well typed.
LEMMA InitTyped == Init => TypeInv
<1> SUFFICES ASSUME Init PROVE TypeInv
  OBVIOUS
<1>1. wallet \in [balance : Int, reserved : Int, status : WalletStatus,
                  ledger : SUBSET ({"CREDIT"} \X TopUps)]
  <2>1. InitialCredits \in Int
    BY TopUpsAssumption DEF TopUpsAssumption
  <2>2. "ACTIVE" \in WalletStatus
    BY DEF WalletStatus
  <2> QED
    BY <2>1, <2>2 DEF Init, InitialWallet
<1>2. JobHasEvent
  BY DEF Init, JobHasEvent
<1>3. topup \in [TopUps -> TopUpStatus \cup {"none"}]
  BY DEF Init
<1>4. current \in Workers /\ todo \subseteq IF sweep = "poll" THEN TopUps ELSE Events
  BY DEF Init, Workers
<1> QED
  BY <1>1, <1>2, <1>3, <1>4 DEF Init, TypeInv, TypeOK

\* The steps of a top-up, of the provider and of time keep the types.
LEMMA TopUpStepTyped ==
  ASSUME TypeInv, NEW t \in TopUps, TopUpStep(t)
  PROVE  TypeInv'
<1> USE DEF TypeInv, TypeOK, JobHasEvent, database, provider, sweeping, EventOf
<1>1. CASE CreateTopUp(t)
  BY <1>1 DEF CreateTopUp, TopUpStatus
<1>2. CASE OpenPayment(t)
  BY <1>2 DEF OpenPayment
<1>3. CASE LinkPayment(t)
  BY <1>3 DEF LinkPayment
<1>4. CASE ProviderMoves(t)
  <2> PICK to \in Reports : /\ payment' = [payment EXCEPT ![t] = to]
                            /\ emitted' = emitted \cup {<<t, to>>}
                            /\ misreported' \in {misreported, misreported \cup {t}}
                            /\ UNCHANGED <<database, opening, job, sweeping, aged>>
    BY <1>4, TopUpsAssumption DEF ProviderMoves, TopUpsAssumption
  <2> QED
    BY DEF Events
<1>5. CASE GrowsOld(t)
  BY <1>5 DEF GrowsOld
<1> QED
  BY <1>1, <1>2, <1>3, <1>4, <1>5 DEF TopUpStep

\* So do the steps of a worker on an event.
LEMMA JobTyped ==
  ASSUME TypeInv, NEW w \in Workers, ApplyOutcome(w) \/ JobFails(w)
  PROVE  TypeInv'
<1> USE DEF TypeInv, TypeOK, JobHasEvent, database, provider, sweeping, JobGoesOn
<1>1. job[w] # "none"
  BY DEF ApplyOutcome, CreditTopUp, ReadTopUp, SwapTopUp, MarkProcessed, JobFails, TopUpStatus
<1>2. EventOf(w) \in Events /\ Target(EventOf(w)) \in TopUps
      /\ NextStatus(EventOf(w)) \in TopUpStatus
  BY <1>1, EventParts
<1>3. JobHasEvent'
  <2>1. \A v \in Workers : job'[v] # "none" => job[v] # "none"
    BY <1>1 DEF ApplyOutcome, CreditTopUp, ReadTopUp, SwapTopUp, MarkProcessed, JobFails
  <2>2. UNCHANGED current
    BY DEF ApplyOutcome, CreditTopUp, ReadTopUp, SwapTopUp, MarkProcessed, JobFails
  <2> QED
    BY <2>1, <2>2 DEF EventOf
<1>4. CASE CreditTopUp(w)
  <2>0. wallet \in Wallets /\ ApplyMovement(wallet, "CREDIT", Target(EventOf(w)), Credits) \in Wallets
    BY <1>2, CreditMoves DEF Wallets
  <2>1. wallet' \in Wallets
    BY <1>4, <2>0 DEF CreditTopUp
  <2>2. topup' \in [TopUps -> TopUpStatus \cup {"none"}]
    BY <1>2, <1>4 DEF CreditTopUp, TopUpStatus
  <2>3. job' \in [Workers -> {"none", "apply", "mark"} \cup TopUpStatus]
    BY <1>4 DEF CreditTopUp
  <2>4. UNCHANGED <<linked, inbox, payment, emitted, misreported, opening, sweep, todo, current,
                    aged>>
    BY <1>4 DEF CreditTopUp
  <2>5. wallet' \in [balance : Int, reserved : Int, status : WalletStatus,
                     ledger : SUBSET ({"CREDIT"} \X TopUps)]
    BY <2>1 DEF Wallets
  <2> QED
    BY <1>3, <2>2, <2>3, <2>4, <2>5
<1>5. CASE ReadTopUp(w)
  <2>1. CanTransitionTopUp(topup[Target(EventOf(w))], NextStatus(EventOf(w)))
          => topup[Target(EventOf(w))] \in TopUpStatus
    BY <1>2 DEF CanTransitionTopUp, Open
  <2> QED
    BY <1>2, <1>3, <1>5, <2>1 DEF ReadTopUp
<1>6. CASE SwapTopUp(w)
  <2>1. topup' \in [TopUps -> TopUpStatus \cup {"none"}]
    BY <1>2, <1>6 DEF SwapTopUp
  <2> QED
    BY <1>3, <1>6, <2>1 DEF SwapTopUp
<1>7. CASE MarkProcessed(w)
  BY <1>2, <1>3, <1>7 DEF MarkProcessed
<1>8. CASE JobFails(w)
  BY <1>3, <1>8 DEF JobFails
<1> QED
  BY <1>4, <1>5, <1>6, <1>7, <1>8 DEF ApplyOutcome

\* And the reception of a webhook, the sweep, and the death of the process.
LEMMA ServerTyped ==
  ASSUME TypeInv,
         \/ \E e \in Events : ReceiveWebhook(e)
         \/ SweepStep \/ SweepFails \/ SetWalletStatus \/ Crash
  PROVE  TypeInv'
<1> USE DEF TypeInv, TypeOK, JobHasEvent, database, provider, sweeping, JobGoesOn
<1>1. Sweep \in Workers /\ EventOf(Sweep) = current /\ Sweep \notin Events
  BY TopUpsAssumption DEF Workers, EventOf, TopUpsAssumption
<1>2. ASSUME NEW e \in Events, ReceiveWebhook(e)
      PROVE  TypeInv'
  BY <1>1, <1>2 DEF ReceiveWebhook, Workers, EventOf
<1>3. CASE SweepExpires
  <2>1. topup' \in [TopUps -> TopUpStatus \cup {"none"}]
    BY <1>3 DEF SweepExpires, TopUpStatus
  <2> QED
    BY <1>3, <2>1 DEF SweepExpires, EventOf
<1>4. CASE SweepReadsInbox
  <2>1. todo' \subseteq Events
    BY <1>4, BatchIsSubset DEF SweepReadsInbox
  <2> QED
    BY <1>4, <2>1 DEF SweepReadsInbox, EventOf
<1>5. ASSUME NEW e \in Events, SweepApplies(e)
      PROVE  JobHasEvent' /\ current' \in Workers
             /\ job' \in [Workers -> {"none", "apply", "mark"} \cup TopUpStatus]
  BY <1>1, <1>5 DEF SweepApplies, EventOf, Workers
<1>6. CASE SweepReplays
  <2>1. PICK e \in todo : SweepApplies(e) /\ todo' = todo \ {e}
    BY <1>6 DEF SweepReplays
  <2>2. e \in Events
    BY <1>6, <2>1 DEF SweepReplays
  <2> QED
    BY <1>5, <1>6, <2>1, <2>2 DEF SweepReplays
<1>7. CASE SweepReadsOpen
  <2>1. todo' \subseteq TopUps
    BY <1>7, BatchIsSubset DEF SweepReadsOpen
  <2> QED
    BY <1>7, <2>1 DEF SweepReadsOpen, EventOf
<1>8. CASE SweepPolls
  <2>1. PICK t \in todo :
          /\ todo' = todo \ {t}
          /\ IF payment[t] \in Reports
             THEN SweepApplies(<<t, payment[t]>>)
             ELSE job[Sweep] = "none" /\ UNCHANGED <<job, current>>
    BY <1>8 DEF SweepPolls
  <2>2. t \in TopUps
    BY <1>8, <2>1 DEF SweepPolls
  <2>3. CASE payment[t] \in Reports
    <3>1. <<t, payment[t]>> \in Events
      BY <2>2, <2>3 DEF Events
    <3> QED
      BY <1>5, <1>8, <2>1, <2>3, <3>1 DEF SweepPolls
  <2>4. CASE payment[t] \notin Reports
    BY <1>8, <2>1, <2>4 DEF SweepPolls, EventOf
  <2> QED
    BY <2>3, <2>4
<1>9. CASE SweepEnds \/ SweepFails
  <2>1. JobHasEvent'
    BY <1>1, <1>9 DEF SweepEnds, SweepFails, EventOf
  <2> QED
    BY <1>1, <1>9, <2>1 DEF SweepEnds, SweepFails
<1>10. CASE SetWalletStatus
  BY <1>10 DEF SetWalletStatus, CanTransitionWalletStatus, WalletStatus, EventOf
<1>11. CASE Crash
  BY <1>1, <1>11 DEF Crash
<1> QED
  BY <1>2, <1>3, <1>4, <1>6, <1>7, <1>8, <1>9, <1>10, <1>11 DEF SweepStep

\* Every step keeps the types.
LEMMA TypeStep == TypeInv /\ [Next]_vars => TypeInv'
<1> SUFFICES ASSUME TypeInv, [Next]_vars PROVE TypeInv'
  OBVIOUS
<1>1. CASE UNCHANGED vars
  BY <1>1 DEF vars, database, provider, sweeping, TypeInv, TypeOK, JobHasEvent, EventOf
<1> QED
  BY <1>1, TopUpStepTyped, JobTyped, ServerTyped DEF Next

\* Every value written to the tables and kept in memory is one the program knows,
\* whatever the events, their order and the crashes.
THEOREM TypeCorrect == Spec => []TypeOK
<1>1. Spec => []TypeInv
  BY InitTyped, TypeStep, PTL DEF Spec
<1> QED
  BY <1>1, PTL DEF TypeInv

-----------------------------------------------------------------------------
(* Events are about payments that went that far.                           *)

\* A payment now at p has been at s, or is beyond it.
Reached(p, s) ==
  \/ p = s
  \/ s = "PROCESSING" /\ p \notin {"none", "PENDING"}
  \/ s = "PAID" /\ p = "REFUNDED"

Arrived(e) == e \in Events /\ Reached(payment[Target(e)], Report(e))

\* Sent, stored, in a batch or being applied: no event runs ahead of its payment.
EventsAreReal ==
  /\ \A e \in emitted : Arrived(e)
  /\ \A e \in Events : inbox[e] # "none" => Arrived(e)
  /\ sweep = "replay" => \A e \in todo : Arrived(e)
  /\ \A w \in Workers : job[w] # "none" => Arrived(EventOf(w))

\* A top-up is created before its payment, which is opened once.
OpeningsAreNew ==
  \A t \in TopUps :
    /\ topup[t] = "none" => payment[t] = "none" /\ opening[t] = "none"
    /\ opening[t] = "calling" => payment[t] = "none"

\* What a worker has read, or done, of the event it applies.
JobsAreSound ==
  \A w \in Workers :
    /\ job[w] \in TopUpStatus =>
         /\ ~CreditsWallet(EventOf(w))
         /\ CanTransitionTopUp(job[w], NextStatus(EventOf(w)))
    /\ job[w] = "mark" /\ CreditsWallet(EventOf(w)) =>
         topup[Target(EventOf(w))] \in Credited

TopUpInv ==
  /\ TypeInv
  /\ EventsAreReal
  /\ OpeningsAreNew
  /\ JobsAreSound
  /\ CreditedMeansPaid
  /\ TopUpFollowsPayment
  /\ ProcessedIsApplied

-----------------------------------------------------------------------------
(* What one step may do to a payment, and to a status.                     *)

PaymentStep(t) ==
  \/ payment'[t] = payment[t]
  \/ payment[t] = "none" /\ payment'[t] = "PENDING"
  \/ ProviderTransition(payment[t], payment'[t])

\* An event justifies the status it brings.
Brings(e, t) ==
  /\ Target(e) = t
  /\ Arrived(e)
  /\ CanTransitionTopUp(topup[t], topup'[t])
  /\ \/ CreditsWallet(e)  /\ topup'[t] = "PAID"
     \/ ~CreditsWallet(e) /\ topup'[t] = NextStatus(e)

StatusStep(t) ==
  \/ topup'[t] = topup[t]
  \/ topup[t] = "none" /\ topup'[t] = "PENDING"
  \/ topup[t] \in Open /\ topup'[t] = "EXPIRED"
  \/ \E e \in Events : Brings(e, t)

\* Whose status becomes PAID, and no other, enters the ledger.
LedgerStep(t) ==
  <<"CREDIT", t>> \in wallet'.ledger
    <=> \/ <<"CREDIT", t>> \in wallet.ledger
        \/ topup[t] # "PAID" /\ topup'[t] = "PAID"

\* Payments only move as the provider moves them.
LEMMA PaymentSteps ==
  ASSUME TypeInv, OpeningsAreNew, [Next]_vars, NEW t \in TopUps
  PROVE  PaymentStep(t)
<1> USE DEF PaymentStep, TypeInv, TypeOK
<1>1. ASSUME NEW u \in TopUps, OpenPayment(u)
      PROVE  PaymentStep(t)
  BY <1>1 DEF OpenPayment, OpeningsAreNew
<1>2. ASSUME NEW u \in TopUps, ProviderMoves(u)
      PROVE  PaymentStep(t)
  BY <1>2 DEF ProviderMoves
<1>3. CASE UNCHANGED payment
  BY <1>3
<1>4. \/ UNCHANGED payment
      \/ \E u \in TopUps : OpenPayment(u) \/ ProviderMoves(u)
  BY DEF Next, vars, provider, TopUpStep, CreateTopUp, LinkPayment, GrowsOld, ReceiveWebhook,
         ApplyOutcome, CreditTopUp, ReadTopUp, SwapTopUp, MarkProcessed, JobFails, SweepStep,
         SweepExpires, SweepReadsInbox, SweepReplays, SweepReadsOpen, SweepPolls, SweepEnds,
         SweepFails, SetWalletStatus, Crash
<1> QED
  BY <1>1, <1>2, <1>3, <1>4

\* What has arrived stays so.
LEMMA ArrivedStays ==
  ASSUME TypeInv, OpeningsAreNew, [Next]_vars, NEW e, Arrived(e)
  PROVE  Arrived(e)'
<1>1. Target(e) \in TopUps /\ Report(e) \in Reports
  BY EventParts DEF Arrived
<1>2. PaymentStep(Target(e))
  BY <1>1, PaymentSteps
<1>3. Reached(payment'[Target(e)], Report(e))
  BY <1>1, <1>2
  DEF PaymentStep, ProviderTransition, Arrived, Reached, Reports, PaymentFailures
<1> QED
  BY <1>3 DEF Arrived, Events

\* The amount of a payment that was made is settled.
LEMMA AmountStays ==
  ASSUME TypeInv, [Next]_vars, NEW t \in TopUps, payment[t] \in Credited
  PROVE  t \in misreported' <=> t \in misreported
<1> USE DEF TypeInv, TypeOK
<1>1. ASSUME NEW u \in TopUps, ProviderMoves(u)
      PROVE  t \in misreported' <=> t \in misreported
  BY <1>1 DEF ProviderMoves, ProviderTransition, Credited, PaymentFailures
<1>2. UNCHANGED misreported \/ \E u \in TopUps : ProviderMoves(u)
  BY DEF Next, vars, provider, TopUpStep, CreateTopUp, OpenPayment, LinkPayment, GrowsOld,
         ReceiveWebhook, ApplyOutcome, CreditTopUp, ReadTopUp, SwapTopUp, MarkProcessed, JobFails,
         SweepStep, SweepExpires, SweepReadsInbox, SweepReplays, SweepReadsOpen, SweepPolls,
         SweepEnds, SweepFails, SetWalletStatus, Crash
<1> QED
  BY <1>1, <1>2

\* So is what an event that has arrived does to the wallet.
LEMMA CreditStays ==
  ASSUME TypeInv, [Next]_vars, NEW e, Arrived(e)
  PROVE  CreditsWallet(e) <=> Report(e) = "PAID" /\ Target(e) \notin misreported'
<1>1. Target(e) \in TopUps
  BY EventParts DEF Arrived
<1>2. Report(e) = "PAID" => payment[Target(e)] \in Credited
  BY DEF Arrived, Reached, Credited
<1> QED
  BY <1>1, <1>2, AmountStays DEF CreditsWallet, AmountMatches

\* No step brings a status without a reason, nor a credit without a status.
LEMMA StatusSteps ==
  ASSUME TypeInv, EventsAreReal, JobsAreSound, [Next]_vars, NEW t \in TopUps
  PROVE  StatusStep(t) /\ LedgerStep(t)
<1> USE DEF TypeInv
<1>1. CASE UNCHANGED topup /\ UNCHANGED wallet.ledger
  BY <1>1 DEF StatusStep, LedgerStep
<1>2. ASSUME NEW u \in TopUps, CreateTopUp(u)
      PROVE  StatusStep(t) /\ LedgerStep(t)
  BY <1>2 DEF CreateTopUp, StatusStep, LedgerStep, TypeOK
<1>3. ASSUME NEW w \in Workers, CreditTopUp(w)
      PROVE  StatusStep(t) /\ LedgerStep(t)
  <2> DEFINE e == EventOf(w)
             u == Target(e)
  <2>1. e \in Events /\ Arrived(e) /\ u \in TopUps
    BY <1>3, EventParts DEF CreditTopUp, EventsAreReal, JobHasEvent
  <2>2. CASE topup[u] = "PAID" \/ CreditThrows(u)
    BY <1>1, <1>3, <2>2 DEF CreditTopUp
  <2>3. CASE ~(topup[u] = "PAID" \/ CreditThrows(u))
    <3>1. /\ topup' = [topup EXCEPT ![u] = "PAID"]
          /\ wallet' = ApplyMovement(wallet, "CREDIT", u, Credits)
          /\ CanTransitionTopUp(topup[u], "PAID")
          /\ CreditsWallet(e)
          /\ topup[u] # "PAID"
      BY <1>3, <2>3 DEF CreditTopUp, CreditThrows
    <3>2. wallet'.ledger = wallet.ledger \cup {<<"CREDIT", u>>}
      BY <2>1, <3>1, CreditMoves
    <3>3. CASE t = u
      <4>1. topup'[t] = "PAID"
        BY <2>1, <3>1, <3>3 DEF TypeOK
      <4>2. Brings(e, t)
        BY <2>1, <3>1, <3>3, <4>1 DEF Brings
      <4> QED
        BY <2>1, <3>1, <3>2, <3>3, <4>1, <4>2 DEF StatusStep, LedgerStep
    <3>4. CASE t # u
      <4>1. topup'[t] = topup[t]
        BY <2>1, <3>1, <3>4 DEF TypeOK
      <4> QED
        BY <3>2, <3>4, <4>1 DEF StatusStep, LedgerStep
    <3> QED
      BY <3>3, <3>4
  <2> QED
    BY <2>2, <2>3
<1>4. ASSUME NEW w \in Workers, SwapTopUp(w)
      PROVE  StatusStep(t) /\ LedgerStep(t)
  <2> DEFINE e == EventOf(w)
             u == Target(e)
  <2>1. job[w] # "none"
    BY <1>4 DEF SwapTopUp, TopUpStatus
  <2>2. e \in Events /\ Arrived(e) /\ u \in TopUps
    BY <2>1, EventParts DEF EventsAreReal, JobHasEvent
  <2>3. ~CreditsWallet(e) /\ CanTransitionTopUp(job[w], NextStatus(e))
    BY <1>4 DEF SwapTopUp, JobsAreSound
  <2>4. UNCHANGED wallet
    BY <1>4 DEF SwapTopUp
  <2>5. NextStatus(e) # "PAID"
    BY DEF NextStatus
  <2>6. CASE t = u /\ topup[u] = job[w]
    <3>1. topup'[t] = NextStatus(e)
      BY <1>4, <2>2, <2>6 DEF SwapTopUp, TypeOK
    <3>2. Brings(e, t)
      BY <2>2, <2>3, <2>6, <3>1 DEF Brings
    <3> QED
      BY <2>2, <2>4, <2>5, <3>1, <3>2 DEF StatusStep, LedgerStep
  <2>7. CASE ~(t = u /\ topup[u] = job[w])
    <3>1. topup'[t] = topup[t]
      BY <1>4, <2>2, <2>7 DEF SwapTopUp, TypeOK
    <3> QED
      BY <2>4, <3>1 DEF StatusStep, LedgerStep
  <2> QED
    BY <2>6, <2>7
<1>5. CASE SweepExpires
  BY <1>5 DEF SweepExpires, StatusStep, LedgerStep
<1>6. CASE SetWalletStatus
  BY <1>6, <1>1 DEF SetWalletStatus, TypeOK
<1>7. \/ UNCHANGED <<topup, wallet>>
      \/ \E u \in TopUps : CreateTopUp(u)
      \/ \E w \in Workers : CreditTopUp(w) \/ SwapTopUp(w)
      \/ SweepExpires \/ SetWalletStatus
  BY DEF Next, vars, database, TopUpStep, OpenPayment, LinkPayment, ProviderMoves, GrowsOld,
         ReceiveWebhook, ApplyOutcome, ReadTopUp, MarkProcessed, JobFails, SweepStep,
         SweepReadsInbox, SweepReplays, SweepReadsOpen, SweepPolls, SweepEnds, SweepFails, Crash
<1> QED
  BY <1>1, <1>2, <1>3, <1>4, <1>5, <1>6, <1>7

-----------------------------------------------------------------------------
(* The parts of the invariant are kept.                                    *)

\* The ledger follows the statuses.
LEMMA CreditedStep ==
  ASSUME TypeInv, EventsAreReal, JobsAreSound, CreditedMeansPaid, [Next]_vars
  PROVE  CreditedMeansPaid'
<1> SUFFICES ASSUME NEW t \in TopUps
             PROVE  <<"CREDIT", t>> \in wallet'.ledger <=> topup'[t] \in Credited
  BY DEF CreditedMeansPaid
<1>1. StatusStep(t) /\ LedgerStep(t)
  BY StatusSteps
<1>2. <<"CREDIT", t>> \in wallet.ledger <=> topup[t] \in Credited
  BY DEF CreditedMeansPaid
<1>3. ASSUME NEW e \in Events, Brings(e, t)
      PROVE  topup'[t] \in Credited <=> topup[t] \in Credited \/ topup'[t] = "PAID"
  BY <1>3 DEF Brings, CanTransitionTopUp, Open, Credited, PaymentFailures
<1>4. topup'[t] \in Credited
        <=> topup[t] \in Credited \/ (topup[t] # "PAID" /\ topup'[t] = "PAID")
  BY <1>1, <1>3 DEF StatusStep, Credited, Open
<1> QED
  BY <1>1, <1>2, <1>4 DEF LedgerStep

\* Statuses stay behind payments.
LEMMA FollowsStep ==
  ASSUME TypeInv, EventsAreReal, OpeningsAreNew, JobsAreSound, TopUpFollowsPayment, [Next]_vars
  PROVE  TopUpFollowsPayment'
<1> DEFINE Follows(t, s, p) ==
             /\ s = "PROCESSING" => p \notin {"none", "PENDING"}
             /\ s \in {"FAILED", "CANCELLED", "REFUNDED"} => p = s
             /\ s \in Credited \cup {"REVIEW_REQUIRED"} => p \in Credited
             /\ s \in Credited => AmountMatches(t)
             /\ s = "REVIEW_REQUIRED" => ~AmountMatches(t)
<1>0. SUFFICES ASSUME NEW t \in TopUps
               PROVE  /\ Follows(t, topup'[t], payment'[t])
                      /\ topup'[t] \in Credited \cup {"REVIEW_REQUIRED"} => payment[t] \in Credited
  <2>1. \A t \in TopUps : payment[t] \in Credited => (AmountMatches(t)' <=> AmountMatches(t))
    BY AmountStays DEF AmountMatches
  <2> QED
    BY <2>1 DEF TopUpFollowsPayment
<1>1. Follows(t, topup[t], payment[t]) /\ PaymentStep(t) /\ StatusStep(t)
  BY StatusSteps, PaymentSteps DEF TopUpFollowsPayment
<1>2. Follows(t, topup[t], payment'[t])
  BY <1>1 DEF PaymentStep, ProviderTransition, Credited, PaymentFailures
<1>3. ASSUME NEW e \in Events, Brings(e, t)
      PROVE  /\ Follows(t, topup'[t], payment'[t])
             /\ topup'[t] \in Credited \cup {"REVIEW_REQUIRED"} => payment[t] \in Credited
  <2>1. Reached(payment'[t], Report(e))
    BY <1>3, ArrivedStays DEF Brings, Arrived
  <2>2. topup'[t] = "PAID" => Report(e) = "PAID" /\ AmountMatches(t)
    BY <1>3 DEF Brings, CreditsWallet, NextStatus
  <2>3. topup'[t] = "REVIEW_REQUIRED" => Report(e) = "PAID" /\ ~AmountMatches(t)
    <3>1. Report(e) # "REVIEW_REQUIRED"
      BY EventParts DEF Reports, PaymentFailures
    <3> QED
      BY <1>3, <3>1 DEF Brings, CreditsWallet, NextStatus
  <2>4. topup'[t] \notin {"PAID", "REVIEW_REQUIRED"} => topup'[t] = Report(e)
    BY <1>3 DEF Brings, NextStatus
  <2>5. topup'[t] = "REFUNDED" => topup[t] = "PAID"
    BY <1>3 DEF Brings, CanTransitionTopUp, PaymentFailures
  <2>6. topup[t] = "PAID" => AmountMatches(t)
    BY <1>1 DEF Credited
  <2>7. topup'[t] \in Credited \cup {"REVIEW_REQUIRED"} => payment[t] \in Credited
    <3>1. Reached(payment[t], Report(e))
      BY <1>3 DEF Brings, Arrived
    <3> QED
      BY <2>2, <2>3, <2>4, <3>1 DEF Reached, Credited
  <2> QED
    BY <2>1, <2>2, <2>3, <2>4, <2>5, <2>6, <2>7 DEF Reached, Credited
<1>4. CASE topup'[t] = topup[t]
  BY <1>1, <1>2, <1>4
<1>5. CASE topup'[t] \in {"PENDING", "EXPIRED"}
  BY <1>5 DEF Credited
<1> HIDE DEF Follows
<1> QED
  BY <1>1, <1>3, <1>4, <1>5 DEF StatusStep

\* Openings stay new.
LEMMA OpeningsStep ==
  ASSUME TypeInv, EventsAreReal, OpeningsAreNew, JobsAreSound, [Next]_vars
  PROVE  OpeningsAreNew'
<1> SUFFICES ASSUME NEW t \in TopUps
             PROVE  /\ topup'[t] = "none" => payment'[t] = "none" /\ opening'[t] = "none"
                    /\ opening'[t] = "calling" => payment'[t] = "none"
  BY DEF OpeningsAreNew
<1> USE DEF TypeInv, TypeOK
<1>1. topup'[t] = "none" => topup[t] = "none"
  <2>1. ASSUME NEW e \in Events, Brings(e, t)
        PROVE  topup'[t] # "none"
    BY <2>1 DEF Brings, CanTransitionTopUp, Open, PaymentFailures
  <2> QED
    BY <2>1, StatusSteps DEF StatusStep
<1>2. /\ topup[t] = "none" => payment[t] = "none" /\ opening[t] = "none"
      /\ opening[t] = "calling" => payment[t] = "none"
  BY DEF OpeningsAreNew
<1>3. ASSUME NEW u \in TopUps, CreateTopUp(u)
      PROVE  opening'[t] = "calling" => payment'[t] = "none" /\ topup'[t] # "none"
  BY <1>2, <1>3 DEF CreateTopUp, OpeningsAreNew, provider
<1>4. ASSUME NEW u \in TopUps, CreateTopUp(u)
      PROVE  topup'[t] = "none" => opening'[t] = opening[t] /\ payment'[t] = payment[t]
  BY <1>4 DEF CreateTopUp, provider
<1>5. ASSUME NEW u \in TopUps, OpenPayment(u)
      PROVE  /\ topup'[t] = "none" => payment'[t] = "none" /\ opening'[t] = "none"
             /\ opening'[t] = "calling" => payment'[t] = "none"
  BY <1>2, <1>5 DEF OpenPayment, OpeningsAreNew, database
<1>6. ASSUME NEW u \in TopUps, LinkPayment(u)
      PROVE  /\ opening'[t] = "none" \/ opening'[t] = opening[t]
             /\ payment'[t] = payment[t]
  BY <1>6 DEF LinkPayment, provider
<1>7. ASSUME NEW u \in TopUps, ProviderMoves(u)
      PROVE  /\ opening'[t] = opening[t]
             /\ payment[t] = "none" => payment'[t] = "none"
  BY <1>7 DEF ProviderMoves, ProviderTransition
<1>8. CASE UNCHANGED payment /\ (UNCHANGED opening \/ opening' = [u \in TopUps |-> "none"])
  BY <1>1, <1>2, <1>8
<1>9. \/ UNCHANGED payment /\ (UNCHANGED opening \/ opening' = [u \in TopUps |-> "none"])
      \/ \E u \in TopUps : CreateTopUp(u) \/ OpenPayment(u) \/ LinkPayment(u) \/ ProviderMoves(u)
  BY DEF Next, vars, provider, TopUpStep, GrowsOld, ReceiveWebhook,
         ApplyOutcome, CreditTopUp, ReadTopUp, SwapTopUp, MarkProcessed, JobFails, SweepStep,
         SweepExpires, SweepReadsInbox, SweepReplays, SweepReadsOpen, SweepPolls, SweepEnds,
         SweepFails, SetWalletStatus, Crash
<1> QED
  BY <1>1, <1>2, <1>3, <1>4, <1>5, <1>6, <1>7, <1>8, <1>9

\* What the sweep is about to apply has arrived.
LEMMA SweepAppliesArrived ==
  ASSUME TypeInv, EventsAreReal, NEW e, SweepApplies(e), SweepReplays \/ SweepPolls
  PROVE  Arrived(e)
<1> USE DEF TypeInv, TypeOK
<1>1. current' = e /\ job'[Sweep] = "apply" /\ job[Sweep] = "none"
  BY DEF SweepApplies, JobGoesOn, Workers
<1>2. CASE SweepReplays
  <2>1. PICK d \in todo : SweepApplies(d)
    BY <1>2 DEF SweepReplays
  <2> QED
    BY <1>1, <1>2, <2>1 DEF SweepReplays, SweepApplies, EventsAreReal
<1>3. CASE SweepPolls
  <2>1. PICK t \in todo :
          IF payment[t] \in Reports
          THEN SweepApplies(<<t, payment[t]>>)
          ELSE job[Sweep] = "none" /\ UNCHANGED <<job, current>>
    BY <1>3 DEF SweepPolls
  <2>2. t \in TopUps
    BY <1>3, <2>1 DEF SweepPolls
  <2>3. payment[t] \in Reports /\ e = <<t, payment[t]>>
    BY <1>1, <2>1 DEF SweepApplies
  <2> QED
    BY <2>2, <2>3 DEF Arrived, Reached, Events, Target, Report
<1> QED
  BY <1>2, <1>3

\* A worker that is at work was so before, on the same event, or starts on one that
\* has arrived.
LEMMA JobsStart ==
  ASSUME TypeInv, EventsAreReal, [Next]_vars, NEW w \in Workers, job'[w] # "none"
  PROVE  \/ job[w] # "none" /\ EventOf(w)' = EventOf(w)
         \/ job'[w] = "apply" /\ Arrived(EventOf(w)')
<1> USE DEF TypeInv, TypeOK
<1>0. Sweep \notin Events
  BY TopUpsAssumption DEF TopUpsAssumption
<1>1. CASE job'[w] = job[w] /\ EventOf(w)' = EventOf(w)
  BY <1>1
<1>2. CASE UNCHANGED <<job, current>>
  BY <1>1, <1>2 DEF EventOf
<1>3. ASSUME NEW e \in Events, ReceiveWebhook(e)
      PROVE  \/ job'[w] = job[w] /\ EventOf(w)' = EventOf(w)
             \/ job'[w] = "apply" /\ Arrived(EventOf(w)')
  <2>1. Arrived(e) /\ UNCHANGED current
    BY <1>3 DEF ReceiveWebhook, EventsAreReal, sweeping
  <2>2. job'[w] = IF w = e THEN "apply" ELSE job[w]
    BY <1>3 DEF ReceiveWebhook, JobGoesOn
  <2> QED
    BY <1>0, <2>1, <2>2 DEF EventOf
<1>4. ASSUME NEW v \in Workers, ApplyOutcome(v) \/ JobFails(v)
      PROVE  job[w] # "none" /\ EventOf(w)' = EventOf(w)
  <2>1. UNCHANGED current
    BY <1>4 DEF ApplyOutcome, CreditTopUp, ReadTopUp, SwapTopUp, MarkProcessed, JobFails, sweeping
  <2>2. job[v] # "none" /\ (v # w => job'[w] = job[w])
    BY <1>4 DEF ApplyOutcome, CreditTopUp, ReadTopUp, SwapTopUp, MarkProcessed, JobFails,
                TopUpStatus, JobGoesOn
  <2> QED
    BY <2>1, <2>2 DEF EventOf
<1>5. CASE (SweepReplays \/ SweepPolls) /\ ~UNCHANGED <<job, current>>
  <2>1. PICK e : SweepApplies(e)
    BY <1>5 DEF SweepReplays, SweepPolls
  <2>2. Arrived(e)
    BY <1>5, <2>1, SweepAppliesArrived
  <2>3. CASE w = Sweep
    BY <2>1, <2>2, <2>3 DEF SweepApplies, JobGoesOn, EventOf
  <2>4. CASE w # Sweep
    BY <2>1, <2>4, <1>1 DEF SweepApplies, JobGoesOn, EventOf
  <2> QED
    BY <2>3, <2>4
<1>6. CASE (SweepEnds \/ SweepFails)
  BY <1>1, <1>6 DEF SweepEnds, SweepFails, EventOf
<1>7. ~Crash
  BY DEF Crash
<1>8. \/ UNCHANGED <<job, current>>
      \/ \E e \in Events : ReceiveWebhook(e)
      \/ \E v \in Workers : ApplyOutcome(v) \/ JobFails(v)
      \/ SweepReplays \/ SweepPolls \/ SweepEnds \/ SweepFails
  BY <1>7 DEF Next, vars, sweeping, TopUpStep, CreateTopUp, OpenPayment, LinkPayment,
         ProviderMoves, GrowsOld, SweepStep, SweepExpires, SweepReadsInbox, SweepReadsOpen,
         SetWalletStatus
<1> QED
  BY <1>1, <1>2, <1>3, <1>4, <1>5, <1>6, <1>8

\* Events stay real.
LEMMA EventsStep ==
  ASSUME TypeInv, EventsAreReal, OpeningsAreNew, [Next]_vars
  PROVE  EventsAreReal'
<1> USE DEF TypeInv, TypeOK
<1>1. ASSUME NEW e \in emitted'
      PROVE  Arrived(e)'
  <2>1. CASE e \in emitted
    BY <2>1, ArrivedStays DEF EventsAreReal
  <2>2. CASE e \notin emitted
    <3>1. PICK t \in TopUps : ProviderMoves(t)
      BY <1>1, <2>2
      DEF Next, vars, database, provider, sweeping, TopUpStep, CreateTopUp, OpenPayment, LinkPayment,
         ProviderMoves, GrowsOld, ReceiveWebhook, ApplyOutcome, CreditTopUp, ReadTopUp, SwapTopUp,
         MarkProcessed, JobFails, SweepStep, SweepExpires, SweepReadsInbox, SweepReplays,
         SweepReadsOpen, SweepPolls, SweepEnds, SweepFails, SetWalletStatus, Crash
    <3>2. PICK to \in Outcomes : payment' = [payment EXCEPT ![t] = to] /\ e = <<t, to>>
      BY <1>1, <2>2, <3>1 DEF ProviderMoves
    <3> QED
      BY <3>2, TopUpsAssumption DEF Arrived, Reached, Events, Target, Report, TopUpsAssumption
  <2> QED
    BY <2>1, <2>2
<1>2. ASSUME NEW e \in Events, inbox'[e] # "none"
      PROVE  Arrived(e)'
  <2>1. Arrived(e)
    <3>1. CASE inbox[e] # "none"
      BY <3>1 DEF EventsAreReal
    <3>2. ASSUME NEW d \in Events, ReceiveWebhook(d), inbox[e] = "none"
          PROVE  Arrived(e)
      BY <1>2, <3>2 DEF ReceiveWebhook, EventsAreReal
    <3>3. ASSUME NEW w \in Workers, MarkProcessed(w), inbox[e] = "none"
          PROVE  Arrived(e)
      <4>1. Arrived(EventOf(w))
        BY <3>3 DEF MarkProcessed, EventsAreReal
      <4> QED
        BY <1>2, <3>3, <4>1 DEF MarkProcessed
    <3>4. \/ UNCHANGED inbox
          \/ \E d \in Events : ReceiveWebhook(d)
          \/ \E w \in Workers : MarkProcessed(w)
      BY DEF Next, vars, database, TopUpStep, CreateTopUp, OpenPayment, LinkPayment,
         ProviderMoves, GrowsOld, ApplyOutcome, CreditTopUp, ReadTopUp, SwapTopUp, JobFails,
         SweepStep, SweepExpires, SweepReadsInbox, SweepReplays, SweepReadsOpen, SweepPolls,
         SweepEnds, SweepFails, SetWalletStatus, Crash
    <3> QED
      BY <1>2, <3>1, <3>2, <3>3, <3>4
  <2> QED
    BY <2>1, ArrivedStays
<1>3. ASSUME sweep' = "replay", NEW e \in todo'
      PROVE  Arrived(e)'
  <2>1. CASE sweep = "replay" /\ todo' \subseteq todo
    BY <1>3, <2>1, ArrivedStays DEF EventsAreReal
  <2>2. CASE SweepReadsInbox
    <3>1. e \in Events /\ inbox[e] = "RECEIVED"
      BY <1>3, <2>2, BatchIsSubset DEF SweepReadsInbox
    <3> QED
      BY <3>1, ArrivedStays DEF EventsAreReal
  <2>3. (sweep = "replay" /\ todo' \subseteq todo) \/ SweepReadsInbox
    <3>1. CASE SweepReplays
      BY <3>1 DEF SweepReplays
    <3>2. CASE UNCHANGED <<sweep, todo>>
      BY <1>3, <3>2
    <3>3. UNCHANGED <<sweep, todo>> \/ SweepReplays \/ SweepReadsInbox
      BY <1>3
      DEF Next, vars, sweeping, TopUpStep, CreateTopUp, OpenPayment, LinkPayment,
         ProviderMoves, GrowsOld, ReceiveWebhook, ApplyOutcome, CreditTopUp, ReadTopUp, SwapTopUp,
         MarkProcessed, JobFails, SweepStep, SweepExpires, SweepReadsOpen, SweepPolls,
         SweepEnds, SweepFails, SetWalletStatus, Crash
    <3> QED
      BY <3>1, <3>2, <3>3
  <2> QED
    BY <2>1, <2>2, <2>3
<1>4. ASSUME NEW w \in Workers, job'[w] # "none"
      PROVE  Arrived(EventOf(w))'
  <2>1. Arrived(EventOf(w)')
    BY <1>4, JobsStart DEF EventsAreReal
  <2> QED
    BY <2>1, ArrivedStays DEF Arrived
<1> QED
  BY <1>1, <1>2, <1>3, <1>4 DEF EventsAreReal

\* A credited top-up stays so.
LEMMA CreditedStays ==
  ASSUME TypeInv, EventsAreReal, JobsAreSound, [Next]_vars,
         NEW t \in TopUps, topup[t] \in Credited
  PROVE  topup'[t] \in Credited
<1>1. ASSUME NEW e \in Events, Brings(e, t)
      PROVE  topup'[t] \in Credited
  BY <1>1 DEF Brings, CanTransitionTopUp, Open, Credited
<1> QED
  BY <1>1, StatusSteps DEF StatusStep, Open, Credited

\* A worker that goes on keeps its phase, unless the step is its own.
LEMMA JobsGoOn ==
  ASSUME TypeInv, EventsAreReal, [Next]_vars, NEW w \in Workers, job'[w] \notin {"none", "apply"}
  PROVE  /\ EventOf(w)' = EventOf(w)
         /\ job[w] # "none"
         /\ job'[w] = job[w] \/ CreditTopUp(w) \/ ReadTopUp(w) \/ SwapTopUp(w)
<1> USE DEF TypeInv, TypeOK
<1>1. EventOf(w)' = EventOf(w) /\ job[w] # "none"
  BY JobsStart
<1>2. ASSUME NEW v \in Workers, ApplyOutcome(v) \/ JobFails(v)
      PROVE  job'[w] = job[w] \/ CreditTopUp(w) \/ ReadTopUp(w) \/ SwapTopUp(w)
  BY <1>2 DEF ApplyOutcome, CreditTopUp, ReadTopUp, SwapTopUp, MarkProcessed, JobFails, JobGoesOn
<1>3. \/ job'[w] = job[w]
      \/ \E v \in Workers : ApplyOutcome(v) \/ JobFails(v)
  BY DEF Next, vars, sweeping, TopUpStep, CreateTopUp, OpenPayment, LinkPayment,
         ProviderMoves, GrowsOld, ReceiveWebhook, SweepStep, SweepExpires, SweepReadsInbox,
         SweepReplays, SweepReadsOpen, SweepPolls, SweepEnds, SweepFails, SweepApplies,
         SetWalletStatus, Crash, JobGoesOn
<1> QED
  BY <1>1, <1>2, <1>3

\* Jobs stay sound.
LEMMA JobsStep ==
  ASSUME TypeInv, EventsAreReal, JobsAreSound, [Next]_vars
  PROVE  JobsAreSound'
<1> SUFFICES ASSUME NEW w \in Workers, job'[w] \notin {"none", "apply"}
               PROVE  /\ job'[w] \in TopUpStatus =>
                           /\ ~CreditsWallet(EventOf(w))
                           /\ CanTransitionTopUp(job'[w], NextStatus(EventOf(w)))
                      /\ job'[w] = "mark" /\ CreditsWallet(EventOf(w)) =>
                           topup'[Target(EventOf(w))] \in Credited
  <2>1. ASSUME NEW w \in Workers, job'[w] \notin {"none", "apply"}
        PROVE  /\ EventOf(w)' = EventOf(w)
               /\ CreditsWallet(EventOf(w))
                    <=> Report(EventOf(w)) = "PAID" /\ Target(EventOf(w)) \notin misreported'
    <3>1. EventOf(w)' = EventOf(w) /\ Arrived(EventOf(w))
      BY <2>1, JobsGoOn DEF EventsAreReal
    <3> QED
      BY <3>1, CreditStays
  <2> QED
    BY <2>1 DEF JobsAreSound, TopUpStatus, CreditsWallet, NextStatus, CanTransitionTopUp,
                AmountMatches, Target, Report
<1> DEFINE e == EventOf(w)
           t == Target(e)
<1> USE DEF TypeInv, TypeOK
<1>1. EventOf(w)' = e /\ job[w] # "none"
  BY JobsGoOn
<1>2. e \in Events /\ t \in TopUps
  BY <1>1, EventParts DEF JobHasEvent
<1>3. CASE job'[w] = job[w]
  BY <1>1, <1>2, <1>3, CreditedStays DEF JobsAreSound
<1>4. CASE CreditTopUp(w)
  <2>1. job'[w] = "mark" /\ (topup[t] = "PAID" \/ ~CreditThrows(t))
    BY <1>4 DEF CreditTopUp, JobGoesOn
  <2>2. topup'[t] = "PAID"
    BY <1>2, <1>4, <2>1 DEF CreditTopUp
  <2> QED
    BY <1>1, <2>1, <2>2 DEF TopUpStatus, Credited
<1>5. CASE ReadTopUp(w)
  <2>1. ~CreditsWallet(e)
    BY <1>5 DEF ReadTopUp
  <2>2. job'[w] = IF CanTransitionTopUp(topup[t], NextStatus(e)) THEN topup[t] ELSE "mark"
    BY <1>5 DEF ReadTopUp, JobGoesOn
  <2> QED
    BY <1>1, <2>1, <2>2 DEF TopUpStatus
<1>6. CASE SwapTopUp(w)
  <2>1. ~CreditsWallet(e) /\ job'[w] = "mark"
    BY <1>6 DEF SwapTopUp, JobsAreSound, JobGoesOn
  <2> QED
    BY <1>1, <2>1 DEF TopUpStatus
<1> QED
  BY <1>3, <1>4, <1>5, <1>6, JobsGoOn

\* An event becomes PROCESSED by a job that is done with it.
LEMMA ProcessedStep ==
  ASSUME TypeInv, EventsAreReal, JobsAreSound, ProcessedIsApplied, [Next]_vars
  PROVE  ProcessedIsApplied'
<1> SUFFICES ASSUME NEW t \in TopUps, t \notin misreported', inbox'[<<t, "PAID">>] = "PROCESSED"
             PROVE  topup'[t] \in Credited
  BY DEF ProcessedIsApplied
<1> DEFINE e == <<t, "PAID">>
<1> USE DEF TypeInv, TypeOK
<1>0. t \notin misreported
  <2>1. CASE UNCHANGED misreported
    BY <2>1
  <2>2. ASSUME NEW u \in TopUps, ProviderMoves(u)
        PROVE  t \notin misreported
    BY <2>2 DEF ProviderMoves
  <2>3. UNCHANGED misreported \/ \E u \in TopUps : ProviderMoves(u)
    BY DEF Next, vars, provider, TopUpStep, CreateTopUp, OpenPayment, LinkPayment, GrowsOld,
         ReceiveWebhook, ApplyOutcome, CreditTopUp, ReadTopUp, SwapTopUp, MarkProcessed, JobFails,
         SweepStep, SweepExpires, SweepReadsInbox, SweepReplays, SweepReadsOpen, SweepPolls,
         SweepEnds, SweepFails, SetWalletStatus, Crash
  <2> QED
    BY <2>1, <2>2, <2>3
<1>1. e \in Events /\ Target(e) = t /\ CreditsWallet(e)
  BY <1>0 DEF Events, Reports, Target, Report, CreditsWallet, AmountMatches
<1>2. CASE inbox[e] = "PROCESSED"
  BY <1>0, <1>2, CreditedStays DEF ProcessedIsApplied
<1>3. ASSUME NEW w \in Workers, MarkProcessed(w), inbox[e] # "PROCESSED"
      PROVE  topup'[t] \in Credited
  <2>1. job[w] = "mark" /\ EventOf(w) = e
    BY <1>1, <1>3 DEF MarkProcessed
  <2> QED
    BY <1>1, <2>1, CreditedStays DEF JobsAreSound
<1>4. inbox[e] = "PROCESSED" \/ \E w \in Workers : MarkProcessed(w)
  <2>1. ASSUME NEW d \in Events, ReceiveWebhook(d)
        PROVE  inbox[e] = "PROCESSED"
    BY <1>1, <2>1 DEF ReceiveWebhook
  <2> QED
    BY <2>1
    DEF Next, vars, database, TopUpStep, CreateTopUp, OpenPayment, LinkPayment,
         ProviderMoves, GrowsOld, ApplyOutcome, CreditTopUp, ReadTopUp, SwapTopUp, JobFails,
         SweepStep, SweepExpires, SweepReadsInbox, SweepReplays, SweepReadsOpen, SweepPolls,
         SweepEnds, SweepFails, SetWalletStatus, Crash
<1> QED
  BY <1>2, <1>3, <1>4

-----------------------------------------------------------------------------
(* Theorems.                                                               *)

\* The invariant holds at the start.
LEMMA InitTopUpInv == Init => TopUpInv
<1> SUFFICES ASSUME Init PROVE TopUpInv
  OBVIOUS
<1>1. TypeInv
  BY InitTyped
<1>2. EventsAreReal
  BY DEF Init, EventsAreReal
<1>3. OpeningsAreNew /\ JobsAreSound
  BY DEF Init, OpeningsAreNew, JobsAreSound, TopUpStatus, PaymentFailures
<1>4. CreditedMeansPaid /\ TopUpFollowsPayment
  BY DEF Init, InitialWallet, CreditedMeansPaid, TopUpFollowsPayment, Credited
<1>5. ProcessedIsApplied
  BY DEF Init, ProcessedIsApplied, Events, Reports
<1> QED
  BY <1>1, <1>2, <1>3, <1>4, <1>5 DEF TopUpInv

\* And is kept by every step.
LEMMA TopUpInvariant == Spec => []TopUpInv
<1>1. TopUpInv /\ [Next]_vars => TopUpInv'
  BY TypeStep, EventsStep, OpeningsStep, JobsStep, CreditedStep, FollowsStep, ProcessedStep
  DEF TopUpInv
<1> QED
  BY <1>1, InitTopUpInv, PTL DEF Spec

\* The ledger has the credit of a top-up exactly when its status says so.
THEOREM CreditsMatchStatuses == Spec => []CreditedMeansPaid
  BY TopUpInvariant, PTL DEF TopUpInv

\* No status runs ahead of the payment, and no amount but the exact one is credited.
THEOREM StatusesFollowPayments == Spec => []TopUpFollowsPayment
  BY TopUpInvariant, PTL DEF TopUpInv

\* Errors and crashes never lose an exact payment that is marked PROCESSED.
THEOREM ProcessedPaymentsAreCredited == Spec => []ProcessedIsApplied
  BY TopUpInvariant, PTL DEF TopUpInv

\* TOPUP_STATUS_TRANSITIONS is obeyed by all writers together.
THEOREM StatusesChangeLegally == Spec => TransitionsAreLegal
<1>1. TopUpInv /\ [Next]_vars =>
        [\A t \in TopUps :
           \/ topup'[t] = topup[t]
           \/ topup[t] = "none" /\ topup'[t] = "PENDING"
           \/ CanTransitionTopUp(topup[t], topup'[t])]_vars
  <2> SUFFICES ASSUME TopUpInv, [Next]_vars, NEW t \in TopUps
               PROVE  \/ topup'[t] = topup[t]
                      \/ topup[t] = "none" /\ topup'[t] = "PENDING"
                      \/ CanTransitionTopUp(topup[t], topup'[t])
    OBVIOUS
  <2> QED
    BY StatusSteps DEF TopUpInv, StatusStep, Brings, CanTransitionTopUp, PaymentFailures
<1> QED
  BY <1>1, TopUpInvariant, PTL DEF Spec, TransitionsAreLegal

-----------------------------------------------------------------------------
(* The refinement.                                                         *)

PaidTopUps == {t \in TopUps : payment[t] \in Credited /\ AmountMatches(t)}
CreditedTopUps == {t \in TopUps : <<"CREDIT", t>> \in wallet.ledger}

IdealState == <<wallet.balance, PaidTopUps, CreditedTopUps>>

\* A step that neither pays nor credits is a stutter of the promise.
LEMMA IdealStutters ==
  ASSUME UNCHANGED IdealState
  PROVE  [Ideal!Next]_<<wallet.balance, PaidTopUps, CreditedTopUps>>
  BY DEF IdealState

\* A payment that moves pays a top-up, or stutters.
LEMMA PaymentIsIdeal ==
  ASSUME TypeInv, OpeningsAreNew, NEW t \in TopUps, OpenPayment(t) \/ ProviderMoves(t)
  PROVE  [Ideal!Next]_<<wallet.balance, PaidTopUps, CreditedTopUps>>
<1> USE DEF TypeInv, TypeOK
<1>1. UNCHANGED wallet
  BY DEF OpenPayment, ProviderMoves, database
<1>2. \A u \in TopUps : u # t => payment'[u] = payment[u]
  BY DEF OpenPayment, ProviderMoves
<1>3. CreditedTopUps' = CreditedTopUps /\ wallet'.balance = wallet.balance
  BY <1>1 DEF CreditedTopUps
<1>4. payment[t] \in Credited => payment'[t] \in Credited
  BY DEF OpenPayment, ProviderMoves, ProviderTransition, OpeningsAreNew, Credited, PaymentFailures
<1>0. \A u \in TopUps : u # t \/ payment[t] \in Credited =>
        (u \in misreported' <=> u \in misreported)
  BY DEF OpenPayment, ProviderMoves, ProviderTransition, Credited, PaymentFailures
<1>5. CASE payment'[t] \in Credited /\ payment[t] \notin Credited /\ t \notin misreported'
  <2>1. t \notin PaidTopUps /\ PaidTopUps' = PaidTopUps \cup {t}
    BY <1>0, <1>2, <1>5 DEF PaidTopUps, AmountMatches
  <2> QED
    BY <1>3, <2>1 DEF Ideal!Next, Ideal!Pay, PaidTopUps, CreditedTopUps
<1>6. CASE ~(payment'[t] \in Credited /\ payment[t] \notin Credited /\ t \notin misreported')
  <2>1. PaidTopUps' = PaidTopUps
    BY <1>0, <1>2, <1>4, <1>6 DEF PaidTopUps, AmountMatches
  <2> QED
    BY <1>3, <2>1
<1> QED
  BY <1>5, <1>6

\* creditTopUp credits a paid top-up for the first time, or stutters.
LEMMA CreditIsIdeal ==
  ASSUME TopUpInv, NEW w \in Workers, CreditTopUp(w)
  PROVE  [Ideal!Next]_<<wallet.balance, PaidTopUps, CreditedTopUps>>
<1> DEFINE e == EventOf(w)
           t == Target(e)
<1>1. e \in Events /\ Arrived(e) /\ t \in TopUps
  BY EventParts DEF CreditTopUp, TopUpInv, TypeInv, EventsAreReal, JobHasEvent
<1>2. PaidTopUps' = PaidTopUps
  BY DEF CreditTopUp, provider, PaidTopUps, AmountMatches
<1>3. CASE topup[t] = "PAID" \/ CreditThrows(t)
  <2>1. UNCHANGED wallet
    BY <1>3 DEF CreditTopUp
  <2> QED
    BY <1>2, <2>1 DEF CreditedTopUps
<1>4. CASE ~(topup[t] = "PAID" \/ CreditThrows(t))
  <2>1. /\ wallet' = ApplyMovement(wallet, "CREDIT", t, Credits)
        /\ topup[t] \in Open
        /\ Report(e) = "PAID" /\ AmountMatches(t)
    BY <1>4 DEF CreditTopUp, CreditThrows, CanTransitionTopUp, CreditsWallet
  <2>2. <<"CREDIT", t>> \notin wallet.ledger
    BY <1>1, <2>1 DEF TopUpInv, CreditedMeansPaid, Open, Credited
  <2>3. /\ wallet'.ledger = wallet.ledger \cup {<<"CREDIT", t>>}
        /\ wallet'.balance = wallet.balance + Credits
    BY <1>1, <2>1, <2>2, CreditMoves DEF TopUpInv, TypeInv
  <2>4. t \in PaidTopUps
    BY <1>1, <2>1 DEF Arrived, Reached, PaidTopUps, Credited
  <2>5. t \notin CreditedTopUps /\ CreditedTopUps' = CreditedTopUps \cup {t}
    BY <1>1, <2>2, <2>3 DEF CreditedTopUps
  <2> HIDE DEF t
  <2> QED
    BY <1>1, <1>2, <2>3, <2>4, <2>5 DEF Ideal!Next, Ideal!Credit, PaidTopUps, CreditedTopUps
<1> QED
  BY <1>3, <1>4

\* Every step is a step of the promise, or a stutter.
LEMMA StepIsIdeal ==
  ASSUME TopUpInv, [Next]_vars
  PROVE  [Ideal!Next]_<<wallet.balance, PaidTopUps, CreditedTopUps>>
<1>1. CASE UNCHANGED <<payment, misreported, wallet.balance, wallet.ledger>>
  BY <1>1 DEF PaidTopUps, CreditedTopUps, AmountMatches
<1>2. CASE SetWalletStatus
  BY <1>1, <1>2 DEF SetWalletStatus, provider, TopUpInv, TypeInv, TypeOK
<1>3. \/ UNCHANGED <<payment, misreported, wallet>>
      \/ \E t \in TopUps : OpenPayment(t) \/ ProviderMoves(t)
      \/ \E w \in Workers : CreditTopUp(w)
      \/ SetWalletStatus
  BY DEF Next, vars, database, provider, TopUpStep, CreateTopUp, LinkPayment, GrowsOld,
         ReceiveWebhook, ApplyOutcome, ReadTopUp, SwapTopUp, MarkProcessed, JobFails, SweepStep,
         SweepExpires, SweepReadsInbox, SweepReplays, SweepReadsOpen, SweepPolls, SweepEnds,
         SweepFails, Crash
<1> QED
  BY <1>1, <1>2, <1>3, PaymentIsIdeal, CreditIsIdeal DEF TopUpInv

\* Webhooks and reconciliation, repeated, reordered or lost, credit the wallet once
\* for each exact payment that arrived, and for nothing else.
THEOREM TopUpsKeepThePromise == Spec => ImplementsIdealTopUps
<1>1. Init => Ideal!Init
  BY DEF Init, InitialWallet, Ideal!Init, Credited
<1>2. TopUpInv /\ [Next]_vars =>
        [Ideal!Next]_<<wallet.balance, PaidTopUps, CreditedTopUps>>
  BY StepIsIdeal
<1> QED
  BY <1>1, <1>2, TopUpInvariant, PTL
  DEF Spec, ImplementsIdealTopUps, Ideal!Spec, PaidTopUps, CreditedTopUps
=============================================================================
