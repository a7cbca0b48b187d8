------------------------------ MODULE IdealTopUps ------------------------------
(***************************************************************************)
(* What topping up a wallet promises to an organization, without requests, *)
(* webhooks or reconciliation: a payment arrives, and the wallet is        *)
(* credited for it, once.                                                  *)
(***************************************************************************)
EXTENDS Integers

CONSTANTS TopUps,         \* top-ups that may be paid
          Credits,        \* credits of each
          InitialCredits  \* balance at the start

VARIABLES balance,   \* credits of the wallet
          paid,      \* top-ups the provider holds an exact payment for
          credited   \* top-ups credited

Init ==
  /\ balance = InitialCredits
  /\ paid = {}
  /\ credited = {}

Pay(t) ==
  /\ t \notin paid
  /\ paid' = paid \cup {t}
  /\ UNCHANGED <<balance, credited>>

Credit(t) ==
  /\ t \in paid \ credited
  /\ credited' = credited \cup {t}
  /\ balance' = balance + Credits
  /\ UNCHANGED paid

Next == \E t \in TopUps : Pay(t) \/ Credit(t)

Spec == Init /\ [][Next]_<<balance, paid, credited>>
=============================================================================
