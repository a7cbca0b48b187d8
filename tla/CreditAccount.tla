----------------------------- MODULE CreditAccount -----------------------------
(***************************************************************************)
(* What the wallet promises to AI runs, without usage events, ledgers or   *)
(* locks: a run may hold MaxCost credits of the account, at most once; what *)
(* is held is always covered by the balance; and the hold ends once, at a  *)
(* cost of at most MaxCost.                                                *)
(***************************************************************************)
EXTENDS Integers, FiniteSets

CONSTANTS Runs,     \* the runs that may hold credits
          MaxCost   \* what a run holds, and the most it costs

VARIABLES balance,  \* credits of the account
          held,     \* runs that hold MaxCost credits now
          settled   \* runs whose hold has ended

vars == <<balance, held, settled>>

Covered(b, h) == MaxCost * Cardinality(h) <= b

Init == balance \in Nat /\ held = {} /\ settled = {}

\* Runs in "over" end for free, and run r, new to the account, takes a hold.
Hold(r, over) ==
  /\ r \notin held \cup settled
  /\ held' = (held \ over) \cup {r}
  /\ settled' = settled \cup over
  /\ UNCHANGED balance
  /\ Covered(balance, held')

Settle(r) ==
  /\ r \in held
  /\ held' = held \ {r}
  /\ settled' = settled \cup {r}
  /\ balance' \in (balance - MaxCost)..balance
  /\ Covered(balance', held')

Credit ==
  /\ balance' \in Nat /\ balance' > balance
  /\ UNCHANGED <<held, settled>>

Next ==
  \/ \E r \in Runs, over \in SUBSET held : Hold(r, over)
  \/ \E r \in held : Settle(r)
  \/ Credit

Spec == Init /\ [][Next]_vars
=============================================================================
