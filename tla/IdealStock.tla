------------------------------- MODULE IdealStock -------------------------------
(***************************************************************************)
(* What keeping stock promises to a merchant, without carts, reservations  *)
(* or sweeps: what is on hand is what was counted in, less what orders     *)
(* took.  An order takes its stock once, gives all of it back at most once *)
(* when it is cancelled, and stock is never negative.                       *)
(***************************************************************************)
EXTENDS Integers

CONSTANTS Orders,   \* orders that may be made
          Variants  \* variants with stock

VARIABLES onHand, \* onHand[v]: pieces in the shop
          sale,   \* sale[o]: "none", "sold" or "returned"
          taken   \* taken[o][v]: pieces that order o took

Init ==
  /\ onHand \in [Variants -> Nat]
  /\ sale = [o \in Orders |-> "none"]
  /\ taken = [o \in Orders |-> [v \in Variants |-> 0]]

Count(v) ==
  /\ onHand'[v] \in Nat
  /\ onHand' = [onHand EXCEPT ![v] = onHand'[v]]
  /\ UNCHANGED <<sale, taken>>

Sell(o) ==
  /\ sale[o] = "none"
  /\ sale' = [sale EXCEPT ![o] = "sold"]
  /\ \A v \in Variants : taken'[o][v] \in 0..onHand[v]
  /\ \A p \in Orders \ {o} : taken'[p] = taken[p]
  /\ onHand' = [v \in Variants |-> onHand[v] - taken'[o][v]]

Return(o) ==
  /\ sale[o] = "sold"
  /\ sale' = [sale EXCEPT ![o] = "returned"]
  /\ onHand' = [v \in Variants |-> onHand[v] + taken[o][v]]
  /\ UNCHANGED taken

Next == (\E v \in Variants : Count(v)) \/ (\E o \in Orders : Sell(o) \/ Return(o))

Spec == Init /\ [][Next]_<<onHand, sale, taken>>
=============================================================================
