-------------------------------- MODULE Orders --------------------------------
(***************************************************************************)
(* Orders: a confirmed checkout is converted, once, into an order that     *)
(* consumes the stock its cart held; the merchant moves the order along or *)
(* cancels it, which gives the stock back.  Composed with the carts, the   *)
(* stock and the sweep of Carts.                                           *)
(***************************************************************************)
EXTENDS Carts

CONSTANTS Types,       \* fulfilment types that customers choose
          Preferences  \* payment preferences that customers choose

ASSUME OrdersAssumption ==
  /\ Types \subseteq FulfillmentTypes
  /\ Preferences \subseteq PaymentPreferences

VARIABLE order \* order[c]: the Order of cart c

vars == <<cartVars, order>>

\* paymentStatus is written when the order is created and never again.
NoOrder == [status |-> "NONE", type |-> "PICKUP", preference |-> "UNDECIDED",
            payment |-> "UNPAID", fulfillment |-> "PENDING",
            consumed |-> [v \in Variants |-> 0], restored |-> [v \in Variants |-> 0]]

Init == CartInit /\ order = [c \in Carts |-> NoOrder]

Least(a, b) == IF a < b THEN a ELSE b

-----------------------------------------------------------------------------
(* OrderConversionService.                                                 *)

\* Each line that the snapshot says is tracked has a live reservation of its quantity.
ReservationsStand(c) ==
  \A v \in frozen[c] :
    /\ Active(c, v)
    /\ resv[c][v].age = "live"
    /\ resv[c][v].quantity = line[c][v]

\* Mutant: what is ordered leaves the stock, whether it is there or not.
ConsumedInFull(c) == [v \in Variants |-> IF v \in frozen[c] THEN line[c][v] ELSE 0]

\* OrderStockService.consume takes what there is, and the rest is backordered.
Consumed(c) ==
  [v \in Variants |-> IF v \in frozen[c] THEN Least(line[c][v], onHand[v]) ELSE 0]

\* fulfillmentStatus is NOT_REQUIRED when no line is a physical product, and such a
\* line is not tracked (packages/shared/src/catalog.ts).
InitialFulfillment(c) ==
  {"PENDING"} \cup (IF frozen[c] = {} THEN {"NOT_REQUIRED"} ELSE {})

\* The CHECK itemCount > 0 refuses an order without lines.
Convert(c) ==
  /\ cart[c] = "CHECKOUT_STARTED"
  /\ checkout[c] = "CONFIRMED"
  /\ order[c].status = "NONE"
  /\ ReservationsStand(c)
  /\ Lines(c) # {}
  /\ \A v \in frozen[c] : reserved[v] >= line[c][v]
  /\ \E type \in Types, preference \in Preferences, fulfillment \in InitialFulfillment(c) :
       order' = [order EXCEPT ![c] =
         [status |-> "CONFIRMED", type |-> type, preference |-> preference,
          payment |-> InitialPaymentStatus(preference), fulfillment |-> fulfillment,
          consumed |-> Consumed(c), restored |-> [v \in Variants |-> 0]]]
  /\ onHand' = [v \in Variants |-> onHand[v] - Consumed(c)[v]]
  /\ reserved' = [v \in Variants |->
                    IF v \in frozen[c] THEN reserved[v] - line[c][v] ELSE reserved[v]]
  /\ resv' = [resv EXCEPT ![c] = [v \in Variants |->
                IF v \in frozen[c]
                THEN [Ended(resv[c][v]) EXCEPT !.status = "CONSUMED"] ELSE resv[c][v]]]
  /\ cart' = [cart EXCEPT ![c] = "CONVERTED"]
  /\ UNCHANGED <<session, line, tracked, supplied, drift, idle, sweep>>

-----------------------------------------------------------------------------
(* OrderTransitionService.                                                 *)

ChangeStatus(c, status) ==
  /\ order[c].status # "NONE"
  /\ status # "CANCELLED"
  /\ IsOrderTransitionAllowed(order[c].status, status, order[c].type)
  /\ status = "DELIVERED" => CanDeliverWithPayment(order[c].payment, order[c].preference)
  /\ order' = [order EXCEPT ![c].status = status,
                 ![c].fulfillment = DerivedFulfillment(status, order[c].type, @)]
  /\ UNCHANGED cartVars

\* Mutant: what was ordered comes back, backordered pieces included.
ToRestoreOrdered(c) == [v \in Variants |-> IF v \in frozen[c] THEN line[c][v] ELSE 0]

\* What the items have taken and not given back, whatever is tracked now.
ToRestore(c) == [v \in Variants |-> order[c].consumed[v] - order[c].restored[v]]

CancelOrder(c) ==
  /\ order[c].status \in Cancellable
  /\ order' = [order EXCEPT ![c].status = "CANCELLED",
                 ![c].fulfillment = DerivedFulfillment("CANCELLED", order[c].type, @),
                 ![c].restored = order[c].consumed]
  /\ onHand' = [v \in Variants |-> onHand[v] + ToRestore(c)[v]]
  /\ UNCHANGED <<cart, session, line, resv, reserved, tracked, supplied, drift, idle, sweep>>

OrderRequests(c) ==
  Convert(c) \/ CancelOrder(c) \/ \E status \in OrderStatus : ChangeStatus(c, status)

Next ==
  \/ CartNext /\ UNCHANGED order
  \/ \E c \in Carts : OrderRequests(c)

Spec == Init /\ [][Next]_vars

\* The interval of the sweep comes round for ever (onModuleInit), and time passes.
Fairness ==
  /\ WF_vars(SweepSteps /\ UNCHANGED order)
  /\ \A c \in Carts, v \in Variants : WF_vars(Overrun(c, v) /\ UNCHANGED order)

FairSpec == Spec /\ Fairness

-----------------------------------------------------------------------------
(* Properties.                                                             *)

TypeOK ==
  /\ cart \in [Carts -> {"NONE"} \cup CartStatus]
  /\ checkout \in [Carts -> {"NONE"} \cup CheckoutStatus]
  /\ filled \subseteq Carts
  /\ line \in [Carts -> [Variants -> 0..MaxQuantity]]
  /\ frozen \in [Carts -> SUBSET Variants]
  /\ resv \in [Carts -> [Variants -> Reservations]]
  /\ onHand \in [Variants -> Nat]
  /\ reserved \in [Variants -> Nat]
  /\ tracked \subseteq Variants
  /\ supplied \in [Variants -> Int]
  /\ drift \in [Variants -> Int]
  /\ idle \subseteq Carts
  /\ sweep \in [phase : Phases, batch : SUBSET Expirations, carts : SUBSET Carts]
  /\ order \in [Carts -> [status : {"NONE"} \cup OrderStatus, type : FulfillmentTypes,
                          preference : PaymentPreferences, payment : {"UNPAID", "PENDING"},
                          fulfillment : FulfillmentStatus,
                          consumed : [Variants -> Nat], restored : [Variants -> Nat]]]

\* The pieces of variant v that ACTIVE reservations hold, and those that orders keep.
HeldUnits(v) == {u \in Carts \X (1..MaxQuantity) : u[2] <= HeldBy(u[1], v)}

SoldUnits(v) ==
  {u \in Carts \X (1..MaxQuantity) : u[2] <= order[u[1]].consumed[v] - order[u[1]].restored[v]}

\* quantityReserved is what the ACTIVE reservations hold, apart from what the sweep has
\* left behind or taken too much of by giving back a quantity it read before
\* (cart-expiration.service.ts:159), however lines are edited, checkouts are confirmed or
\* cancelled and carts end in between.
ReservedIsHeld == \A v \in Variants : reserved[v] = Cardinality(HeldUnits(v)) + drift[v]

\* What is on hand is what was counted by hand, less what orders keep: the sum of the
\* movements of a variant is its stock, through conversions, backorders and
\* cancellations (order-stock.service.ts, inventory.service.ts).
StockIsAccounted ==
  /\ TypeOK
  /\ \A v \in Variants : onHand[v] + Cardinality(SoldUnits(v)) = supplied[v]

\* Only a cart in checkout holds stock, and exactly the quantity of its line; a cart at
\* its end holds none, unless it was converted with a line that the snapshot says is not
\* tracked, which is left to releaseOrphans.
HeldStockBelongsToACheckout ==
  \A c \in Carts, v \in Variants : Active(c, v) =>
    /\ resv[c][v].quantity = line[c][v]
    /\ \/ cart[c] = "CHECKOUT_STARTED"
       \/ cart[c] = "CONVERTED" /\ v \notin frozen[c]

\* A variant that may not be sold without stock never has more reserved than there is on
\* hand because of a request of a cart, an order or the sweep: only the merchant who
\* counts stock out does that (the UPDATE of atomicReserve is conditional).
OnlyCountingOversells ==
  [][\A v \in Variants \ Backorder :
       reserved[v] <= onHand[v] /\ reserved'[v] > onHand'[v] => supplied'[v] < supplied[v]]_vars

\* The stock of the shop is kept as IdealStock says: orders take once and give back once.
Sale(o) == IF o.status = "NONE" THEN "none" ELSE IF o.status = "CANCELLED" THEN "returned" ELSE "sold"

Ideal == INSTANCE IdealStock WITH
  Orders <- Carts,
  sale <- [c \in Carts |-> Sale(order[c])],
  taken <- [c \in Carts |-> order[c].consumed]

ImplementsIdealStock == Ideal!Spec

\* A reservation does not hold stock for ever: it is consumed, given back, or expires.
HeldStockReturns == \A c \in Carts, v \in Variants : Active(c, v) ~> ~Active(c, v)
=============================================================================
