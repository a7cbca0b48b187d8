----------------------------- MODULE CommerceRules -----------------------------
(***************************************************************************)
(* The tables and pure rules of carts and orders (packages/shared/src/     *)
(* cart.ts and order.ts), which the API, the worker and the frontend share.*)
(***************************************************************************)
EXTENDS Integers

CartStatus == {"ACTIVE", "CHECKOUT_STARTED", "CONVERTED", "ABANDONED", "EXPIRED"}

OpenCartStatus == {"ACTIVE", "CHECKOUT_STARTED"}

CheckoutStatus == {"COLLECTING_INFORMATION", "READY_FOR_CONFIRMATION", "CONFIRMED",
                   "CANCELLED", "EXPIRED"}

\* revalidateCartLine, for a line whose product, variant and price have not changed:
\* the stock that is free, plus what the line itself holds, covers it.
LineIsValid(quantity, isTracked, isBackorder, onHand, reserved, own) ==
  isTracked /\ ~isBackorder => onHand - reserved + own >= quantity

-----------------------------------------------------------------------------

OrderStatus == {"CONFIRMED", "PROCESSING", "READY", "SHIPPED", "DELIVERED", "CANCELLED"}

FulfillmentTypes == {"DELIVERY", "PICKUP"}

PaymentPreferences == {"CASH_ON_DELIVERY", "MOBILE_MONEY", "CARD", "PAY_IN_STORE", "UNDECIDED"}

FulfillmentStatus == {"PENDING", "PREPARING", "READY_FOR_PICKUP", "READY_FOR_SHIPMENT",
                      "IN_TRANSIT", "DELIVERED", "CANCELLED", "NOT_REQUIRED"}

\* ORDER_STATUS_TRANSITIONS, and the type of fulfilment that READY leads to.
IsOrderTransitionAllowed(from, to, type) ==
  \/ from \in {"CONFIRMED", "PROCESSING", "READY"} /\ to = "CANCELLED"
  \/ from = "CONFIRMED"  /\ to = "PROCESSING"
  \/ from = "PROCESSING" /\ to = "READY"
  \/ from = "READY"      /\ to = "SHIPPED"   /\ type = "DELIVERY"
  \/ from = "READY"      /\ to = "DELIVERED" /\ type = "PICKUP"
  \/ from = "SHIPPED"    /\ to = "DELIVERED"

Cancellable == {"CONFIRMED", "PROCESSING", "READY"}

InitialPaymentStatus(preference) ==
  IF preference \in {"MOBILE_MONEY", "CARD"} THEN "PENDING" ELSE "UNPAID"

CanDeliverWithPayment(payment, preference) ==
  \/ payment = "PAID"
  \/ payment = "UNPAID" /\ preference \in {"CASH_ON_DELIVERY", "PAY_IN_STORE"}

\* derivedFulfillmentStatus.
DerivedFulfillment(status, type, current) ==
  CASE current = "NOT_REQUIRED" \/ status = "CONFIRMED" -> current
    [] status = "PROCESSING" -> "PREPARING"
    [] status = "READY"      -> IF type = "PICKUP" THEN "READY_FOR_PICKUP"
                                                   ELSE "READY_FOR_SHIPMENT"
    [] status = "SHIPPED"    -> "IN_TRANSIT"
    [] OTHER                 -> status
=============================================================================
