--------------------------------- MODULE Carts ---------------------------------
(***************************************************************************)
(* The cart of a conversation, its checkout, and the stock they hold.      *)
(*                                                                         *)
(*  - an agent, or the AI through the same functions (packages/commerce),  *)
(*    edits the lines of the one open cart of a conversation, starts a     *)
(*    checkout, which reserves the stock of every line, and confirms or    *)
(*    cancels it;                                                          *)
(*  - the merchant counts the stock by hand and turns its tracking on and  *)
(*    off;                                                                 *)
(*  - the sweep of the worker ends what has expired.  It reads a batch,    *)
(*    then handles each element in a transaction of its own.               *)
(*                                                                         *)
(* A request is a transaction under the lock of the cart, so it is a step; *)
(* a request that the code refuses, or that a used clientMutationId or an  *)
(* old expectedVersion turns away, changes nothing and is a stutter.       *)
(***************************************************************************)
EXTENDS CommerceRules, FiniteSets

CONSTANTS Carts,          \* carts that may be created
          Variants,       \* variants with an inventory item
          ConversationOf, \* the conversation of a cart
          Carried,        \* Carried[c]: variants that may be put in cart c
          Backorder,      \* variants that may be sold without stock
          MaxQuantity,    \* MAX_QUANTITY_PER_LINE (999)
          MaxCycles,      \* bound: reservations that a line may have one after another
          MaxSupply,      \* bound: stock that the merchant counts in
          Toggles,        \* variants whose tracking the merchant may change
          Crashes         \* whether the worker may die

ASSUME CartsAssumption ==
  /\ IsFiniteSet(Carts)
  /\ Carried \in [Carts -> SUBSET Variants]
  /\ Backorder \subseteq Variants
  /\ MaxQuantity \in Nat \ {0}
  /\ MaxCycles \in Nat
  /\ MaxSupply \in Nat
  /\ Toggles \subseteq Variants
  /\ Crashes \in BOOLEAN

VARIABLES
  \* The database.
  cart,     \* cart[c]: its status, "NONE" before it is created
  checkout, \* checkout[c]: status of its CheckoutSession, or "NONE"
  filled,   \* carts whose session has every field that confirming asks for
  line,     \* line[c][v]: quantity of the line, 0 when there is none
  frozen,   \* frozen[c]: variants that the confirmation snapshot says are tracked
  resv,     \* resv[c][v]: the last StockReservation of the line
  onHand,   \* quantityOnHand
  reserved, \* quantityReserved
  tracked,  \* variants with trackInventory
  \* Time: carts whose expiresAt has passed.
  idle,
  \* The sweep of the worker.
  sweep,    \* its phase, the reservations it has read and not handled, and its carts
  \* What really happened, which the code does not store.
  supplied, \* supplied[v]: stock that was counted in by hand, less what was counted out
  drift     \* drift[v]: what ended reservations have left in quantityReserved

stock == <<onHand, reserved, tracked, supplied, drift>>
session == <<checkout, filled, frozen>>
cartVars == <<cart, session, line, resv, stock, idle, sweep>>

\* The age of a reservation: live, past its expiresAt, or past its maxExpiresAt.
Ages == {"live", "lapsed", "over"}

\* RELEASED, EXPIRED and CANCELLED are told apart only in reports: they are ENDED.
Reservations == [status : {"NONE", "ACTIVE", "ENDED", "CONSUMED"}, quantity : 0..MaxQuantity,
                 age : Ages, cycle : 0..MaxCycles]

NoReservation == [status |-> "NONE", quantity |-> 0, age |-> "live", cycle |-> 0]

\* What the sweep remembers of a reservation: its identifier, and its quantity.
Expirations == [cart : Carts, variant : Variants, cycle : 0..MaxCycles, quantity : 0..MaxQuantity]

Phases == {"off", "reservations", "carts", "orphans"}

NoSweep == [phase |-> "off", batch |-> {}, carts |-> {}]

CartInit ==
  /\ cart = [c \in Carts |-> "NONE"]
  /\ checkout = [c \in Carts |-> "NONE"]
  /\ filled = {}
  /\ line = [c \in Carts |-> [v \in Variants |-> 0]]
  /\ frozen = [c \in Carts |-> {}]
  /\ resv = [c \in Carts |-> [v \in Variants |-> NoReservation]]
  /\ onHand \in [Variants -> 0..MaxSupply]
  /\ reserved = [v \in Variants |-> 0]
  /\ tracked = Variants
  /\ idle = {}
  /\ sweep = NoSweep
  /\ supplied = onHand
  /\ drift = [v \in Variants |-> 0]

Open(c) == cart[c] \in OpenCartStatus

\* assertCartMutable.
Mutable(c) == Open(c) /\ checkout[c] # "CONFIRMED"

Lines(c) == {v \in Variants : line[c][v] > 0}

Active(c, v) == resv[c][v].status = "ACTIVE"

Held(c) == {v \in Variants : Active(c, v)}

HeldBy(c, v) == IF Active(c, v) THEN resv[c][v].quantity ELSE 0

\* revalidateLinesInTx finds every line VALID.
LinesAreValid(c) ==
  \A v \in Lines(c) :
    LineIsValid(line[c][v], v \in tracked, v \in Backorder, onHand[v], reserved[v], HeldBy(c, v))

-----------------------------------------------------------------------------
(* ReservationService: always inside the transaction of its caller.        *)

\* Mutant: what others hold is not looked at.
CanReserveOnHand(v, quantity) == v \in Backorder \/ onHand[v] >= quantity

\* atomicReserve updates a row ...
CanReserve(v, quantity) == v \in Backorder \/ onHand[v] - reserved[v] >= quantity

\* reserveForItem: a new reservation, never one that has been used.
NewReservation(c, v, quantity) ==
  [status |-> "ACTIVE", quantity |-> quantity, age |-> "live", cycle |-> resv[c][v].cycle + 1]

\* ... and the CHECK that quantityReserved >= 0 aborts a transaction that releases
\* more than is reserved.
CanRelease(v, quantity) == reserved[v] >= quantity

Ended(r) == [r EXCEPT !.status = "ENDED", !.quantity = 0, !.age = "live"]

\* releaseReservation of every ACTIVE reservation of the lines V of a cart.
ReleaseLines(c, V) ==
  LET ending == V \cap Held(c) IN
  /\ \A v \in ending : CanRelease(v, resv[c][v].quantity)
  /\ resv' = [resv EXCEPT ![c] = [v \in Variants |->
                 IF v \in ending THEN Ended(resv[c][v]) ELSE resv[c][v]]]
  /\ reserved' = [v \in Variants |->
                    IF v \in ending THEN reserved[v] - resv[c][v].quantity ELSE reserved[v]]
  /\ UNCHANGED <<onHand, tracked, supplied, drift>>

\* Mutant: the reservation keeps its quantity.
AdjustCounterOnly(c, v, delta) ==
  /\ IF delta > 0 THEN CanReserve(v, delta) ELSE CanRelease(v, -delta)
  /\ reserved' = [reserved EXCEPT ![v] = @ + delta]
  /\ UNCHANGED <<resv, onHand, tracked, supplied, drift>>

\* adjustActiveReservation: only the difference is reserved, or released.
AdjustReservation(c, v, delta) ==
  /\ IF delta > 0 THEN CanReserve(v, delta) ELSE CanRelease(v, -delta)
  /\ resv' = [resv EXCEPT ![c][v].quantity = @ + delta]
  /\ reserved' = [reserved EXCEPT ![v] = @ + delta]
  /\ UNCHANGED <<onHand, tracked, supplied, drift>>

-----------------------------------------------------------------------------
(* Lines of a cart.                                                        *)

\* carts_one_open_per_conversation: the one open cart of a conversation is reused.
CreateCart(c) ==
  /\ cart[c] = "NONE"
  /\ \A d \in Carts : ConversationOf[d] = ConversationOf[c] => ~Open(d)
  /\ cart' = [cart EXCEPT ![c] = "ACTIVE"]
  /\ UNCHANGED <<session, line, resv, stock, idle, sweep>>

\* recalcAndTouchCart gives the cart a new expiresAt.
Touch(c) ==
  /\ idle' = idle \ {c}
  /\ UNCHANGED <<cart, session, sweep>>

\* addItem: the availability of the variant was read before the lock, and is only a
\* first refusal.  A cart in checkout reserves what is added, but a line that has lost
\* its reservation grows without one.
AddItem(c, v, quantity) ==
  /\ Mutable(c)
  /\ line[c][v] + quantity <= MaxQuantity
  /\ line' = [line EXCEPT ![c][v] = @ + quantity]
  /\ \/ /\ cart[c] = "CHECKOUT_STARTED" /\ Active(c, v)
        /\ AdjustReservation(c, v, quantity)
     \/ /\ cart[c] = "CHECKOUT_STARTED" /\ line[c][v] = 0 /\ v \in tracked
        /\ resv[c][v].cycle < MaxCycles
        /\ CanReserve(v, quantity)
        /\ resv' = [resv EXCEPT ![c][v] = NewReservation(c, v, quantity)]
        /\ reserved' = [reserved EXCEPT ![v] = @ + quantity]
        /\ UNCHANGED <<onHand, tracked, supplied, drift>>
     \/ /\ \/ cart[c] = "ACTIVE"
           \/ line[c][v] > 0 /\ ~Active(c, v)
           \/ line[c][v] = 0 /\ v \notin tracked
        /\ UNCHANGED <<resv, stock>>
  /\ Touch(c)

SetQuantity(c, v, quantity) ==
  /\ Mutable(c)
  /\ line[c][v] \notin {0, quantity}
  /\ line' = [line EXCEPT ![c][v] = quantity]
  /\ IF cart[c] = "CHECKOUT_STARTED" /\ Active(c, v)
       THEN AdjustReservation(c, v, quantity - line[c][v])
       ELSE UNCHANGED <<resv, stock>>
  /\ Touch(c)

RemoveItem(c, v) ==
  /\ Mutable(c)
  /\ line[c][v] > 0
  /\ line' = [line EXCEPT ![c][v] = 0]
  /\ ReleaseLines(c, {v})
  /\ Touch(c)

Clear(c) ==
  /\ Mutable(c)
  /\ line' = [line EXCEPT ![c] = [v \in Variants |-> 0]]
  /\ ReleaseLines(c, Variants)
  /\ Touch(c)

\* The price of a line changes nothing here, but accepting it keeps the cart alive.
AcceptCurrentPrice(c) ==
  /\ Mutable(c)
  /\ Lines(c) # {}
  /\ UNCHANGED <<line, resv, stock>>
  /\ Touch(c)

Abandon(c) ==
  /\ Mutable(c)
  /\ ReleaseLines(c, Variants)
  /\ cart' = [cart EXCEPT ![c] = "ABANDONED"]
  /\ checkout' = [checkout EXCEPT ![c] = IF @ = "NONE" THEN @ ELSE "CANCELLED"]
  /\ UNCHANGED <<filled, frozen, line, idle, sweep>>

-----------------------------------------------------------------------------
(* The checkout.  None of its requests gives the cart a new expiresAt.     *)

\* start: every tracked line is reserved, or none.
StartCheckout(c) ==
  LET starting == Lines(c) \cap tracked IN
  /\ cart[c] = "ACTIVE" /\ checkout[c] # "CONFIRMED"
  /\ Lines(c) # {}
  /\ LinesAreValid(c)
  /\ \A v \in starting : CanReserve(v, line[c][v]) /\ resv[c][v].cycle < MaxCycles
  /\ resv' = [resv EXCEPT ![c] = [v \in Variants |->
                IF v \in starting THEN NewReservation(c, v, line[c][v]) ELSE resv[c][v]]]
  /\ reserved' = [v \in Variants |->
                    IF v \in starting THEN reserved[v] + line[c][v] ELSE reserved[v]]
  /\ checkout' = [checkout EXCEPT ![c] = "COLLECTING_INFORMATION"]
  /\ cart' = [cart EXCEPT ![c] = "CHECKOUT_STARTED"]
  /\ UNCHANGED <<filled, frozen, line, onHand, tracked, supplied, drift, idle, sweep>>

\* update: the agent fills or empties fields, and renewIfDue gives the reservations a
\* new expiresAt: some of them, as the last renewal may be too recent, and never past
\* their maxExpiresAt.
UpdateCheckout(c) ==
  /\ cart[c] = "CHECKOUT_STARTED"
  /\ checkout[c] \in CheckoutStatus \ {"CONFIRMED"}
  /\ \E complete \in BOOLEAN :
       /\ filled' = IF complete THEN filled \cup {c} ELSE filled \ {c}
       /\ checkout' = [checkout EXCEPT ![c] =
            IF complete THEN "READY_FOR_CONFIRMATION" ELSE "COLLECTING_INFORMATION"]
  /\ \E renewed \in SUBSET {v \in Held(c) : resv[c][v].age = "lapsed"} :
       resv' = [resv EXCEPT ![c] = [v \in Variants |->
                  IF v \in renewed THEN [resv[c][v] EXCEPT !.age = "live"] ELSE resv[c][v]]]
  /\ UNCHANGED <<cart, frozen, line, stock, idle, sweep>>

\* The count of live reservations is compared with the count of tracked lines.
EnoughLiveReservations(c) ==
  Cardinality({v \in Held(c) : resv[c][v].age = "live"}) >= Cardinality(Lines(c) \cap tracked)

ConfirmCheckout(c) ==
  /\ cart[c] = "CHECKOUT_STARTED"
  /\ checkout[c] \in {"COLLECTING_INFORMATION", "READY_FOR_CONFIRMATION"}
  /\ c \in filled
  /\ LinesAreValid(c)
  /\ EnoughLiveReservations(c)
  /\ checkout' = [checkout EXCEPT ![c] = "CONFIRMED"]
  /\ frozen' = [frozen EXCEPT ![c] = Lines(c) \cap tracked]
  /\ UNCHANGED <<cart, filled, line, resv, stock, idle, sweep>>

CancelCheckout(c) ==
  /\ cart[c] = "CHECKOUT_STARTED"
  /\ checkout[c] \in CheckoutStatus \ {"CONFIRMED"}
  /\ ReleaseLines(c, Variants)
  /\ checkout' = [checkout EXCEPT ![c] = "CANCELLED"]
  /\ cart' = [cart EXCEPT ![c] = "ACTIVE"]
  /\ UNCHANGED <<filled, frozen, line, idle, sweep>>

-----------------------------------------------------------------------------
(* The merchant.                                                           *)

\* applyDelta (RESTOCK, DAMAGE) and applyTargetQuantity (ADJUSTMENT): what is on hand
\* is never negative, but may fall below what is reserved.
AdjustInventory(v, quantity) ==
  /\ v \in tracked
  /\ quantity # onHand[v]
  /\ onHand' = [onHand EXCEPT ![v] = quantity]
  /\ supplied' = [supplied EXCEPT ![v] = @ + quantity - onHand[v]]
  /\ supplied'[v] <= MaxSupply
  /\ UNCHANGED <<cart, session, line, resv, reserved, tracked, drift, idle, sweep>>

\* updateVariant keeps the inventory item when the variant is no longer tracked.
ToggleTracking(v) ==
  /\ v \in Toggles
  /\ tracked' = IF v \in tracked THEN tracked \ {v} ELSE tracked \cup {v}
  /\ UNCHANGED <<cart, session, line, resv, onHand, reserved, supplied, drift, idle, sweep>>

-----------------------------------------------------------------------------
(* Time.                                                                   *)

Aged(c, v, age) ==
  /\ Active(c, v)
  /\ resv' = [resv EXCEPT ![c][v].age = age]
  /\ UNCHANGED <<cart, session, line, stock, idle, sweep>>

\* A reservation passes its expiresAt ...
Lapse(c, v) == resv[c][v].age = "live" /\ Aged(c, v, "lapsed")

\* ... and its maxExpiresAt, which nothing moves.
Overrun(c, v) == resv[c][v].age # "over" /\ Aged(c, v, "over")

GoIdle(c) ==
  /\ Open(c)
  /\ c \notin idle
  /\ idle' = idle \cup {c}
  /\ UNCHANGED <<cart, session, line, resv, stock, sweep>>

-----------------------------------------------------------------------------
(* The sweep (CartExpirationService).                                      *)

\* The lines that hold a reservation, and what the sweep reads of one.
Holdings == {h \in Carts \X Variants : Active(h[1], h[2])}

Read(h) == [cart |-> h[1], variant |-> h[2],
            cycle |-> resv[h[1]][h[2]].cycle, quantity |-> resv[h[1]][h[2]].quantity]

\* Mutant: confirmed checkouts are left out, as they are for the carts.
SweepReadsUnconfirmed ==
  /\ sweep.phase = "off"
  /\ sweep' = [phase |-> "reservations", carts |-> {},
               batch |-> {Read(h) : h \in {h \in Holdings :
                 resv[h[1]][h[2]].age # "live" /\ checkout[h[1]] # "CONFIRMED"}}]
  /\ UNCHANGED <<cart, session, line, resv, stock, idle>>

SweepReadsReservations ==
  /\ sweep.phase = "off"
  /\ sweep' = [phase |-> "reservations", carts |-> {},
               batch |-> {Read(h) : h \in {h \in Holdings : resv[h[1]][h[2]].age # "live"}}]
  /\ UNCHANGED <<cart, session, line, resv, stock, idle>>

\* releaseReservationTx: that the reservation is still ACTIVE is checked, but what is
\* given back is the quantity that was read, and its age is not looked at again.
ReleaseRead(e) ==
  LET c == e.cart
      v == e.variant
  IN /\ Active(c, v) /\ resv[c][v].cycle = e.cycle
     /\ CanRelease(v, e.quantity)
     /\ resv' = [resv EXCEPT ![c][v] = Ended(@)]
     /\ reserved' = [reserved EXCEPT ![v] = @ - e.quantity]
     /\ drift' = [drift EXCEPT ![v] = @ + resv[c][v].quantity - e.quantity]
     /\ UNCHANGED <<onHand, tracked, supplied>>

\* An element that is no longer ACTIVE, or whose transaction raises, is passed over.
PassOver(e) ==
  /\ \/ ~Active(e.cart, e.variant)
     \/ resv[e.cart][e.variant].cycle # e.cycle
     \/ ~CanRelease(e.variant, e.quantity)
  /\ UNCHANGED <<resv, stock>>

SweepReleases(e) ==
  /\ e \in sweep.batch
  /\ sweep.phase \in {"reservations", "orphans"}
  /\ \/ /\ ReleaseRead(e)
        /\ sweep' = [sweep EXCEPT !.batch = @ \ {e},
                       !.carts = IF sweep.phase = "orphans" THEN @ ELSE @ \cup {e.cart}]
     \/ /\ PassOver(e)
        /\ sweep' = [sweep EXCEPT !.batch = @ \ {e}]
  /\ UNCHANGED <<cart, session, line, idle>>

\* Mutant: what the cart still holds is not looked at.
SweepRevertsAtOnce(c) ==
  /\ sweep.phase = "reservations" /\ sweep.batch = {} /\ c \in sweep.carts
  /\ cart' = [cart EXCEPT ![c] =
                IF @ = "CHECKOUT_STARTED" /\ checkout[c] # "CONFIRMED" THEN "ACTIVE" ELSE @]
  /\ sweep' = [sweep EXCEPT !.carts = @ \ {c}]
  /\ UNCHANGED <<session, line, resv, stock, idle>>

\* A cart whose last reservation has ended goes back to ACTIVE, and its session stays
\* as it is.  A confirmed one is left alone.
SweepReverts(c) ==
  /\ sweep.phase = "reservations" /\ sweep.batch = {} /\ c \in sweep.carts
  /\ cart' = [cart EXCEPT ![c] =
                IF Held(c) = {} /\ @ = "CHECKOUT_STARTED" /\ checkout[c] # "CONFIRMED"
                THEN "ACTIVE" ELSE @]
  /\ sweep' = [sweep EXCEPT !.carts = @ \ {c}]
  /\ UNCHANGED <<session, line, resv, stock, idle>>

SweepReadsCarts ==
  /\ sweep.phase = "reservations" /\ sweep.batch = {} /\ sweep.carts = {}
  /\ sweep' = [sweep EXCEPT !.phase = "carts",
                 !.carts = {c \in idle : Mutable(c)}]
  /\ UNCHANGED <<cart, session, line, resv, stock, idle>>

\* expireInactiveCarts: whether the checkout is confirmed is not looked at again.
ExpireCart(c) ==
  /\ Open(c) /\ c \in idle
  /\ ReleaseLines(c, Variants)
  /\ cart' = [cart EXCEPT ![c] = "EXPIRED"]
  /\ checkout' = [checkout EXCEPT ![c] =
                    IF @ \in {"NONE", "CONFIRMED", "CANCELLED"} THEN @ ELSE "EXPIRED"]
  /\ UNCHANGED <<filled, frozen, line, idle>>

CannotExpire(c) ==
  /\ \/ ~Open(c) \/ c \notin idle
     \/ \E v \in Held(c) : ~CanRelease(v, resv[c][v].quantity)
  /\ UNCHANGED <<cart, session, line, resv, stock, idle>>

SweepExpires(c) ==
  /\ sweep.phase = "carts" /\ c \in sweep.carts
  /\ sweep' = [sweep EXCEPT !.carts = @ \ {c}]
  /\ ExpireCart(c) \/ CannotExpire(c)

\* releaseOrphans: what a cart at its end still holds.
SweepReadsOrphans ==
  /\ sweep.phase = "carts" /\ sweep.carts = {}
  /\ sweep' = [phase |-> "orphans", carts |-> {},
               batch |-> {Read(h) : h \in {h \in Holdings : ~Open(h[1])}}]
  /\ UNCHANGED <<cart, session, line, resv, stock, idle>>

SweepEnds ==
  /\ sweep.phase = "orphans" /\ sweep.batch = {}
  /\ sweep' = NoSweep
  /\ UNCHANGED <<cart, session, line, resv, stock, idle>>

\* The worker dies, or an error that the sweep does not expect ends it.
SweepDies ==
  /\ Crashes
  /\ sweep.phase # "off"
  /\ sweep' = NoSweep
  /\ UNCHANGED <<cart, session, line, resv, stock, idle>>

SweepSteps ==
  \/ SweepReadsReservations \/ SweepReadsCarts \/ SweepReadsOrphans \/ SweepEnds
  \/ \E e \in sweep.batch : SweepReleases(e)
  \/ \E c \in sweep.carts : SweepReverts(c) \/ SweepExpires(c)

-----------------------------------------------------------------------------
LineRequests(c) ==
  \/ \E v \in Carried[c], quantity \in 1..MaxQuantity :
       AddItem(c, v, quantity) \/ SetQuantity(c, v, quantity)
  \/ \E v \in Carried[c] : RemoveItem(c, v)
  \/ Clear(c) \/ AcceptCurrentPrice(c)

CheckoutRequests(c) ==
  StartCheckout(c) \/ UpdateCheckout(c) \/ ConfirmCheckout(c) \/ CancelCheckout(c)

CartRequests(c) == CreateCart(c) \/ LineRequests(c) \/ CheckoutRequests(c) \/ Abandon(c)

InventoryRequests(v) ==
  ToggleTracking(v) \/ \E quantity \in 0..MaxSupply : AdjustInventory(v, quantity)

Passing(c) == GoIdle(c) \/ \E v \in Carried[c] : Lapse(c, v) \/ Overrun(c, v)

CartNext ==
  \/ \E c \in Carts : CartRequests(c) \/ Passing(c)
  \/ \E v \in Variants : InventoryRequests(v)
  \/ SweepSteps
  \/ SweepDies
=============================================================================
