----------------------------- MODULE OrdersProofs -----------------------------
(***************************************************************************)
(* Proofs about Orders, for any carts, variants, quantities and cycles of  *)
(* reservations.  The stock is counted in pieces: a step moves the pieces  *)
(* of one cart, and the counters of its variants by as many.               *)
(***************************************************************************)
EXTENDS Orders, FiniteSetTheorems, TLAPS

-----------------------------------------------------------------------------
(* Counting pieces.                                                        *)

Rows == [Carts -> 0 .. MaxQuantity]

\* The pieces that g counts for each cart, as HeldUnits and SoldUnits count them.
Units(g) == {u \in Carts \X (1 .. MaxQuantity) : u[2] <= g[u[1]]}

LEMMA UnitsOfOne ==
  ASSUME NEW c, NEW n \in Nat
  PROVE  IsFiniteSet({c} \X (1 .. n)) /\ Cardinality({c} \X (1 .. n)) = n
<1>1. IsFiniteSet({c}) /\ Cardinality({c}) = 1
  BY FS_Singleton
<1>2. IsFiniteSet(1 .. n) /\ Cardinality(1 .. n) = n
  BY FS_Interval
<1>3. /\ IsFiniteSet({c} \X (1 .. n))
      /\ Cardinality({c} \X (1 .. n)) = Cardinality({c}) * Cardinality(1 .. n)
  BY <1>1, <1>2, FS_Product
<1> QED
  BY <1>1, <1>2, <1>3

LEMMA UnitsAreFinite ==
  ASSUME NEW g \in Rows
  PROVE  IsFiniteSet(Units(g)) /\ Cardinality(Units(g)) \in Nat
<1>1. IsFiniteSet(Carts \X (1 .. MaxQuantity))
  <2>1. IsFiniteSet(1 .. MaxQuantity) /\ IsFiniteSet(Carts)
    BY CartsAssumption, FS_Interval
  <2> QED
    BY <2>1, FS_Product
<1> QED
  BY <1>1, FS_Subset, FS_CardinalityType DEF Units

\* The pieces of one cart apart from the others.
LEMMA UnitsSplit ==
  ASSUME NEW g \in Rows, NEW c \in Carts
  PROVE  LET others == {u \in Units(g) : u[1] # c} IN
         IsFiniteSet(others) /\ Cardinality(others) \in Nat
         /\ Cardinality(Units(g)) = Cardinality(others) + g[c]
<1> DEFINE others == {u \in Units(g) : u[1] # c}
           n == g[c]
           own == {c} \X (1 .. n)
<1>1. g[c] \in 0 .. MaxQuantity /\ MaxQuantity \in Nat
  BY CartsAssumption DEF Rows
<1>2. IsFiniteSet(own) /\ Cardinality(own) = g[c]
  <2>1. n \in Nat
    BY <1>1
  <2> HIDE DEF n
  <2> QED
    BY <2>1, UnitsOfOne DEF n
<1>3. IsFiniteSet(others) /\ Cardinality(others) \in Nat
  BY UnitsAreFinite, FS_Subset, FS_CardinalityType
<1>4. Units(g) = others \cup own /\ others \cap own = {}
  BY <1>1 DEF Units
<1> HIDE DEF others, own
<1>5. Cardinality(others \cup own) = Cardinality(others) + Cardinality(own) - Cardinality({})
  BY <1>2, <1>3, <1>4, FS_Union
<1>6. Cardinality(Units(g)) = Cardinality(others) + g[c]
  BY <1>1, <1>2, <1>3, <1>4, <1>5, FS_EmptySet
<1> QED
  BY <1>3, <1>6 DEF others

\* What changes for one cart changes the count by as much.
LEMMA UnitsChange ==
  ASSUME NEW g \in Rows, NEW h \in Rows, NEW c \in Carts,
         \A d \in Carts \ {c} : h[d] = g[d]
  PROVE  /\ Cardinality(Units(g)) \in Nat /\ Cardinality(Units(h)) \in Nat
         /\ Cardinality(Units(h)) = Cardinality(Units(g)) - g[c] + h[c]
<1>1. {u \in Units(g) : u[1] # c} = {u \in Units(h) : u[1] # c}
  BY DEF Units
<1> DEFINE others == {u \in Units(g) : u[1] # c}
<1>2. /\ Cardinality(others) \in Nat
      /\ Cardinality(Units(g)) = Cardinality(others) + g[c]
  BY UnitsSplit
<1>3. Cardinality(Units(h)) = Cardinality(others) + h[c]
  BY <1>1, UnitsSplit
<1>4. g[c] \in Nat /\ h[c] \in Nat
  BY CartsAssumption DEF Rows
<1> HIDE DEF others
<1> QED
  BY <1>2, <1>3, <1>4, UnitsAreFinite

-----------------------------------------------------------------------------
(* The inductive invariant.                                                *)

\* An order takes nothing before it exists, and gives back nothing before it is cancelled,
\* when it gives back everything.
OrderRows ==
  \A c \in Carts, v \in Variants :
    /\ order[c].consumed[v] <= MaxQuantity
    /\ order[c].status = "NONE" => order[c].consumed[v] = 0
    /\ order[c].restored[v] = IF order[c].status = "CANCELLED" THEN order[c].consumed[v] ELSE 0

Counted == \A v \in Variants : onHand[v] + Cardinality(SoldUnits(v)) = supplied[v]

\* A reservation that holds nothing is not ACTIVE.
HeldPieces == \A c \in Carts, v \in Variants : Active(c, v) => resv[c][v].quantity > 0

IInv ==
  /\ TypeOK /\ OrderRows /\ HeldPieces
  /\ HeldStockBelongsToACheckout /\ ReservedIsHeld /\ Counted

\* TypeOK but for the stock and the orders.
Forms ==
  /\ cart \in [Carts -> {"NONE"} \cup CartStatus]
  /\ checkout \in [Carts -> {"NONE"} \cup CheckoutStatus]
  /\ filled \subseteq Carts
  /\ line \in [Carts -> [Variants -> 0 .. MaxQuantity]]
  /\ frozen \in [Carts -> SUBSET Variants]
  /\ idle \subseteq Carts
  /\ sweep \in [phase : Phases, batch : SUBSET Expirations, carts : SUBSET Carts]

HeldForms == resv \in [Carts -> [Variants -> Reservations]]

OrderForms ==
  order \in [Carts -> [status : {"NONE"} \cup OrderStatus, type : FulfillmentTypes,
                       preference : PaymentPreferences, payment : {"UNPAID", "PENDING"},
                       fulfillment : FulfillmentStatus,
                       consumed : [Variants -> Nat], restored : [Variants -> Nat]]]

LEMMA TypesApart ==
  ASSUME TypeOK
  PROVE  /\ Forms /\ HeldForms /\ OrderForms
         /\ onHand \in [Variants -> Nat] /\ reserved \in [Variants -> Nat]
         /\ tracked \subseteq Variants
         /\ supplied \in [Variants -> Int] /\ drift \in [Variants -> Int]
<1>1. Forms
  BY DEF TypeOK, Forms
<1>2. HeldForms
  BY DEF TypeOK, HeldForms
<1>3. OrderForms
  BY Zenon DEF TypeOK, OrderForms
<1> QED
  BY <1>1, <1>2, <1>3 DEF TypeOK

\* The same of the states that a step leads to.
LEMMA TypesTogether ==
  ASSUME Forms', HeldForms', OrderForms',
         onHand' \in [Variants -> Nat], reserved' \in [Variants -> Nat],
         tracked' \subseteq Variants,
         supplied' \in [Variants -> Int], drift' \in [Variants -> Int]
  PROVE  TypeOK'
BY Zenon DEF TypeOK, Forms, HeldForms, OrderForms

-----------------------------------------------------------------------------
(* The counts.                                                             *)

HeldRow(v) == [c \in Carts |-> HeldBy(c, v)]
SoldRow(v) == [c \in Carts |-> order[c].consumed[v] - order[c].restored[v]]

LEMMA HeldRows ==
  ASSUME HeldForms, NEW v \in Variants
  PROVE  /\ HeldRow(v) \in Rows /\ HeldUnits(v) = Units(HeldRow(v))
         /\ \A c \in Carts : HeldRow(v)[c] = HeldBy(c, v)
<1>1. \A c \in Carts : HeldBy(c, v) \in 0 .. MaxQuantity
  BY CartsAssumption DEF HeldForms, HeldBy, Reservations
<1>2. \A c \in Carts : HeldRow(v)[c] = HeldBy(c, v)
  BY DEF HeldRow
<1>3. HeldRow(v) \in Rows
  BY <1>1 DEF HeldRow, Rows
<1>4. HeldUnits(v) = Units(HeldRow(v))
  BY <1>2 DEF HeldUnits, Units
<1> QED
  BY <1>2, <1>3, <1>4

LEMMA SoldRows ==
  ASSUME OrderForms, OrderRows, NEW v \in Variants
  PROVE  /\ SoldRow(v) \in Rows /\ SoldUnits(v) = Units(SoldRow(v))
         /\ \A c \in Carts : SoldRow(v)[c] = order[c].consumed[v] - order[c].restored[v]
<1>1. \A c \in Carts : order[c].consumed[v] - order[c].restored[v] \in 0 .. MaxQuantity
  <2> SUFFICES ASSUME NEW c \in Carts
               PROVE  order[c].consumed[v] - order[c].restored[v] \in 0 .. MaxQuantity
    OBVIOUS
  <2>1. order[c].consumed[v] \in Nat /\ order[c].consumed[v] <= MaxQuantity
    BY DEF OrderForms, OrderRows
  <2>2. order[c].restored[v] = 0 \/ order[c].restored[v] = order[c].consumed[v]
    BY DEF OrderRows
  <2> QED
    BY <2>1, <2>2, CartsAssumption
<1>2. \A c \in Carts : SoldRow(v)[c] = order[c].consumed[v] - order[c].restored[v]
  BY DEF SoldRow
<1>3. SoldRow(v) \in Rows
  BY <1>1 DEF SoldRow, Rows
<1>4. SoldUnits(v) = Units(SoldRow(v))
  BY <1>2 DEF SoldUnits, Units
<1> QED
  BY <1>2, <1>3, <1>4

\* What the reservations hold of a variant, after a step that moves those of cart c.
LEMMA HeldMoves ==
  ASSUME HeldForms, HeldForms', NEW c \in Carts, NEW v \in Variants,
         \A d \in Carts \ {c} : HeldBy(d, v)' = HeldBy(d, v)
  PROVE  /\ Cardinality(HeldUnits(v)) \in Nat /\ HeldBy(c, v) \in Nat /\ HeldBy(c, v)' \in Nat
         /\ Cardinality(HeldUnits(v))' = Cardinality(HeldUnits(v)) - HeldBy(c, v) + HeldBy(c, v)'
<1>1. /\ HeldRow(v) \in Rows /\ HeldUnits(v) = Units(HeldRow(v))
      /\ \A d \in Carts : HeldRow(v)[d] = HeldBy(d, v)
  BY HeldRows
<1>2. /\ HeldRow(v)' \in Rows /\ HeldUnits(v)' = Units(HeldRow(v)')
      /\ \A d \in Carts : HeldRow(v)'[d] = HeldBy(d, v)'
  <2>1. \A d \in Carts : HeldBy(d, v)' \in 0 .. MaxQuantity
    BY CartsAssumption DEF HeldForms, HeldBy, Reservations
  <2>2. \A d \in Carts : HeldRow(v)'[d] = HeldBy(d, v)'
    BY DEF HeldRow
  <2>3. HeldRow(v)' \in Rows
    BY <2>1 DEF HeldRow, Rows
  <2>4. HeldUnits(v)' = Units(HeldRow(v)')
    BY <2>2 DEF HeldUnits, Units
  <2> QED
    BY <2>2, <2>3, <2>4
<1>3. \A d \in Carts \ {c} : HeldRow(v)'[d] = HeldRow(v)[d]
  BY <1>1, <1>2
<1>4. /\ Cardinality(Units(HeldRow(v))) \in Nat
      /\ Cardinality(Units(HeldRow(v)')) =
           Cardinality(Units(HeldRow(v))) - HeldRow(v)[c] + HeldRow(v)'[c]
  BY <1>1, <1>2, <1>3, UnitsChange
<1>5. HeldBy(c, v) \in Nat /\ HeldBy(c, v)' \in Nat
  <2>1. HeldRow(v)[c] \in 0 .. MaxQuantity /\ HeldRow(v)'[c] \in 0 .. MaxQuantity
    BY <1>1, <1>2 DEF Rows
  <2> QED
    BY <1>1, <1>2, <2>1, CartsAssumption
<1> QED
  BY <1>1, <1>2, <1>4, <1>5

LEMMA SoldMoves ==
  ASSUME OrderForms, OrderRows, OrderForms', OrderRows', NEW c \in Carts, NEW v \in Variants,
         \A d \in Carts \ {c} : order'[d] = order[d]
  PROVE  /\ Cardinality(SoldUnits(v)) \in Nat
         /\ Cardinality(SoldUnits(v))' =
              Cardinality(SoldUnits(v)) - (order[c].consumed[v] - order[c].restored[v])
                + (order'[c].consumed[v] - order'[c].restored[v])
<1>1. /\ SoldRow(v) \in Rows /\ SoldUnits(v) = Units(SoldRow(v))
      /\ \A d \in Carts : SoldRow(v)[d] = order[d].consumed[v] - order[d].restored[v]
  BY SoldRows
<1>2. /\ SoldRow(v)' \in Rows /\ SoldUnits(v)' = Units(SoldRow(v)')
      /\ \A d \in Carts : SoldRow(v)'[d] = order'[d].consumed[v] - order'[d].restored[v]
  <2>1. \A d \in Carts : order'[d].consumed[v] - order'[d].restored[v] \in 0 .. MaxQuantity
    <3> SUFFICES ASSUME NEW d \in Carts
                 PROVE  order'[d].consumed[v] - order'[d].restored[v] \in 0 .. MaxQuantity
      OBVIOUS
    <3>1. order'[d].consumed[v] \in Nat /\ order'[d].consumed[v] <= MaxQuantity
      BY DEF OrderForms, OrderRows
    <3>2. order'[d].restored[v] = 0 \/ order'[d].restored[v] = order'[d].consumed[v]
      BY DEF OrderRows
    <3> QED
      BY <3>1, <3>2, CartsAssumption
  <2>2. \A d \in Carts : SoldRow(v)'[d] = order'[d].consumed[v] - order'[d].restored[v]
    BY DEF SoldRow
  <2>3. SoldRow(v)' \in Rows
    BY <2>1 DEF SoldRow, Rows
  <2>4. SoldUnits(v)' = Units(SoldRow(v)')
    BY <2>2 DEF SoldUnits, Units
  <2> QED
    BY <2>2, <2>3, <2>4
<1>3. \A d \in Carts \ {c} : SoldRow(v)'[d] = SoldRow(v)[d]
  BY <1>1, <1>2
<1>4. /\ Cardinality(Units(SoldRow(v))) \in Nat
      /\ Cardinality(Units(SoldRow(v)')) =
           Cardinality(Units(SoldRow(v))) - SoldRow(v)[c] + SoldRow(v)'[c]
  BY <1>1, <1>2, <1>3, UnitsChange
<1> QED
  BY <1>1, <1>2, <1>4

-----------------------------------------------------------------------------
(* What a step does to the stock.                                          *)

\* The reservations of cart c move, and the counters with them; more is reserved only of
\* what is on hand.
Stocked(c) ==
  /\ HeldForms' /\ reserved' \in [Variants -> Nat] /\ drift' \in [Variants -> Int]
  /\ tracked' \subseteq Variants /\ UNCHANGED <<onHand, supplied>>
  /\ \A d \in Carts \ {c} : resv'[d] = resv[d]
  /\ \A v \in Variants :
       /\ reserved'[v] - reserved[v] = HeldBy(c, v)' - HeldBy(c, v) + drift'[v] - drift[v]
       /\ reserved'[v] <= reserved[v] \/ v \in Backorder \/ reserved'[v] <= onHand[v]

\* Nobody but who counts stock out leaves more reserved than there is.
NoOverselling ==
  \A v \in Variants \ Backorder :
    reserved[v] <= onHand[v] /\ reserved'[v] > onHand'[v] => supplied'[v] < supplied[v]

\* The reservations of cart c are those of a checkout, or left to releaseOrphans.
Belongs(c) ==
  \A v \in Variants : Active(c, v) =>
    /\ resv[c][v].quantity = line[c][v] /\ resv[c][v].quantity > 0
    /\ \/ cart[c] = "CHECKOUT_STARTED"
       \/ cart[c] = "CONVERTED" /\ v \notin frozen[c]

LEMMA OrdersStay ==
  ASSUME IInv, UNCHANGED <<onHand, supplied, order>>
  PROVE  OrderForms' /\ OrderRows' /\ Counted'
<1>1. OrderForms
  BY TypesApart DEF IInv
<1> QED
  BY <1>1 DEF IInv, OrderForms, OrderRows, Counted, SoldUnits

\* The carts that a step of cart c leaves alone.
LEMMA OthersBelong ==
  ASSUME IInv, NEW c \in Carts, Belongs(c)',
         \A d \in Carts \ {c} : /\ resv'[d] = resv[d] /\ cart'[d] = cart[d]
                                /\ frozen'[d] = frozen[d] /\ line'[d] = line[d]
  PROVE  HeldStockBelongsToACheckout' /\ HeldPieces'
<1> SUFFICES ASSUME NEW d \in Carts
             PROVE  Belongs(d)'
  BY DEF HeldStockBelongsToACheckout, HeldPieces, Belongs
<1>1. CASE d = c
  BY <1>1
<1>2. CASE d # c
  <2>1. /\ resv'[d] = resv[d] /\ cart'[d] = cart[d] /\ frozen'[d] = frozen[d]
        /\ line'[d] = line[d]
    BY <1>2
  <2>2. Belongs(d)
    BY DEF IInv, HeldStockBelongsToACheckout, HeldPieces, Belongs
  <2> QED
    BY <2>1, <2>2 DEF Belongs, Active
<1> QED
  BY <1>1, <1>2

\* The counters that move as the reservations of cart c do.
LEMMA ReservedStaysHeld ==
  ASSUME IInv, NEW c \in Carts, HeldForms',
         reserved' \in [Variants -> Nat], drift' \in [Variants -> Int],
         \A d \in Carts \ {c} : resv'[d] = resv[d],
         \A v \in Variants :
           reserved'[v] - reserved[v] = HeldBy(c, v)' - HeldBy(c, v) + drift'[v] - drift[v]
  PROVE  ReservedIsHeld'
<1> SUFFICES ASSUME NEW v \in Variants
             PROVE  reserved'[v] = Cardinality(HeldUnits(v))' + drift'[v]
  BY DEF ReservedIsHeld
<1>1. HeldForms /\ HeldForms'
  BY TypesApart DEF IInv
<1>2. \A d \in Carts \ {c} : HeldBy(d, v)' = HeldBy(d, v)
  BY DEF HeldBy, Active
<1>3. /\ Cardinality(HeldUnits(v)) \in Nat /\ HeldBy(c, v) \in Nat /\ HeldBy(c, v)' \in Nat
      /\ Cardinality(HeldUnits(v))' = Cardinality(HeldUnits(v)) - HeldBy(c, v) + HeldBy(c, v)'
  BY <1>1, <1>2, HeldMoves
<1>4. reserved[v] = Cardinality(HeldUnits(v)) + drift[v]
  BY DEF IInv, ReservedIsHeld
<1>5. reserved'[v] - reserved[v] = HeldBy(c, v)' - HeldBy(c, v) + drift'[v] - drift[v]
  OBVIOUS
<1>6. reserved[v] \in Nat /\ reserved'[v] \in Nat /\ drift[v] \in Int /\ drift'[v] \in Int
  BY TypesApart DEF IInv
<1> DEFINE held == Cardinality(HeldUnits(v))
           later == Cardinality(HeldUnits(v))'
           one == HeldBy(c, v)
           another == HeldBy(c, v)'
           r == reserved[v]
           s == reserved'[v]
           before == drift[v]
           after == drift'[v]
<1>7. /\ held \in Nat /\ one \in Nat /\ another \in Nat /\ later = held - one + another
      /\ r = held + before /\ s - r = another - one + after - before
      /\ r \in Int /\ s \in Int /\ before \in Int /\ after \in Int
  BY <1>3, <1>4, <1>5, <1>6
<1> HIDE DEF held, later, one, another, r, s, before, after
<1>8. s = later + after
  BY <1>7
<1> QED
  BY <1>8 DEF later, s, after

\* A request of a cart, or the sweep for one.
LEMMA CartStepKeeps ==
  ASSUME IInv, UNCHANGED order, NEW c \in Carts, Stocked(c), Forms', Belongs(c)',
         \A d \in Carts \ {c} :
           cart'[d] = cart[d] /\ frozen'[d] = frozen[d] /\ line'[d] = line[d]
  PROVE  IInv' /\ NoOverselling
<1>1. OrderForms' /\ OrderRows' /\ Counted'
  BY OrdersStay DEF Stocked
<1>2. TypeOK'
  <2>1. onHand' \in [Variants -> Nat] /\ supplied' \in [Variants -> Int]
    BY TypesApart DEF IInv, Stocked
  <2> QED
    BY <1>1, <2>1, TypesTogether DEF Stocked
<1>3. HeldStockBelongsToACheckout' /\ HeldPieces'
  BY OthersBelong DEF Stocked
<1>4. ReservedIsHeld'
  BY ReservedStaysHeld DEF Stocked
<1>5. NoOverselling
  <2>1. \A v \in Variants : reserved[v] \in Nat /\ reserved'[v] \in Nat /\ onHand[v] \in Nat
    BY TypesApart DEF IInv, Stocked
  <2> QED
    BY <2>1 DEF Stocked, NoOverselling
<1> QED
  BY <1>1, <1>2, <1>3, <1>4, <1>5 DEF IInv

\* A step that leaves the reservations and the counters of every variant alone.
LEMMA RestKeeps ==
  ASSUME IInv, UNCHANGED <<line, onHand, reserved, supplied, drift, order>>, Forms', HeldForms',
         tracked' \subseteq Variants,
         \A c \in Carts, v \in Variants :
           resv'[c][v].status = resv[c][v].status /\ resv'[c][v].quantity = resv[c][v].quantity,
         \A c \in Carts : Held(c) # {} => cart'[c] = cart[c] /\ (cart[c] = "CHECKOUT_STARTED" \/ frozen'[c] = frozen[c])
  PROVE  IInv' /\ NoOverselling
<1>1. OrderForms' /\ OrderRows' /\ Counted'
  BY OrdersStay
<1>2. TypeOK'
  BY <1>1, TypesApart, TypesTogether DEF IInv
<1>3. \A c \in Carts, v \in Variants :
        /\ Active(c, v)' <=> Active(c, v)
        /\ HeldBy(c, v)' = HeldBy(c, v)
  BY DEF Active, HeldBy
<1>4. HeldStockBelongsToACheckout' /\ HeldPieces'
  <2>1. \A c \in Carts, v \in Variants : Active(c, v) => Held(c) # {}
    BY DEF Held
  <2>2. \A c \in Carts, v \in Variants : Active(c, v) =>
          /\ resv[c][v].quantity = line[c][v] /\ resv[c][v].quantity > 0
          /\ \/ cart[c] = "CHECKOUT_STARTED"
             \/ cart[c] = "CONVERTED" /\ v \notin frozen[c]
    BY DEF IInv, HeldStockBelongsToACheckout, HeldPieces
  <2> SUFFICES ASSUME NEW c \in Carts, NEW v \in Variants, Active(c, v)'
               PROVE  /\ resv'[c][v].quantity = line'[c][v] /\ resv'[c][v].quantity > 0
                      /\ \/ cart'[c] = "CHECKOUT_STARTED"
                         \/ cart'[c] = "CONVERTED" /\ v \notin frozen'[c]
    BY DEF HeldStockBelongsToACheckout, HeldPieces
  <2>3. Active(c, v)
    BY <1>3
  <2> QED
    BY <2>1, <2>2, <2>3
<1>5. ReservedIsHeld'
  <2>1. \A v \in Variants : HeldUnits(v)' = HeldUnits(v)
    BY <1>3 DEF HeldUnits
  <2> QED
    BY <2>1 DEF IInv, ReservedIsHeld
<1>6. NoOverselling
  <2>1. \A v \in Variants : reserved[v] \in Nat /\ onHand[v] \in Nat
    BY TypesApart DEF IInv
  <2> QED
    BY <2>1 DEF NoOverselling
<1> QED
  BY <1>1, <1>2, <1>4, <1>5, <1>6 DEF IInv

-----------------------------------------------------------------------------
(* What the reservation service does.                                      *)

LEMMA Numbers ==
  ASSUME IInv, NEW c \in Carts, NEW v \in Variants
  PROVE  /\ reserved[v] \in Nat /\ onHand[v] \in Nat /\ drift[v] \in Int
         /\ line[c][v] \in 0 .. MaxQuantity /\ resv[c][v] \in Reservations
         /\ resv[c][v].quantity \in 0 .. MaxQuantity
         /\ MaxQuantity \in Nat
BY TypesApart, CartsAssumption DEF IInv, Forms, HeldForms, Reservations

LEMMA EndedForm ==
  ASSUME NEW r \in Reservations
  PROVE  Ended(r) \in Reservations /\ Ended(r).status = "ENDED" /\ Ended(r).quantity = 0
<1>1. 0 \in 0 .. MaxQuantity /\ "ENDED" \in {"NONE", "ACTIVE", "ENDED", "CONSUMED"} /\ "live" \in Ages
  BY CartsAssumption DEF Ages
<1> QED
  BY Zenon, <1>1 DEF Ended, Reservations

\* A line of a cart that holds stock.
LEMMA HeldLines ==
  ASSUME IInv, NEW c \in Carts, NEW v \in Variants, Active(c, v)
  PROVE  /\ resv[c][v].quantity = line[c][v] /\ resv[c][v].quantity > 0
         /\ \/ cart[c] = "CHECKOUT_STARTED"
            \/ cart[c] = "CONVERTED" /\ v \notin frozen[c]
BY DEF IInv, HeldStockBelongsToACheckout, HeldPieces

\* Requests that leave the stock alone.
LEMMA NothingMoves ==
  ASSUME IInv, NEW c \in Carts, UNCHANGED <<resv, stock>>
  PROVE  Stocked(c)
<1>1. UNCHANGED <<resv, onHand, reserved, tracked, supplied, drift>>
  BY DEF stock
<1>2. /\ HeldForms /\ reserved \in [Variants -> Nat] /\ drift \in [Variants -> Int]
      /\ tracked \subseteq Variants
  BY TypesApart DEF IInv
<1>3. HeldForms'
  BY <1>1, <1>2 DEF HeldForms
<1>4. \A v \in Variants : HeldBy(c, v)' = HeldBy(c, v) /\ HeldBy(c, v) \in Int
  <2>1. \A v \in Variants : HeldBy(c, v) \in Int
    BY Numbers DEF HeldBy
  <2> QED
    BY <1>1, <2>1 DEF HeldBy, Active
<1>5. \A v \in Variants : reserved'[v] = reserved[v] /\ drift'[v] = drift[v]
                          /\ reserved[v] \in Int /\ drift[v] \in Int
  BY <1>1, <1>2
<1> QED
  BY <1>1, <1>2, <1>3, <1>4, <1>5 DEF Stocked

\* Every ACTIVE reservation of some lines ends.
LEMMA ReleaseMoves ==
  ASSUME IInv, NEW c \in Carts, NEW V \in SUBSET Variants, ReleaseLines(c, V)
  PROVE  /\ Stocked(c)
         /\ \A v \in Variants : Active(c, v)' =>
              v \notin V /\ Active(c, v) /\ resv'[c][v] = resv[c][v]
<1> DEFINE ending == V \cap Held(c)
           row == [v \in Variants |-> IF v \in ending THEN Ended(resv[c][v]) ELSE resv[c][v]]
<1>1. /\ \A v \in ending : reserved[v] >= resv[c][v].quantity
      /\ resv' = [resv EXCEPT ![c] = row]
      /\ reserved' = [v \in Variants |->
                        IF v \in ending THEN reserved[v] - resv[c][v].quantity ELSE reserved[v]]
      /\ UNCHANGED <<onHand, tracked, supplied, drift>>
  BY DEF ReleaseLines, CanRelease
<1>2. /\ HeldForms /\ drift \in [Variants -> Int] /\ tracked \subseteq Variants
  BY TypesApart DEF IInv
<1>3. \A v \in Variants : Ended(resv[c][v]) \in Reservations /\ Ended(resv[c][v]).status = "ENDED"
  BY Numbers, EndedForm
<1>4. row \in [Variants -> Reservations]
  BY <1>3, Numbers
<1>5. resv'[c] = row /\ \A d \in Carts \ {c} : resv'[d] = resv[d]
  BY <1>1, <1>2 DEF HeldForms
<1>6. HeldForms'
  BY <1>1, <1>2, <1>4 DEF HeldForms
<1>7. \A v \in Variants :
        /\ v \in ending => ~Active(c, v)'
        /\ v \notin ending => resv'[c][v] = resv[c][v]
  BY <1>3, <1>5 DEF Active
<1>8. \A v \in Variants :
        /\ HeldBy(c, v)' \in Int /\ HeldBy(c, v) \in Int
        /\ v \in ending => HeldBy(c, v)' = 0 /\ HeldBy(c, v) = resv[c][v].quantity
        /\ v \notin ending => HeldBy(c, v)' = HeldBy(c, v)
  BY <1>7, Numbers DEF HeldBy, Active, Held
<1>9. \A v \in Variants :
        /\ reserved'[v] \in Nat /\ reserved'[v] <= reserved[v]
        /\ reserved'[v] - reserved[v] = HeldBy(c, v)' - HeldBy(c, v)
        /\ drift'[v] = drift[v] /\ drift[v] \in Int
  <2> SUFFICES ASSUME NEW v \in Variants
               PROVE  /\ reserved'[v] \in Nat /\ reserved'[v] <= reserved[v]
                      /\ reserved'[v] - reserved[v] = HeldBy(c, v)' - HeldBy(c, v)
                      /\ drift'[v] = drift[v] /\ drift[v] \in Int
    OBVIOUS
  <2>1. /\ reserved[v] \in Nat /\ resv[c][v].quantity \in Nat /\ drift[v] \in Int
        /\ drift'[v] = drift[v]
    BY <1>1, Numbers
  <2>2. CASE v \in ending
    <3>1. reserved'[v] = reserved[v] - resv[c][v].quantity /\ reserved[v] >= resv[c][v].quantity
      BY <1>1, <2>2
    <3> HIDE DEF ending
    <3> QED
      BY <2>1, <2>2, <3>1, <1>8
  <2>3. CASE v \notin ending
    BY <1>1, <1>8, <2>1, <2>3
  <2> QED
    BY <2>2, <2>3
<1>10. reserved' \in [Variants -> Nat]
  BY <1>1, <1>9
<1>11. Stocked(c)
  <2>1. \A v \in Variants :
          /\ reserved'[v] - reserved[v] = HeldBy(c, v)' - HeldBy(c, v) + drift'[v] - drift[v]
          /\ reserved'[v] <= reserved[v]
    BY <1>8, <1>9
  <2> QED
    BY <1>1, <1>2, <1>5, <1>6, <1>10, <2>1 DEF Stocked
<1> QED
  BY <1>7, <1>11 DEF Active, Held

\* The reservation of a line changes its quantity.
LEMMA AdjustMoves ==
  ASSUME IInv, NEW c \in Carts, NEW v \in Variants, NEW delta \in Int, Active(c, v),
         resv[c][v].quantity + delta \in 0 .. MaxQuantity, AdjustReservation(c, v, delta)
  PROVE  /\ Stocked(c)
         /\ Active(c, v)' /\ resv'[c][v].quantity = resv[c][v].quantity + delta
         /\ \A w \in Variants \ {v} : resv'[c][w] = resv[c][w]
<1> DEFINE row == [resv[c] EXCEPT ![v].quantity = @ + delta]
<1>1. /\ delta <= 0 => reserved[v] >= -delta
      /\ delta > 0 => v \in Backorder \/ onHand[v] - reserved[v] >= delta
      /\ resv' = [resv EXCEPT ![c] = row]
      /\ reserved' = [reserved EXCEPT ![v] = @ + delta]
      /\ UNCHANGED <<onHand, tracked, supplied, drift>>
  BY DEF AdjustReservation, CanReserve, CanRelease
<1>2. /\ HeldForms /\ drift \in [Variants -> Int] /\ tracked \subseteq Variants
      /\ reserved \in [Variants -> Nat]
  BY TypesApart DEF IInv
<1>3. resv[c] \in [Variants -> Reservations]
  BY <1>2 DEF HeldForms
<1>4. /\ row \in [Variants -> Reservations]
      /\ row[v].status = "ACTIVE" /\ row[v].quantity = resv[c][v].quantity + delta
      /\ \A w \in Variants \ {v} : row[w] = resv[c][w]
  BY <1>3 DEF Reservations, Active
<1>5. resv'[c] = row /\ \A d \in Carts \ {c} : resv'[d] = resv[d]
  BY <1>1, <1>2 DEF HeldForms
<1>6. HeldForms'
  BY <1>1, <1>2, <1>4 DEF HeldForms
<1> HIDE DEF row
<1>7. /\ HeldBy(c, v)' = HeldBy(c, v) + delta /\ HeldBy(c, v) \in Int
      /\ \A w \in Variants \ {v} : HeldBy(c, w)' = HeldBy(c, w) /\ HeldBy(c, w) \in Int
  BY <1>4, <1>5, Numbers DEF HeldBy, Active
<1>8. /\ reserved'[v] = reserved[v] + delta /\ reserved'[v] \in Nat
      /\ \A w \in Variants \ {v} : reserved'[w] = reserved[w]
      /\ reserved' \in [Variants -> Nat]
      /\ reserved'[v] <= reserved[v] \/ v \in Backorder \/ reserved'[v] <= onHand[v]
  BY <1>1, <1>2, Numbers
<1>9. Stocked(c)
  <2>1. \A w \in Variants :
          /\ reserved'[w] - reserved[w] = HeldBy(c, w)' - HeldBy(c, w) + drift'[w] - drift[w]
          /\ reserved'[w] <= reserved[w] \/ w \in Backorder \/ reserved'[w] <= onHand[w]
    BY <1>1, <1>7, <1>8, Numbers
  <2> QED
    BY <1>1, <1>2, <1>5, <1>6, <1>8, <2>1 DEF Stocked
<1> QED
  BY <1>4, <1>5, <1>9 DEF Active

\* Some lines get a reservation of their quantity.
LEMMA ReserveMoves ==
  ASSUME IInv, NEW c \in Carts, NEW V \in SUBSET Variants, NEW q \in [V -> 0 .. MaxQuantity],
         \A v \in V : /\ ~Active(c, v) /\ resv[c][v].cycle < MaxCycles
                      /\ CanReserve(v, q[v])
                      /\ resv'[c][v] = NewReservation(c, v, q[v])
                      /\ reserved'[v] = reserved[v] + q[v],
         \A v \in Variants \ V : resv'[c][v] = resv[c][v] /\ reserved'[v] = reserved[v],
         \A d \in Carts \ {c} : resv'[d] = resv[d],
         resv' = [d \in Carts |-> resv'[d]],
         resv'[c] = [v \in Variants |-> resv'[c][v]],
         reserved' = [v \in Variants |-> reserved'[v]],
         UNCHANGED <<onHand, tracked, supplied, drift>>
  PROVE  /\ Stocked(c)
         /\ \A v \in V : Active(c, v)' /\ resv'[c][v].quantity = q[v]
<1>1. /\ HeldForms /\ drift \in [Variants -> Int] /\ tracked \subseteq Variants
      /\ reserved \in [Variants -> Nat]
  BY TypesApart DEF IInv
<1>2. \A v \in V : resv'[c][v] \in Reservations
  <2> SUFFICES ASSUME NEW v \in V
               PROVE  NewReservation(c, v, q[v]) \in Reservations
    OBVIOUS
  <2> DEFINE cycle == resv[c][v].cycle
  <2>1. cycle \in 0 .. MaxCycles /\ MaxCycles \in Nat
    BY <1>1, CartsAssumption DEF HeldForms, Reservations
  <2>2. cycle < MaxCycles
    OBVIOUS
  <2> HIDE DEF cycle
  <2>3. cycle + 1 \in 0 .. MaxCycles
    BY <2>1, <2>2
  <2> QED
    BY <2>3 DEF NewReservation, Reservations, Ages, cycle
<1>3. \A v \in Variants : resv'[c][v] \in Reservations
  BY <1>2, Numbers
<1>4. resv'[c] \in [Variants -> Reservations]
  BY <1>3
<1>5. HeldForms'
  <2>1. \A d \in Carts : resv'[d] \in [Variants -> Reservations]
    BY <1>1, <1>4 DEF HeldForms
  <2> QED
    BY <2>1 DEF HeldForms
<1>6. \A v \in V : Active(c, v)' /\ resv'[c][v].quantity = q[v]
  <2>1. \A v \in V : /\ NewReservation(c, v, q[v]).status = "ACTIVE"
                     /\ NewReservation(c, v, q[v]).quantity = q[v]
    BY DEF NewReservation
  <2> QED
    BY <2>1 DEF Active
<1>7. \A v \in Variants :
        /\ HeldBy(c, v) \in Int
        /\ v \in V => HeldBy(c, v) = 0 /\ HeldBy(c, v)' = q[v]
        /\ v \notin V => HeldBy(c, v)' = HeldBy(c, v)
  <2>1. \A v \in Variants : HeldBy(c, v) \in Int
    BY Numbers DEF HeldBy
  <2>2. \A v \in V : HeldBy(c, v) = 0 /\ HeldBy(c, v)' = q[v]
    BY <1>6 DEF HeldBy
  <2>3. \A v \in Variants \ V : HeldBy(c, v)' = HeldBy(c, v)
    BY DEF HeldBy, Active
  <2> QED
    BY <2>1, <2>2, <2>3
<1>8. \A v \in Variants :
        /\ reserved'[v] \in Nat
        /\ reserved'[v] - reserved[v] = HeldBy(c, v)' - HeldBy(c, v) + drift'[v] - drift[v]
        /\ reserved'[v] <= reserved[v] \/ v \in Backorder \/ reserved'[v] <= onHand[v]
  <2> SUFFICES ASSUME NEW v \in Variants
               PROVE  /\ reserved'[v] \in Nat
                      /\ reserved'[v] - reserved[v] =
                           HeldBy(c, v)' - HeldBy(c, v) + drift'[v] - drift[v]
                      /\ reserved'[v] <= reserved[v] \/ v \in Backorder
                         \/ reserved'[v] <= onHand[v]
    OBVIOUS
  <2>1. /\ reserved[v] \in Nat /\ onHand[v] \in Nat /\ drift[v] \in Int /\ drift'[v] = drift[v]
    BY Numbers
  <2>2. CASE v \in V
    <3>1. q[v] \in Nat /\ reserved'[v] = reserved[v] + q[v]
      BY <2>2, CartsAssumption
    <3>2. v \in Backorder \/ onHand[v] - reserved[v] >= q[v]
      BY <2>2 DEF CanReserve
    <3>3. HeldBy(c, v) = 0 /\ HeldBy(c, v)' = q[v]
      BY <1>7, <2>2
    <3> QED
      BY <2>1, <3>1, <3>2, <3>3
  <2>3. CASE v \notin V
    BY <1>7, <2>1, <2>3
  <2> QED
    BY <2>2, <2>3
<1>9. reserved' \in [Variants -> Nat]
  BY <1>8
<1> QED
  BY <1>1, <1>5, <1>6, <1>8, <1>9 DEF Stocked

\* The sweep gives back the quantity it has read.
LEMMA SweptMoves ==
  ASSUME IInv, NEW e \in Expirations, ReleaseRead(e)
  PROVE  /\ Stocked(e.cart)
         /\ \A v \in Variants : Active(e.cart, v)' =>
              Active(e.cart, v) /\ resv'[e.cart][v] = resv[e.cart][v]
<1> DEFINE c == e.cart
           v == e.variant
           q == e.quantity
<1>1. c \in Carts /\ v \in Variants /\ q \in Nat
  BY CartsAssumption DEF Expirations
<1>2. /\ Active(c, v) /\ reserved[v] >= q
      /\ resv' = [resv EXCEPT ![c] = [@ EXCEPT ![v] = Ended(resv[c][v])]]
      /\ reserved' = [reserved EXCEPT ![v] = @ - q]
      /\ drift' = [drift EXCEPT ![v] = @ + resv[c][v].quantity - q]
      /\ UNCHANGED <<onHand, tracked, supplied>>
  BY DEF ReleaseRead, CanRelease
<1> HIDE DEF c, v, q
<1>3. /\ HeldForms /\ drift \in [Variants -> Int] /\ tracked \subseteq Variants
      /\ reserved \in [Variants -> Nat]
  BY TypesApart DEF IInv
<1>4. /\ Ended(resv[c][v]) \in Reservations /\ Ended(resv[c][v]).status = "ENDED"
      /\ resv[c][v].quantity \in Nat
  BY <1>1, EndedForm, Numbers
<1>5. /\ HeldForms' /\ \A d \in Carts \ {c} : resv'[d] = resv[d]
      /\ resv'[c][v] = Ended(resv[c][v])
      /\ \A w \in Variants \ {v} : resv'[c][w] = resv[c][w]
  BY <1>1, <1>2, <1>3, <1>4 DEF HeldForms
<1>6. ~Active(c, v)'
  BY <1>4, <1>5 DEF Active
<1>7. /\ HeldBy(c, v)' = 0 /\ HeldBy(c, v) = resv[c][v].quantity
      /\ \A w \in Variants \ {v} : HeldBy(c, w)' = HeldBy(c, w) /\ HeldBy(c, w) \in Int
  BY <1>1, <1>2, <1>5, <1>6, Numbers DEF HeldBy, Active
<1>8. /\ reserved'[v] = reserved[v] - q /\ reserved[v] \in Nat /\ drift[v] \in Int
      /\ drift'[v] = drift[v] + resv[c][v].quantity - q
      /\ \A w \in Variants \ {v} : reserved'[w] = reserved[w] /\ drift'[w] = drift[w]
  BY <1>1, <1>2, <1>3
<1>9. reserved'[v] \in Nat /\ drift'[v] \in Int /\ reserved'[v] <= reserved[v]
  BY <1>1, <1>2, <1>4, <1>8
<1>10. reserved' \in [Variants -> Nat] /\ drift' \in [Variants -> Int]
  BY <1>2, <1>3, <1>9
<1>11. reserved'[v] - reserved[v] = HeldBy(c, v)' - HeldBy(c, v) + drift'[v] - drift[v]
  BY <1>1, <1>4, <1>7, <1>8
<1>12. \A w \in Variants \ {v} :
         /\ reserved'[w] - reserved[w] = HeldBy(c, w)' - HeldBy(c, w) + drift'[w] - drift[w]
         /\ reserved'[w] <= reserved[w]
  BY <1>1, <1>3, <1>7, <1>8
<1>13. Stocked(c)
  BY <1>2, <1>3, <1>5, <1>9, <1>10, <1>11, <1>12 DEF Stocked
<1>14. \A w \in Variants : Active(c, w)' => Active(c, w) /\ resv'[c][w] = resv[c][w]
  BY <1>5, <1>6 DEF Active
<1> QED
  BY <1>13, <1>14 DEF c

-----------------------------------------------------------------------------
(* The lines of a cart.                                                    *)

\* Requests that touch nothing but a line, its reservation, and whether the cart is idle.
LEMMA LineStepKeeps ==
  ASSUME IInv, UNCHANGED order, NEW c \in Carts, Stocked(c), Belongs(c)', Touch(c),
         line' \in [Carts -> [Variants -> 0 .. MaxQuantity]],
         \A d \in Carts \ {c} : line'[d] = line[d]
  PROVE  IInv' /\ NoOverselling
<1>1. UNCHANGED <<cart, checkout, filled, frozen, sweep>> /\ idle' = idle \ {c}
  BY DEF Touch, session
<1>2. Forms
  BY TypesApart DEF IInv
<1>3. Forms'
  BY <1>1, <1>2 DEF Forms
<1> QED
  BY <1>1, <1>3, CartStepKeeps

LEMMA CreateCartKeeps ==
  ASSUME IInv, UNCHANGED order, NEW c \in Carts, CreateCart(c)
  PROVE  IInv' /\ NoOverselling
<1>1. /\ cart[c] = "NONE" /\ cart' = [cart EXCEPT ![c] = "ACTIVE"]
      /\ UNCHANGED <<checkout, filled, frozen, line, resv, stock, idle, sweep>>
  BY DEF CreateCart, session
<1>2. Forms
  BY TypesApart DEF IInv
<1>3. Forms' /\ \A d \in Carts \ {c} : cart'[d] = cart[d]
  BY <1>1, <1>2 DEF Forms, CartStatus
<1>4. Stocked(c)
  BY <1>1, NothingMoves
<1>5. Belongs(c)'
  <2>1. \A v \in Variants : ~Active(c, v)
    BY <1>1, HeldLines
  <2> QED
    BY <1>1, <2>1 DEF Belongs, Active
<1> QED
  BY <1>1, <1>3, <1>4, <1>5, CartStepKeeps

LEMMA AddItemKeeps ==
  ASSUME IInv, UNCHANGED order, NEW c \in Carts, NEW v \in Carried[c],
         NEW quantity \in 1 .. MaxQuantity, AddItem(c, v, quantity)
  PROVE  IInv' /\ NoOverselling
<1>1. /\ v \in Variants /\ quantity \in Nat /\ quantity > 0 /\ Touch(c) /\ Mutable(c)
      /\ line[c][v] + quantity <= MaxQuantity
      /\ line' = [line EXCEPT ![c][v] = @ + quantity]
  BY CartsAssumption DEF AddItem
<1>2. /\ line \in [Carts -> [Variants -> 0 .. MaxQuantity]] /\ HeldForms
      /\ reserved \in [Variants -> Nat]
  BY TypesApart DEF IInv, Forms
<1>3. line[c][v] + quantity \in 0 .. MaxQuantity
  BY <1>1, <1>2, CartsAssumption
<1>4. /\ line' \in [Carts -> [Variants -> 0 .. MaxQuantity]]
      /\ line'[c][v] = line[c][v] + quantity
      /\ \A w \in Variants \ {v} : line'[c][w] = line[c][w]
      /\ \A d \in Carts \ {c} : line'[d] = line[d]
  BY <1>1, <1>2, <1>3
<1>5. UNCHANGED <<cart, frozen>>
  BY <1>1 DEF Touch, session
<1>6. CASE cart[c] = "CHECKOUT_STARTED" /\ Active(c, v) /\ AdjustReservation(c, v, quantity)
  <2>1. resv[c][v].quantity = line[c][v]
    BY <1>1, <1>6, HeldLines
  <2>2. resv[c][v].quantity + quantity \in 0 .. MaxQuantity /\ quantity \in Int
    BY <1>1, <1>3, <2>1
  <2>3. /\ Stocked(c) /\ resv'[c][v].quantity = resv[c][v].quantity + quantity
        /\ \A w \in Variants \ {v} : resv'[c][w] = resv[c][w]
    BY <1>1, <1>6, <2>2, AdjustMoves
  <2>4. Belongs(c)'
    <3>1. \A w \in Variants \ {v} : Active(c, w)' =>
            resv'[c][w].quantity = line'[c][w] /\ resv'[c][w].quantity > 0
      BY <1>4, <2>3, HeldLines DEF Active
    <3> QED
      BY <1>1, <1>2, <1>4, <1>5, <1>6, <2>1, <2>3, <3>1 DEF Belongs
  <2> QED
    BY <1>1, <1>4, <2>3, <2>4, LineStepKeeps
<1>7. CASE /\ cart[c] = "CHECKOUT_STARTED" /\ line[c][v] = 0 /\ v \in tracked
           /\ ~Active(c, v)
           /\ resv[c][v].cycle < MaxCycles
           /\ CanReserve(v, quantity)
           /\ resv' = [resv EXCEPT ![c][v] = NewReservation(c, v, quantity)]
           /\ reserved' = [reserved EXCEPT ![v] = @ + quantity]
           /\ UNCHANGED <<onHand, tracked, supplied, drift>>
  <2> DEFINE V == {v}
             q == [w \in V |-> quantity]
  <2>1. V \in SUBSET Variants /\ q \in [V -> 0 .. MaxQuantity] /\ \A w \in V : w = v /\ q[w] = quantity
    BY <1>1
  <2>2. /\ resv'[c][v] = NewReservation(c, v, quantity)
        /\ \A w \in Variants \ {v} : resv'[c][w] = resv[c][w]
        /\ \A d \in Carts \ {c} : resv'[d] = resv[d]
    BY <1>1, <1>2, <1>7 DEF HeldForms
  <2>3. /\ resv' = [d \in Carts |-> resv'[d]]
        /\ resv'[c] = [w \in Variants |-> resv'[c][w]]
    BY <1>1, <1>2, <1>7 DEF HeldForms
  <2>10. UNCHANGED <<onHand, tracked, supplied, drift>>
    BY <1>7
  <2>4. /\ reserved'[v] = reserved[v] + quantity
        /\ \A w \in Variants \ {v} : reserved'[w] = reserved[w]
        /\ reserved' = [w \in Variants |-> reserved'[w]]
    BY <1>1, <1>2, <1>7
  <2> HIDE DEF V, q
  <2>5. \A w \in V : /\ ~Active(c, w) /\ resv[c][w].cycle < MaxCycles /\ CanReserve(w, q[w])
                     /\ resv'[c][w] = NewReservation(c, w, q[w])
                     /\ reserved'[w] = reserved[w] + q[w]
    BY <1>7, <2>1, <2>2, <2>4
  <2>6. \A w \in Variants \ V : resv'[c][w] = resv[c][w] /\ reserved'[w] = reserved[w]
    BY <2>2, <2>4 DEF V
  <2>7. Stocked(c) /\ \A w \in V : Active(c, w)' /\ resv'[c][w].quantity = q[w]
    BY <2>1, <2>2, <2>3, <2>4, <2>5, <2>6, <2>10, ReserveMoves
  <2>8. resv'[c][v].quantity = quantity
    BY <2>1, <2>7 DEF V
  <2>9. Belongs(c)'
    <3>1. \A w \in Variants \ {v} : Active(c, w)' =>
            resv'[c][w].quantity = line'[c][w] /\ resv'[c][w].quantity > 0
      BY <1>4, <2>2, HeldLines DEF Active
    <3>2. resv'[c][v].quantity = line'[c][v] /\ resv'[c][v].quantity > 0
      BY <1>1, <1>4, <1>7, <2>8
    <3> QED
      BY <1>5, <1>7, <3>1, <3>2 DEF Belongs
  <2> QED
    BY <1>1, <1>4, <2>7, <2>9, LineStepKeeps
<1>8. CASE ~Active(c, v) /\ UNCHANGED <<resv, stock>>
  <2>1. Stocked(c)
    BY <1>8, NothingMoves
  <2>2. Belongs(c)'
    BY <1>4, <1>5, <1>8, HeldLines DEF Belongs, Active
  <2> QED
    BY <1>1, <1>4, <2>1, <2>2, LineStepKeeps
<1>9. line[c][v] = 0 \/ cart[c] = "ACTIVE" => ~Active(c, v)
  <2> SUFFICES ASSUME Active(c, v)
               PROVE  line[c][v] # 0 /\ cart[c] # "ACTIVE"
    OBVIOUS
  <2> QED
    BY <1>1, HeldLines
<1> QED
  BY <1>6, <1>7, <1>8, <1>9 DEF AddItem

LEMMA SetQuantityKeeps ==
  ASSUME IInv, UNCHANGED order, NEW c \in Carts, NEW v \in Carried[c],
         NEW quantity \in 1 .. MaxQuantity, SetQuantity(c, v, quantity)
  PROVE  IInv' /\ NoOverselling
<1>1. /\ v \in Variants /\ quantity \in 0 .. MaxQuantity /\ quantity > 0 /\ Touch(c)
      /\ line' = [line EXCEPT ![c][v] = quantity]
  BY CartsAssumption DEF SetQuantity
<1>2. line \in [Carts -> [Variants -> 0 .. MaxQuantity]]
  BY TypesApart DEF IInv, Forms
<1>3. /\ line' \in [Carts -> [Variants -> 0 .. MaxQuantity]]
      /\ line'[c][v] = quantity
      /\ \A w \in Variants \ {v} : line'[c][w] = line[c][w]
      /\ \A d \in Carts \ {c} : line'[d] = line[d]
  BY <1>1, <1>2
<1>4. UNCHANGED <<cart, frozen>>
  BY <1>1 DEF Touch, session
<1>5. CASE cart[c] = "CHECKOUT_STARTED" /\ Active(c, v)
  <2>1. AdjustReservation(c, v, quantity - line[c][v])
    BY <1>5 DEF SetQuantity
  <2>2. resv[c][v].quantity = line[c][v] /\ line[c][v] \in Nat
    BY <1>1, <1>2, <1>5, HeldLines, CartsAssumption
  <2> DEFINE delta == quantity - line[c][v]
  <2>3. delta \in Int /\ resv[c][v].quantity + delta = quantity
    BY <1>1, <2>2
  <2> HIDE DEF delta
  <2>4. resv[c][v].quantity + delta \in 0 .. MaxQuantity
    BY <1>1, <2>3
  <2>5. AdjustReservation(c, v, delta)
    BY <2>1 DEF delta
  <2>6. /\ Stocked(c) /\ resv'[c][v].quantity = resv[c][v].quantity + delta
        /\ \A w \in Variants \ {v} : resv'[c][w] = resv[c][w]
    BY <1>1, <1>5, <2>3, <2>4, <2>5, AdjustMoves
  <2>7. Belongs(c)'
    <3>1. \A w \in Variants \ {v} : Active(c, w)' =>
            resv'[c][w].quantity = line'[c][w] /\ resv'[c][w].quantity > 0
      BY <1>3, <2>6, HeldLines DEF Active
    <3>2. resv'[c][v].quantity = line'[c][v] /\ resv'[c][v].quantity > 0
      BY <1>1, <1>3, <2>3, <2>6
    <3> QED
      BY <1>4, <1>5, <3>1, <3>2 DEF Belongs
  <2> QED
    BY <1>1, <1>3, <2>6, <2>7, LineStepKeeps
<1>6. CASE ~(cart[c] = "CHECKOUT_STARTED" /\ Active(c, v))
  <2>1. UNCHANGED <<resv, stock>>
    BY <1>6 DEF SetQuantity
  <2>2. Stocked(c)
    BY <2>1, NothingMoves
  <2>3. ~Active(c, v)
    <3>1. cart[c] \in {"ACTIVE", "CHECKOUT_STARTED"}
      BY DEF SetQuantity, Mutable, Open, OpenCartStatus
    <3> QED
      BY <1>1, <1>6, <3>1, HeldLines
  <2>4. Belongs(c)'
    BY <1>3, <1>4, <2>1, <2>3, HeldLines DEF Belongs, Active
  <2> QED
    BY <1>1, <1>3, <2>2, <2>4, LineStepKeeps
<1> QED
  BY <1>5, <1>6

LEMMA RemoveItemKeeps ==
  ASSUME IInv, UNCHANGED order, NEW c \in Carts, NEW v \in Carried[c], RemoveItem(c, v)
  PROVE  IInv' /\ NoOverselling
<1>1. /\ v \in Variants /\ Touch(c) /\ ReleaseLines(c, {v})
      /\ line' = [line EXCEPT ![c][v] = 0]
  BY CartsAssumption DEF RemoveItem
<1>2. line \in [Carts -> [Variants -> 0 .. MaxQuantity]] /\ 0 \in 0 .. MaxQuantity
  BY TypesApart, CartsAssumption DEF IInv, Forms
<1>3. /\ line' \in [Carts -> [Variants -> 0 .. MaxQuantity]]
      /\ \A w \in Variants \ {v} : line'[c][w] = line[c][w]
      /\ \A d \in Carts \ {c} : line'[d] = line[d]
  BY <1>1, <1>2
<1>4. UNCHANGED <<cart, frozen>>
  BY <1>1 DEF Touch, session
<1>5. /\ Stocked(c)
      /\ \A w \in Variants : Active(c, w)' =>
           w \notin {v} /\ Active(c, w) /\ resv'[c][w] = resv[c][w]
  BY <1>1, ReleaseMoves
<1>6. Belongs(c)'
  BY <1>3, <1>4, <1>5, HeldLines DEF Belongs
<1> QED
  BY <1>1, <1>3, <1>5, <1>6, LineStepKeeps

LEMMA ClearKeeps ==
  ASSUME IInv, UNCHANGED order, NEW c \in Carts, Clear(c)
  PROVE  IInv' /\ NoOverselling
<1>1. /\ Touch(c) /\ ReleaseLines(c, Variants)
      /\ line' = [line EXCEPT ![c] = [v \in Variants |-> 0]]
  BY DEF Clear
<1>2. line \in [Carts -> [Variants -> 0 .. MaxQuantity]] /\ 0 \in 0 .. MaxQuantity
  BY TypesApart, CartsAssumption DEF IInv, Forms
<1>3. /\ line' \in [Carts -> [Variants -> 0 .. MaxQuantity]]
      /\ \A d \in Carts \ {c} : line'[d] = line[d]
  BY <1>1, <1>2
<1>4. Stocked(c) /\ \A v \in Variants : ~Active(c, v)'
  BY <1>1, ReleaseMoves
<1>5. Belongs(c)'
  BY <1>4 DEF Belongs
<1> QED
  BY <1>1, <1>3, <1>4, <1>5, LineStepKeeps

LEMMA AcceptCurrentPriceKeeps ==
  ASSUME IInv, UNCHANGED order, NEW c \in Carts, AcceptCurrentPrice(c)
  PROVE  IInv' /\ NoOverselling
<1>1. Touch(c) /\ UNCHANGED <<line, resv, stock>>
  BY DEF AcceptCurrentPrice
<1>2. Stocked(c)
  BY <1>1, NothingMoves
<1>3. UNCHANGED <<cart, frozen>>
  BY <1>1 DEF Touch, session
<1>4. Belongs(c)'
  BY <1>1, <1>3, HeldLines DEF Belongs, Active
<1>5. /\ line' \in [Carts -> [Variants -> 0 .. MaxQuantity]]
      /\ \A d \in Carts \ {c} : line'[d] = line[d]
  BY <1>1, TypesApart DEF IInv, Forms
<1> QED
  BY <1>1, <1>2, <1>4, <1>5, LineStepKeeps

-----------------------------------------------------------------------------
(* The checkout, and the end of a cart.                                    *)

\* A request that gives back all that a cart holds.
LEMMA ReleaseAllKeeps ==
  ASSUME IInv, UNCHANGED <<order, line, frozen>>, NEW c \in Carts, ReleaseLines(c, Variants),
         Forms', \A d \in Carts \ {c} : cart'[d] = cart[d]
  PROVE  IInv' /\ NoOverselling
<1>1. Stocked(c) /\ \A v \in Variants : ~Active(c, v)'
  BY ReleaseMoves
<1>2. Belongs(c)'
  BY <1>1 DEF Belongs
<1> QED
  BY <1>1, <1>2, CartStepKeeps

LEMMA AbandonKeeps ==
  ASSUME IInv, UNCHANGED order, NEW c \in Carts, Abandon(c)
  PROVE  IInv' /\ NoOverselling
<1>1. Forms
  BY TypesApart DEF IInv
<1>2. Forms' /\ \A d \in Carts \ {c} : cart'[d] = cart[d]
  BY <1>1 DEF Forms, Abandon, CartStatus, CheckoutStatus
<1> QED
  BY <1>2, ReleaseAllKeeps DEF Abandon

LEMMA CancelCheckoutKeeps ==
  ASSUME IInv, UNCHANGED order, NEW c \in Carts, CancelCheckout(c)
  PROVE  IInv' /\ NoOverselling
<1>1. Forms
  BY TypesApart DEF IInv
<1>2. Forms' /\ \A d \in Carts \ {c} : cart'[d] = cart[d]
  BY <1>1 DEF Forms, CancelCheckout, CartStatus, CheckoutStatus
<1> QED
  BY <1>2, ReleaseAllKeeps DEF CancelCheckout

LEMMA StartCheckoutKeeps ==
  ASSUME IInv, UNCHANGED order, NEW c \in Carts, StartCheckout(c)
  PROVE  IInv' /\ NoOverselling
<1> DEFINE V == Lines(c) \cap tracked
           q == [v \in V |-> line[c][v]]
           row == [v \in Variants |->
                     IF v \in V THEN NewReservation(c, v, line[c][v]) ELSE resv[c][v]]
<1>1. /\ cart[c] = "ACTIVE"
      /\ \A v \in V : CanReserve(v, line[c][v]) /\ resv[c][v].cycle < MaxCycles
      /\ resv' = [resv EXCEPT ![c] = row]
      /\ reserved' = [v \in Variants |->
                        IF v \in V THEN reserved[v] + line[c][v] ELSE reserved[v]]
      /\ checkout' = [checkout EXCEPT ![c] = "COLLECTING_INFORMATION"]
      /\ cart' = [cart EXCEPT ![c] = "CHECKOUT_STARTED"]
      /\ UNCHANGED <<filled, frozen, line, onHand, tracked, supplied, drift, idle, sweep>>
  BY DEF StartCheckout
<1>2. Forms /\ HeldForms
  BY TypesApart DEF IInv
<1>3. Forms' /\ cart'[c] = "CHECKOUT_STARTED" /\ \A d \in Carts \ {c} : cart'[d] = cart[d]
  BY <1>1, <1>2 DEF Forms, CartStatus, CheckoutStatus
<1>4. \A v \in Variants : ~Active(c, v)
  BY <1>1, HeldLines
<1>5. V \in SUBSET Variants /\ q \in [V -> 0 .. MaxQuantity] /\ \A v \in V : q[v] = line[c][v] /\ q[v] > 0
  BY <1>2, CartsAssumption DEF Forms, Lines
<1>6. /\ \A d \in Carts \ {c} : resv'[d] = resv[d]
      /\ resv' = [d \in Carts |-> resv'[d]] /\ resv'[c] = row
  BY <1>1, <1>2 DEF HeldForms
<1>7. resv'[c] = [v \in Variants |-> resv'[c][v]]
  BY <1>6
<1>8. reserved' = [v \in Variants |-> reserved'[v]]
  BY <1>1
<1>9. \A v \in V : /\ ~Active(c, v) /\ resv[c][v].cycle < MaxCycles
                   /\ CanReserve(v, q[v])
                   /\ resv'[c][v] = NewReservation(c, v, q[v])
                   /\ reserved'[v] = reserved[v] + q[v]
  BY <1>1, <1>4, <1>5, <1>6
<1>10. \A v \in Variants \ V : resv'[c][v] = resv[c][v] /\ reserved'[v] = reserved[v]
  BY <1>1, <1>6
<1> HIDE DEF V, q, row
<1>11. UNCHANGED <<onHand, tracked, supplied, drift>>
  BY <1>1
<1>12. Stocked(c) /\ \A v \in V : Active(c, v)' /\ resv'[c][v].quantity = q[v]
  BY <1>5, <1>6, <1>7, <1>8, <1>9, <1>10, <1>11, ReserveMoves
<1>13. Belongs(c)'
  <2> SUFFICES ASSUME NEW v \in Variants, Active(c, v)'
               PROVE  resv'[c][v].quantity = line'[c][v] /\ resv'[c][v].quantity > 0
    BY <1>3 DEF Belongs
  <2>1. v \in V
    BY <1>4, <1>10 DEF Active
  <2> QED
    BY <1>1, <1>5, <1>12, <2>1
<1> QED
  BY <1>1, <1>3, <1>12, <1>13, CartStepKeeps

LEMMA UpdateCheckoutKeeps ==
  ASSUME IInv, UNCHANGED order, NEW c \in Carts, UpdateCheckout(c)
  PROVE  IInv' /\ NoOverselling
<1>1. Forms /\ HeldForms /\ tracked \subseteq Variants
  BY TypesApart DEF IInv
<1>2. PICK complete \in BOOLEAN :
        /\ filled' = IF complete THEN filled \cup {c} ELSE filled \ {c}
        /\ checkout' = [checkout EXCEPT ![c] =
             IF complete THEN "READY_FOR_CONFIRMATION" ELSE "COLLECTING_INFORMATION"]
  BY DEF UpdateCheckout
<1>3. PICK renewed \in SUBSET {v \in Held(c) : resv[c][v].age = "lapsed"} :
        resv' = [resv EXCEPT ![c] = [v \in Variants |->
                   IF v \in renewed THEN [resv[c][v] EXCEPT !.age = "live"] ELSE resv[c][v]]]
  BY DEF UpdateCheckout
<1>4. UNCHANGED <<cart, frozen, line, onHand, reserved, tracked, supplied, drift, idle, sweep>>
  BY DEF UpdateCheckout, stock
<1>5. Forms'
  BY <1>1, <1>2, <1>4 DEF Forms, CheckoutStatus
<1>6. \A v \in Variants :
        LET r == resv[c][v]
            s == [r EXCEPT !.age = "live"]
        IN s \in Reservations /\ s.status = r.status /\ s.quantity = r.quantity
  BY Numbers DEF Reservations, Ages
<1>7. /\ HeldForms'
      /\ \A d \in Carts, v \in Variants :
           resv'[d][v].status = resv[d][v].status /\ resv'[d][v].quantity = resv[d][v].quantity
  <2> DEFINE row == [v \in Variants |->
                       IF v \in renewed THEN [resv[c][v] EXCEPT !.age = "live"] ELSE resv[c][v]]
  <2>1. /\ row \in [Variants -> Reservations]
        /\ \A v \in Variants :
             row[v].status = resv[c][v].status /\ row[v].quantity = resv[c][v].quantity
    BY <1>6, Numbers
  <2> HIDE DEF row
  <2>2. resv' = [resv EXCEPT ![c] = row]
    BY <1>3 DEF row
  <2> QED
    BY <1>1, <2>1, <2>2 DEF HeldForms
<1> QED
  BY <1>1, <1>4, <1>5, <1>7, RestKeeps

\* A step that leaves all reservations alone.
LEMMA AloneKeeps ==
  ASSUME IInv, UNCHANGED <<order, line, resv, onHand, reserved, supplied, drift>>, Forms',
         tracked' \subseteq Variants,
         \A c \in Carts : Held(c) # {} =>
           cart'[c] = cart[c] /\ (cart[c] = "CHECKOUT_STARTED" \/ frozen'[c] = frozen[c])
  PROVE  IInv' /\ NoOverselling
<1>1. HeldForms
  BY TypesApart DEF IInv
<1>2. HeldForms'
  BY <1>1 DEF HeldForms
<1> QED
  BY <1>2, RestKeeps

LEMMA ConfirmCheckoutKeeps ==
  ASSUME IInv, UNCHANGED order, NEW c \in Carts, ConfirmCheckout(c)
  PROVE  IInv' /\ NoOverselling
<1>1. Forms /\ tracked \subseteq Variants
  BY TypesApart DEF IInv
<1>2. /\ cart[c] = "CHECKOUT_STARTED"
      /\ checkout' = [checkout EXCEPT ![c] = "CONFIRMED"]
      /\ frozen' = [frozen EXCEPT ![c] = Lines(c) \cap tracked]
      /\ UNCHANGED <<cart, filled, line, resv, onHand, reserved, tracked, supplied, drift, idle,
                     sweep>>
  BY DEF ConfirmCheckout, stock
<1>3. Forms' /\ \A d \in Carts \ {c} : frozen'[d] = frozen[d]
  BY <1>1, <1>2 DEF Forms, CheckoutStatus, Lines
<1> QED
  BY <1>1, <1>2, <1>3, AloneKeeps

-----------------------------------------------------------------------------
(* The merchant and time.                                                  *)

LEMMA ToggleTrackingKeeps ==
  ASSUME IInv, UNCHANGED order, NEW v \in Variants, ToggleTracking(v)
  PROVE  IInv' /\ NoOverselling
<1>1. Forms /\ tracked \subseteq Variants
  BY TypesApart DEF IInv
<1>2. UNCHANGED <<cart, checkout, filled, frozen, line, resv, onHand, reserved, supplied, drift,
                  idle, sweep>>
      /\ tracked' \subseteq Variants
  BY <1>1 DEF ToggleTracking, session
<1>3. Forms'
  BY <1>1, <1>2 DEF Forms
<1> QED
  BY <1>2, <1>3, AloneKeeps

LEMMA AdjustInventoryKeeps ==
  ASSUME IInv, UNCHANGED order, NEW v \in Variants, NEW quantity \in 0 .. MaxSupply,
         AdjustInventory(v, quantity)
  PROVE  IInv' /\ NoOverselling
<1>1. /\ Forms /\ HeldForms /\ OrderForms /\ tracked \subseteq Variants
      /\ onHand \in [Variants -> Nat] /\ reserved \in [Variants -> Nat]
      /\ supplied \in [Variants -> Int] /\ drift \in [Variants -> Int]
  BY TypesApart DEF IInv
<1>2. /\ onHand' = [onHand EXCEPT ![v] = quantity]
      /\ supplied' = [supplied EXCEPT ![v] = @ + quantity - onHand[v]]
      /\ UNCHANGED <<cart, checkout, filled, frozen, line, resv, reserved, tracked, drift, idle,
                     sweep, order>>
  BY DEF AdjustInventory, session
<1>3. quantity \in Nat /\ onHand[v] \in Nat /\ supplied[v] \in Int
  BY <1>1, CartsAssumption
<1>4. supplied[v] + quantity - onHand[v] \in Int
  BY <1>3
<1>5. onHand' \in [Variants -> Nat] /\ supplied' \in [Variants -> Int]
  BY <1>1, <1>2, <1>3, <1>4
<1>6. TypeOK'
  <2>1. Forms' /\ HeldForms' /\ OrderForms'
    BY <1>1, <1>2 DEF Forms, HeldForms, OrderForms
  <2> QED
    BY <1>1, <1>2, <1>5, <2>1, TypesTogether
<1>7. OrderRows' /\ HeldPieces' /\ HeldStockBelongsToACheckout'
  BY <1>2 DEF IInv, OrderRows, HeldPieces, HeldStockBelongsToACheckout, Active
<1>8. ReservedIsHeld'
  <2>1. \A w \in Variants : HeldUnits(w)' = HeldUnits(w)
    BY <1>2 DEF HeldUnits, HeldBy, Active
  <2> QED
    BY <1>2, <2>1 DEF IInv, ReservedIsHeld
<1>9. Counted'
  <2> SUFFICES ASSUME NEW w \in Variants
               PROVE  onHand'[w] + Cardinality(SoldUnits(w))' = supplied'[w]
    BY DEF Counted
  <2> DEFINE sold == Cardinality(SoldUnits(w))
             later == Cardinality(SoldUnits(w))'
  <2>1. onHand[w] + sold = supplied[w]
    BY DEF IInv, Counted
  <2>2. later = sold
    BY <1>2 DEF SoldUnits
  <2>3. sold \in Nat
    <3>1. SoldUnits(w) = Units(SoldRow(w)) /\ SoldRow(w) \in Rows
      BY <1>1, SoldRows DEF IInv
    <3> QED
      BY <3>1, UnitsAreFinite
  <2> HIDE DEF sold, later
  <2>4. onHand'[w] + later = supplied'[w]
    <3>1. CASE w = v
      <4>1. onHand'[v] = quantity /\ supplied'[v] = supplied[v] + quantity - onHand[v]
        BY <1>1, <1>2
      <4> QED
        BY <1>3, <2>1, <2>2, <2>3, <3>1, <4>1
    <3>2. CASE w # v
      BY <1>1, <1>2, <2>1, <2>2, <3>2
    <3> QED
      BY <3>1, <3>2
  <2> QED
    BY <2>4 DEF later
<1>10. NoOverselling
  <2> SUFFICES ASSUME NEW w \in Variants \ Backorder, reserved[w] <= onHand[w],
                      reserved'[w] > onHand'[w]
               PROVE  supplied'[w] < supplied[w]
    BY DEF NoOverselling
  <2>1. w = v
    BY <1>1, <1>2
  <2>2. /\ onHand'[v] = quantity /\ supplied'[v] = supplied[v] + quantity - onHand[v]
        /\ reserved'[v] = reserved[v] /\ reserved[v] \in Nat
    BY <1>1, <1>2
  <2> QED
    BY <1>3, <2>1, <2>2
<1> QED
  BY <1>6, <1>7, <1>8, <1>9, <1>10 DEF IInv

LEMMA AgedKeeps ==
  ASSUME IInv, UNCHANGED order, NEW c \in Carts, NEW v \in Variants, NEW age \in Ages,
         Aged(c, v, age)
  PROVE  IInv' /\ NoOverselling
<1>1. Forms /\ HeldForms /\ tracked \subseteq Variants
  BY TypesApart DEF IInv
<1>2. /\ resv' = [resv EXCEPT ![c][v].age = age]
      /\ UNCHANGED <<cart, checkout, filled, frozen, line, onHand, reserved, tracked, supplied,
                     drift, idle, sweep>>
  BY DEF Aged, session, stock
<1>3. Forms'
  BY <1>1, <1>2 DEF Forms
<1>4. /\ HeldForms'
      /\ \A d \in Carts, w \in Variants :
           resv'[d][w].status = resv[d][w].status /\ resv'[d][w].quantity = resv[d][w].quantity
  <2> DEFINE row == [resv[c] EXCEPT ![v].age = age]
  <2>1. resv[c] \in [Variants -> Reservations] /\ resv' = [resv EXCEPT ![c] = row]
    BY <1>1, <1>2 DEF HeldForms
  <2>2. /\ row \in [Variants -> Reservations]
        /\ \A w \in Variants :
             row[w].status = resv[c][w].status /\ row[w].quantity = resv[c][w].quantity
    BY <2>1 DEF Reservations
  <2> HIDE DEF row
  <2> QED
    BY <1>1, <2>1, <2>2 DEF HeldForms
<1> QED
  BY <1>1, <1>2, <1>3, <1>4, RestKeeps

LEMMA PassingKeeps ==
  ASSUME IInv, UNCHANGED order, NEW c \in Carts, Passing(c)
  PROVE  IInv' /\ NoOverselling
<1>1. ASSUME NEW v \in Carried[c], Lapse(c, v) \/ Overrun(c, v)
      PROVE  IInv' /\ NoOverselling
  <2>1. v \in Variants
    BY CartsAssumption
  <2> QED
    BY <1>1, <2>1, AgedKeeps DEF Lapse, Overrun, Ages
<1>2. ASSUME GoIdle(c)
      PROVE  IInv' /\ NoOverselling
  <2>1. Forms /\ tracked \subseteq Variants
    BY TypesApart DEF IInv
  <2>2. /\ idle' = idle \cup {c}
        /\ UNCHANGED <<cart, checkout, filled, frozen, line, resv, onHand, reserved, tracked,
                       supplied, drift, sweep>>
    BY <1>2 DEF GoIdle, session, stock
  <2>3. Forms'
    BY <2>1, <2>2 DEF Forms
  <2> QED
    BY <2>1, <2>2, <2>3, AloneKeeps
<1> QED
  BY <1>1, <1>2 DEF Passing

-----------------------------------------------------------------------------
(* The sweep.                                                              *)

Sweeps == [phase : Phases, batch : SUBSET Expirations, carts : SUBSET Carts]

\* A step of the sweep that only moves it along.
LEMMA SweepMovesKeep ==
  ASSUME IInv, UNCHANGED <<order, cart, session, line, resv, stock, idle>>, sweep' \in Sweeps
  PROVE  IInv' /\ NoOverselling
<1>1. Forms /\ tracked \subseteq Variants
  BY TypesApart DEF IInv
<1>2. UNCHANGED <<checkout, filled, frozen, onHand, reserved, tracked, supplied, drift>>
  BY DEF session, stock
<1>3. Forms'
  BY <1>1, <1>2 DEF Forms, Sweeps
<1> QED
  BY <1>1, <1>2, <1>3, AloneKeeps

LEMMA ReadsAreExpirations ==
  ASSUME IInv, NEW H \in SUBSET Holdings
  PROVE  {Read(h) : h \in H} \in SUBSET Expirations
<1> SUFFICES ASSUME NEW h \in H
             PROVE  Read(h) \in Expirations
  OBVIOUS
<1>1. h[1] \in Carts /\ h[2] \in Variants
  BY DEF Holdings
<1>2. resv[h[1]][h[2]].quantity \in 0 .. MaxQuantity /\ resv[h[1]][h[2]].cycle \in 0 .. MaxCycles
  BY <1>1, Numbers DEF Reservations
<1> QED
  BY <1>1, <1>2 DEF Read, Expirations

LEMMA SweepReadsKeep ==
  ASSUME IInv, UNCHANGED order,
         SweepReadsReservations \/ SweepReadsCarts \/ SweepReadsOrphans \/ SweepEnds \/ SweepDies
  PROVE  IInv' /\ NoOverselling
<1>1. sweep \in Sweeps
  BY TypesApart DEF IInv, Forms, Sweeps
<1>2. ASSUME SweepReadsReservations
      PROVE  sweep' \in Sweeps
  <2> DEFINE H == {h \in Holdings : resv[h[1]][h[2]].age # "live"}
             read == {Read(h) : h \in H}
  <2>1. read \in SUBSET Expirations
    <3>1. H \in SUBSET Holdings
      OBVIOUS
    <3> HIDE DEF H
    <3> QED
      BY <3>1, ReadsAreExpirations
  <2>2. sweep' = [phase |-> "reservations", carts |-> {}, batch |-> read]
    BY <1>2 DEF SweepReadsReservations
  <2> HIDE DEF read
  <2> QED
    BY <2>1, <2>2 DEF Sweeps, Phases
<1>3. ASSUME SweepReadsOrphans
      PROVE  sweep' \in Sweeps
  <2> DEFINE H == {h \in Holdings : ~Open(h[1])}
             read == {Read(h) : h \in H}
  <2>1. read \in SUBSET Expirations
    <3>1. H \in SUBSET Holdings
      OBVIOUS
    <3> HIDE DEF H
    <3> QED
      BY <3>1, ReadsAreExpirations
  <2>2. sweep' = [phase |-> "orphans", carts |-> {}, batch |-> read]
    BY <1>3 DEF SweepReadsOrphans
  <2> HIDE DEF read
  <2> QED
    BY <2>1, <2>2 DEF Sweeps, Phases
<1>4. ASSUME SweepReadsCarts
      PROVE  sweep' \in Sweeps
  <2>1. sweep' = [sweep EXCEPT !.phase = "carts", !.carts = {c \in idle : Mutable(c)}]
    BY <1>4 DEF SweepReadsCarts
  <2>2. {c \in idle : Mutable(c)} \in SUBSET Carts
    BY TypesApart DEF IInv, Forms
  <2> QED
    BY <1>1, <2>1, <2>2 DEF Sweeps, Phases
<1>5. ASSUME SweepEnds \/ SweepDies
      PROVE  sweep' \in Sweeps
  BY <1>5 DEF SweepEnds, SweepDies, NoSweep, Sweeps, Phases
<1>6. sweep' \in Sweeps
  BY <1>2, <1>3, <1>4, <1>5
<1>7. UNCHANGED <<cart, session, line, resv, stock, idle>>
  BY DEF SweepReadsReservations, SweepReadsCarts, SweepReadsOrphans, SweepEnds, SweepDies
<1> QED
  BY <1>6, <1>7, SweepMovesKeep

LEMMA SweepReleasesKeeps ==
  ASSUME IInv, UNCHANGED order, NEW e \in sweep.batch, SweepReleases(e)
  PROVE  IInv' /\ NoOverselling
<1>1. Forms /\ sweep \in Sweeps
  BY TypesApart DEF IInv, Forms, Sweeps
<1>2. e \in Expirations /\ e.cart \in Carts
  BY <1>1 DEF Sweeps, Expirations
<1>3. UNCHANGED <<cart, session, line, idle>>
  BY DEF SweepReleases
<1>4. UNCHANGED <<checkout, filled, frozen>>
  BY <1>3 DEF session
<1>5. CASE /\ ReleaseRead(e)
           /\ sweep' = [sweep EXCEPT !.batch = @ \ {e},
                          !.carts = IF sweep.phase = "orphans" THEN @ ELSE @ \cup {e.cart}]
  <2>1. sweep' \in Sweeps
    <3>1. sweep.carts \in SUBSET Carts /\ sweep.batch \ {e} \in SUBSET Expirations
      BY <1>1 DEF Sweeps
    <3>2. (IF sweep.phase = "orphans" THEN sweep.carts ELSE sweep.carts \cup {e.cart})
            \in SUBSET Carts
      BY <1>2, <3>1
    <3> QED
      BY <1>1, <1>5, <3>1, <3>2 DEF Sweeps
  <2>2. Forms'
    BY <1>1, <1>3, <1>4, <2>1 DEF Forms, Sweeps
  <2>3. /\ Stocked(e.cart)
        /\ \A v \in Variants : Active(e.cart, v)' =>
             Active(e.cart, v) /\ resv'[e.cart][v] = resv[e.cart][v]
    BY <1>2, <1>5, SweptMoves
  <2> DEFINE c == e.cart
  <2> HIDE DEF c
  <2>4. /\ c \in Carts /\ Stocked(c)
        /\ \A v \in Variants : Active(c, v)' => Active(c, v) /\ resv'[c][v] = resv[c][v]
    BY <1>2, <2>3 DEF c
  <2>5. Belongs(c)'
    BY <1>3, <1>4, <2>4, HeldLines DEF Belongs
  <2> QED
    BY <1>3, <1>4, <2>2, <2>4, <2>5, CartStepKeeps
<1>6. CASE UNCHANGED <<resv, stock>> /\ sweep' = [sweep EXCEPT !.batch = @ \ {e}]
  <2>1. sweep' \in Sweeps
    BY <1>1, <1>6 DEF Sweeps
  <2> QED
    BY <1>3, <1>6, <2>1, SweepMovesKeep
<1> QED
  BY <1>5, <1>6 DEF SweepReleases, PassOver

LEMMA SweepRevertsKeeps ==
  ASSUME IInv, UNCHANGED order, NEW c \in sweep.carts, SweepReverts(c)
  PROVE  IInv' /\ NoOverselling
<1>1. Forms /\ sweep \in Sweeps /\ tracked \subseteq Variants
  BY TypesApart DEF IInv, Forms, Sweeps
<1>2. c \in Carts
  BY <1>1 DEF Sweeps
<1>3. /\ cart' = [cart EXCEPT ![c] =
                    IF Held(c) = {} /\ @ = "CHECKOUT_STARTED" /\ checkout[c] # "CONFIRMED"
                    THEN "ACTIVE" ELSE @]
      /\ sweep' = [sweep EXCEPT !.carts = @ \ {c}]
      /\ UNCHANGED <<checkout, filled, frozen, line, resv, onHand, reserved, tracked, supplied,
                     drift, idle>>
  BY DEF SweepReverts, session, stock
<1>4. sweep' \in Sweeps
  BY <1>1, <1>3 DEF Sweeps
<1>5. Forms' /\ \A d \in Carts : Held(d) # {} => cart'[d] = cart[d]
  BY <1>1, <1>2, <1>3, <1>4 DEF Forms, Sweeps, CartStatus
<1> QED
  BY <1>1, <1>3, <1>5, AloneKeeps

LEMMA SweepExpiresKeeps ==
  ASSUME IInv, UNCHANGED order, NEW c \in sweep.carts, SweepExpires(c)
  PROVE  IInv' /\ NoOverselling
<1>1. Forms /\ sweep \in Sweeps
  BY TypesApart DEF IInv, Forms, Sweeps
<1>2. c \in Carts /\ sweep' = [sweep EXCEPT !.carts = @ \ {c}]
  BY <1>1 DEF Sweeps, SweepExpires
<1>3. sweep' \in Sweeps
  BY <1>1, <1>2 DEF Sweeps
<1>4. CASE ExpireCart(c)
  <2>1. /\ ReleaseLines(c, Variants)
        /\ cart' = [cart EXCEPT ![c] = "EXPIRED"]
        /\ checkout' = [checkout EXCEPT ![c] =
                          IF @ \in {"NONE", "CONFIRMED", "CANCELLED"} THEN @ ELSE "EXPIRED"]
        /\ UNCHANGED <<filled, frozen, line, idle>>
    BY <1>4 DEF ExpireCart
  <2>2. Forms' /\ \A d \in Carts \ {c} : cart'[d] = cart[d]
    BY <1>1, <1>2, <1>3, <2>1 DEF Forms, Sweeps, CartStatus, CheckoutStatus
  <2> QED
    BY <1>2, <2>1, <2>2, ReleaseAllKeeps
<1>5. CASE CannotExpire(c)
  BY <1>3, <1>5, SweepMovesKeep DEF CannotExpire
<1> QED
  BY <1>4, <1>5 DEF SweepExpires

LEMMA CartNextKeeps ==
  ASSUME IInv, CartNext, UNCHANGED order
  PROVE  IInv' /\ NoOverselling
<1>1. ASSUME NEW c \in Carts, LineRequests(c)
      PROVE  IInv' /\ NoOverselling
  BY <1>1, AddItemKeeps, SetQuantityKeeps, RemoveItemKeeps, ClearKeeps, AcceptCurrentPriceKeeps
     DEF LineRequests
<1>2. ASSUME NEW c \in Carts, CreateCart(c) \/ CheckoutRequests(c) \/ Abandon(c)
      PROVE  IInv' /\ NoOverselling
  BY <1>2, CreateCartKeeps, StartCheckoutKeeps, UpdateCheckoutKeeps, ConfirmCheckoutKeeps,
     CancelCheckoutKeeps, AbandonKeeps DEF CheckoutRequests
<1>3. ASSUME NEW v \in Variants, InventoryRequests(v)
      PROVE  IInv' /\ NoOverselling
  BY <1>3, ToggleTrackingKeeps, AdjustInventoryKeeps DEF InventoryRequests
<1>4. ASSUME SweepSteps \/ SweepDies
      PROVE  IInv' /\ NoOverselling
  BY <1>4, SweepReadsKeep, SweepReleasesKeeps, SweepRevertsKeeps, SweepExpiresKeeps
     DEF SweepSteps
<1> QED
  BY <1>1, <1>2, <1>3, <1>4, PassingKeeps DEF CartNext, CartRequests

-----------------------------------------------------------------------------
(* The orders.                                                             *)

OrderRecords ==
  [status : {"NONE"} \cup OrderStatus, type : FulfillmentTypes,
   preference : PaymentPreferences, payment : {"UNPAID", "PENDING"},
   fulfillment : FulfillmentStatus,
   consumed : [Variants -> Nat], restored : [Variants -> Nat]]

\* What the order of cart c has taken and not given back.
Net(c, v) == order[c].consumed[v] - order[c].restored[v]

LEMMA OrdersOf ==
  ASSUME IInv, NEW c \in Carts
  PROVE  /\ order \in [Carts -> OrderRecords] /\ order[c] \in OrderRecords
         /\ \A v \in Variants :
              /\ order[c].consumed[v] \in 0 .. MaxQuantity
              /\ order[c].status = "NONE" => order[c].consumed[v] = 0
              /\ order[c].restored[v] =
                   IF order[c].status = "CANCELLED" THEN order[c].consumed[v] ELSE 0
<1>1. order \in [Carts -> OrderRecords]
  BY TypesApart DEF IInv, OrderForms, OrderRecords
<1>2. order[c] \in OrderRecords
  BY <1>1
<1>3. order[c].consumed \in [Variants -> Nat]
  BY <1>2 DEF OrderRecords
<1>4. \A v \in Variants : order[c].consumed[v] \in 0 .. MaxQuantity
  <2>1. \A v \in Variants : order[c].consumed[v] \in Nat /\ order[c].consumed[v] <= MaxQuantity
    BY <1>3 DEF IInv, OrderRows
  <2> QED
    BY <2>1, CartsAssumption
<1> QED
  BY <1>1, <1>2, <1>4 DEF IInv, OrderRows

\* The counters of stock move as one order does.
LEMMA CountedKeeps ==
  ASSUME IInv, NEW c \in Carts, OrderForms', OrderRows', onHand' \in [Variants -> Nat],
         UNCHANGED supplied, \A d \in Carts \ {c} : order'[d] = order[d],
         \A v \in Variants : onHand'[v] = onHand[v] + Net(c, v) - Net(c, v)'
  PROVE  Counted'
<1> SUFFICES ASSUME NEW v \in Variants
             PROVE  onHand'[v] + Cardinality(SoldUnits(v))' = supplied'[v]
  BY DEF Counted
<1> DEFINE sold == Cardinality(SoldUnits(v))
           later == Cardinality(SoldUnits(v))'
           one == Net(c, v)
           another == Net(c, v)'
           stood == onHand[v]
           stands == onHand'[v]
           all == supplied[v]
<1>1. OrderForms /\ OrderRows
  BY TypesApart DEF IInv
<1>2. sold \in Nat /\ later = sold - one + another
  BY <1>1, SoldMoves DEF Net
<1>3. stood + sold = all /\ stood \in Nat /\ stands \in Nat /\ all \in Int
  BY TypesApart DEF IInv, Counted
<1>4. one \in Int /\ another \in Int
  <2>1. order[c].consumed[v] \in Int /\ order[c].restored[v] \in Int
    BY <1>1 DEF OrderForms
  <2>2. order'[c].consumed[v] \in Int /\ order'[c].restored[v] \in Int
    BY DEF OrderForms
  <2> QED
    BY <2>1, <2>2 DEF Net
<1>5. stands = stood + one - another
  OBVIOUS
<1>6. supplied'[v] = all
  OBVIOUS
<1> HIDE DEF sold, later, one, another, stood, stands, all
<1>7. stands + later = all
  BY <1>2, <1>3, <1>4, <1>5
<1> QED
  BY <1>6, <1>7 DEF stands, later

LEMMA ConvertKeeps ==
  ASSUME IInv, NEW c \in Carts, Convert(c)
  PROVE  IInv' /\ NoOverselling
<1> DEFINE V == frozen[c]
           row == [v \in Variants |->
                     IF v \in V THEN [Ended(resv[c][v]) EXCEPT !.status = "CONSUMED"]
                     ELSE resv[c][v]]
<1>1. /\ Forms /\ HeldForms /\ tracked \subseteq Variants
      /\ onHand \in [Variants -> Nat] /\ reserved \in [Variants -> Nat]
      /\ supplied \in [Variants -> Int] /\ drift \in [Variants -> Int]
  BY TypesApart DEF IInv
<1>2. /\ order[c].status = "NONE" /\ ReservationsStand(c)
      /\ \A v \in V : reserved[v] >= line[c][v]
      /\ onHand' = [v \in Variants |-> onHand[v] - Consumed(c)[v]]
      /\ reserved' = [v \in Variants |->
                        IF v \in V THEN reserved[v] - line[c][v] ELSE reserved[v]]
      /\ resv' = [resv EXCEPT ![c] = row]
      /\ cart' = [cart EXCEPT ![c] = "CONVERTED"]
      /\ cart[c] = "CHECKOUT_STARTED"
      /\ UNCHANGED <<checkout, filled, frozen, line, tracked, supplied, drift, idle, sweep>>
  BY DEF Convert, session
<1>3. PICK type \in Types, preference \in Preferences, fulfillment \in InitialFulfillment(c) :
        order' = [order EXCEPT ![c] =
          [status |-> "CONFIRMED", type |-> type, preference |-> preference,
           payment |-> InitialPaymentStatus(preference), fulfillment |-> fulfillment,
           consumed |-> Consumed(c), restored |-> [v \in Variants |-> 0]]]
  BY Zenon DEF Convert
<1>4. V \subseteq Variants /\ \A v \in Variants : line[c][v] \in 0 .. MaxQuantity /\ onHand[v] \in Nat
  BY <1>1 DEF Forms
<1>5. /\ Consumed(c) \in [Variants -> Nat]
      /\ \A v \in Variants :
           /\ Consumed(c)[v] \in 0 .. MaxQuantity /\ Consumed(c)[v] <= onHand[v]
           /\ v \in V => Consumed(c)[v] = Least(line[c][v], onHand[v])
           /\ v \notin V => Consumed(c)[v] = 0
  BY <1>4, CartsAssumption DEF Consumed, Least
<1> DEFINE o == [status |-> "CONFIRMED", type |-> type, preference |-> preference,
                 payment |-> InitialPaymentStatus(preference), fulfillment |-> fulfillment,
                 consumed |-> Consumed(c), restored |-> [v \in Variants |-> 0]]
<1>6. /\ o \in OrderRecords /\ o.status = "CONFIRMED" /\ o.consumed = Consumed(c)
      /\ \A v \in Variants : o.restored[v] = 0
  <2>1. InitialPaymentStatus(preference) \in {"UNPAID", "PENDING"}
    BY DEF InitialPaymentStatus
  <2>2. fulfillment \in FulfillmentStatus
    BY DEF InitialFulfillment, FulfillmentStatus
  <2>3. type \in FulfillmentTypes /\ preference \in PaymentPreferences
    BY OrdersAssumption
  <2>4. "CONFIRMED" \in {"NONE"} \cup OrderStatus /\ [v \in Variants |-> 0] \in [Variants -> Nat]
    BY DEF OrderStatus
  <2> HIDE DEF V, row
  <2> QED
    BY <1>5, <2>1, <2>2, <2>3, <2>4 DEF OrderRecords
<1>7. order' = [order EXCEPT ![c] = o]
  BY <1>3
<1> HIDE DEF o
<1>8. /\ order' \in [Carts -> OrderRecords] /\ order'[c] = o
      /\ \A d \in Carts \ {c} : order'[d] = order[d]
  BY <1>6, <1>7, OrdersOf
<1>9. OrderForms' /\ OrderRows'
  <2>1. OrderForms'
    BY <1>8 DEF OrderForms, OrderRecords
  <2>2. OrderRows'
    <3> SUFFICES ASSUME NEW d \in Carts, NEW v \in Variants
                 PROVE  /\ order'[d].consumed[v] <= MaxQuantity
                        /\ order'[d].status = "NONE" => order'[d].consumed[v] = 0
                        /\ order'[d].restored[v] =
                             IF order'[d].status = "CANCELLED" THEN order'[d].consumed[v] ELSE 0
      BY DEF OrderRows
    <3>1. CASE d = c
      BY <1>5, <1>6, <1>8, <3>1, CartsAssumption
    <3>2. CASE d # c
      BY <1>8, <3>2 DEF IInv, OrderRows
    <3> QED
      BY <3>1, <3>2
  <2> QED
    BY <2>1, <2>2
<1>10. onHand' \in [Variants -> Nat]
  BY <1>2, <1>4, <1>5
<1>11. Counted'
  <2>1. \A v \in Variants : Net(c, v) = 0 /\ Net(c, v)' = Consumed(c)[v]
    BY <1>2, <1>5, <1>6, <1>8, OrdersOf, CartsAssumption DEF Net
  <2>2. \A v \in Variants : onHand'[v] = onHand[v] + Net(c, v) - Net(c, v)'
    BY <1>2, <1>4, <1>5, <2>1
  <2> QED
    BY <1>2, <1>8, <1>9, <1>10, <2>2, CountedKeeps
<1>12. \A v \in V : /\ v \in Variants /\ Active(c, v) /\ resv[c][v].quantity = line[c][v]
                    /\ reserved[v] >= line[c][v]
  BY <1>2, <1>4 DEF ReservationsStand
<1>13. \A v \in V :
         /\ [Ended(resv[c][v]) EXCEPT !.status = "CONSUMED"] \in Reservations
         /\ [Ended(resv[c][v]) EXCEPT !.status = "CONSUMED"].status = "CONSUMED"
  <2> SUFFICES ASSUME NEW v \in V
               PROVE  /\ [Ended(resv[c][v]) EXCEPT !.status = "CONSUMED"] \in Reservations
                      /\ [Ended(resv[c][v]) EXCEPT !.status = "CONSUMED"].status = "CONSUMED"
    OBVIOUS
  <2>1. Ended(resv[c][v]) \in Reservations
    BY <1>4, EndedForm, Numbers
  <2> QED
    BY <2>1 DEF Reservations
<1>14. row \in [Variants -> Reservations]
  BY <1>4, <1>13, Numbers
<1>15. /\ \A v \in V : row[v].status = "CONSUMED"
       /\ \A v \in Variants \ V : row[v] = resv[c][v]
  BY <1>4, <1>13
<1> HIDE DEF row
<1>16. HeldForms' /\ resv'[c] = row /\ \A d \in Carts \ {c} : resv'[d] = resv[d]
  BY <1>1, <1>2, <1>14 DEF HeldForms
<1>17. \A v \in Variants :
         /\ v \in V => ~Active(c, v)' /\ HeldBy(c, v)' = 0 /\ HeldBy(c, v) = line[c][v]
         /\ v \notin V => HeldBy(c, v)' = HeldBy(c, v) /\ HeldBy(c, v) \in Int
  BY <1>12, <1>15, <1>16, Numbers DEF HeldBy, Active
<1>18. \A v \in Variants :
         /\ reserved'[v] \in Nat
         /\ reserved'[v] - reserved[v] = HeldBy(c, v)' - HeldBy(c, v) + drift'[v] - drift[v]
  <2> SUFFICES ASSUME NEW v \in Variants
               PROVE  /\ reserved'[v] \in Nat
                      /\ reserved'[v] - reserved[v] =
                           HeldBy(c, v)' - HeldBy(c, v) + drift'[v] - drift[v]
    OBVIOUS
  <2>1. /\ reserved[v] \in Nat /\ drift[v] \in Int /\ drift'[v] = drift[v]
        /\ line[c][v] \in Nat
    BY <1>2, Numbers
  <2>2. CASE v \in V
    BY <1>2, <1>12, <1>17, <2>1, <2>2
  <2>3. CASE v \notin V
    BY <1>2, <1>17, <2>1, <2>3
  <2> QED
    BY <2>2, <2>3
<1>19. reserved' \in [Variants -> Nat] /\ drift' \in [Variants -> Int]
  BY <1>1, <1>2, <1>18
<1>20. ReservedIsHeld'
  BY <1>16, <1>18, <1>19, ReservedStaysHeld
<1>21. cart'[c] = "CONVERTED" /\ \A d \in Carts \ {c} : cart'[d] = cart[d]
  BY <1>1, <1>2 DEF Forms
<1>22. HeldStockBelongsToACheckout' /\ HeldPieces'
  <2>1. Belongs(c)'
    <3> SUFFICES ASSUME NEW v \in Variants, Active(c, v)'
                 PROVE  /\ resv'[c][v].quantity = line'[c][v] /\ resv'[c][v].quantity > 0
                        /\ v \notin frozen'[c]
      BY <1>21 DEF Belongs
    <3>1. v \notin V
      BY <1>17
    <3>2. resv'[c][v] = resv[c][v] /\ Active(c, v)
      BY <1>15, <1>16, <3>1 DEF Active
    <3> QED
      BY <1>2, <3>1, <3>2, HeldLines
  <2> QED
    BY <1>2, <1>16, <1>21, <2>1, OthersBelong
<1>23. TypeOK'
  <2>1. Forms'
    BY <1>1, <1>2 DEF Forms, CartStatus
  <2> QED
    BY <1>1, <1>2, <1>9, <1>10, <1>16, <1>19, <2>1, TypesTogether
<1>24. NoOverselling
  <2> SUFFICES ASSUME NEW v \in Variants, reserved[v] <= onHand[v]
               PROVE  reserved'[v] <= onHand'[v]
    <3>1. \A v \in Variants : reserved'[v] \in Nat /\ onHand'[v] \in Nat
      BY <1>10, <1>18
    <3> QED
      BY <3>1 DEF NoOverselling
  <2>1. reserved[v] \in Nat /\ onHand[v] \in Nat /\ line[c][v] \in Nat
    BY Numbers
  <2>2. onHand'[v] = onHand[v] - Consumed(c)[v]
    BY <1>2
  <2>3. CASE v \in V
    <3>1. reserved[v] >= line[c][v] /\ reserved'[v] = reserved[v] - line[c][v]
      BY <1>2, <2>3
    <3>2. Consumed(c)[v] = line[c][v]
      BY <1>5, <2>1, <2>3, <3>1 DEF Least
    <3> QED
      BY <2>1, <2>2, <3>1, <3>2
  <2>4. CASE v \notin V
    BY <1>2, <1>5, <2>1, <2>2, <2>4
  <2> QED
    BY <2>3, <2>4
<1> QED
  BY <1>9, <1>11, <1>20, <1>22, <1>23, <1>24 DEF IInv

\* A request of an order that is there, which leaves the reservations alone.
LEMMA OrderStepKeeps ==
  ASSUME IInv, NEW c \in Carts, NEW o \in OrderRecords, order[c].status # "NONE",
         order' = [order EXCEPT ![c] = o], o.status # "NONE", o.consumed = order[c].consumed,
         o.restored = IF o.status = "CANCELLED" THEN o.consumed ELSE order[c].restored,
         order[c].status # "CANCELLED",
         \A v \in Variants : onHand'[v] = onHand[v] + o.restored[v],
         onHand' = [v \in Variants |-> onHand'[v]],
         UNCHANGED <<cart, session, line, resv, reserved, tracked, supplied, drift, idle, sweep>>
  PROVE  IInv' /\ NoOverselling
<1>1. /\ Forms /\ HeldForms /\ tracked \subseteq Variants
      /\ onHand \in [Variants -> Nat] /\ reserved \in [Variants -> Nat]
      /\ supplied \in [Variants -> Int] /\ drift \in [Variants -> Int]
  BY TypesApart DEF IInv
<1>2. UNCHANGED <<checkout, filled, frozen>>
  BY DEF session
<1>3. /\ order' \in [Carts -> OrderRecords] /\ order'[c] = o
      /\ \A d \in Carts \ {c} : order'[d] = order[d]
  BY OrdersOf
<1>4. \A v \in Variants : order[c].consumed[v] \in 0 .. MaxQuantity /\ order[c].restored[v] = 0
  BY OrdersOf
<1>5. \A v \in Variants :
        /\ o.consumed[v] = order[c].consumed[v]
        /\ o.restored[v] = IF o.status = "CANCELLED" THEN o.consumed[v] ELSE 0
  BY <1>4
<1>6. OrderForms' /\ OrderRows'
  <2>1. OrderForms'
    BY <1>3 DEF OrderForms, OrderRecords
  <2>2. OrderRows'
    <3> SUFFICES ASSUME NEW d \in Carts, NEW v \in Variants
                 PROVE  /\ order'[d].consumed[v] <= MaxQuantity
                        /\ order'[d].status = "NONE" => order'[d].consumed[v] = 0
                        /\ order'[d].restored[v] =
                             IF order'[d].status = "CANCELLED" THEN order'[d].consumed[v] ELSE 0
      BY DEF OrderRows
    <3>1. CASE d = c
      BY <1>3, <1>4, <1>5, <3>1, CartsAssumption
    <3>2. CASE d # c
      BY <1>3, <3>2 DEF IInv, OrderRows
    <3> QED
      BY <3>1, <3>2
  <2> QED
    BY <2>1, <2>2
<1>7. \A v \in Variants : onHand[v] \in Nat /\ o.restored[v] \in Nat
  BY <1>1, <1>4, <1>5, CartsAssumption
<1>8. onHand' \in [Variants -> Nat] /\ \A v \in Variants : onHand'[v] >= onHand[v]
  BY <1>7
<1>9. Counted'
  <2>1. \A v \in Variants : Net(c, v) = order[c].consumed[v]
                            /\ Net(c, v)' = order[c].consumed[v] - o.restored[v]
    BY <1>3, <1>4, <1>5, CartsAssumption DEF Net
  <2>2. \A v \in Variants : onHand'[v] = onHand[v] + Net(c, v) - Net(c, v)'
    <3> SUFFICES ASSUME NEW v \in Variants
                 PROVE  onHand'[v] = onHand[v] + Net(c, v) - Net(c, v)'
      OBVIOUS
    <3>1. /\ onHand[v] \in Int /\ o.restored[v] \in Int /\ order[c].consumed[v] \in Int
          /\ onHand'[v] = onHand[v] + o.restored[v]
      BY <1>4, <1>7
    <3> QED
      BY <2>1, <3>1
  <2> QED
    BY <1>3, <1>6, <1>8, <2>2, CountedKeeps
<1>10. TypeOK'
  <2>1. Forms' /\ HeldForms'
    BY <1>1, <1>2 DEF Forms, HeldForms
  <2> QED
    BY <1>1, <1>6, <1>8, <2>1, TypesTogether
<1>11. HeldPieces' /\ HeldStockBelongsToACheckout'
  BY <1>2 DEF IInv, HeldPieces, HeldStockBelongsToACheckout, Active
<1>12. ReservedIsHeld'
  <2>1. \A v \in Variants : HeldUnits(v)' = HeldUnits(v)
    BY DEF HeldUnits, HeldBy, Active
  <2> QED
    BY <2>1 DEF IInv, ReservedIsHeld
<1>13. NoOverselling
  BY <1>1, <1>7, <1>8 DEF NoOverselling
<1> QED
  BY <1>6, <1>9, <1>10, <1>11, <1>12, <1>13 DEF IInv

LEMMA FulfillmentForm ==
  ASSUME NEW status \in OrderStatus, NEW type, NEW current \in FulfillmentStatus
  PROVE  DerivedFulfillment(status, type, current) \in FulfillmentStatus
BY DEF DerivedFulfillment, OrderStatus, FulfillmentStatus

LEMMA ChangeStatusKeeps ==
  ASSUME IInv, NEW c \in Carts, NEW status \in OrderStatus, ChangeStatus(c, status)
  PROVE  /\ IInv' /\ NoOverselling
         /\ order[c].status \notin {"NONE", "CANCELLED"}
         /\ order'[c].status \notin {"NONE", "CANCELLED"} /\ order'[c].consumed = order[c].consumed
         /\ \A d \in Carts \ {c} : order'[d] = order[d]
<1> DEFINE old == order[c]
           o == [old EXCEPT !.status = status,
                            !.fulfillment = DerivedFulfillment(status, old.type, old.fulfillment)]
<1>1. /\ old.status # "NONE" /\ status # "CANCELLED" /\ old.status # "CANCELLED"
      /\ UNCHANGED cartVars
  BY DEF ChangeStatus, IsOrderTransitionAllowed
<1>2. order \in [Carts -> OrderRecords] /\ old \in OrderRecords
  BY OrdersOf
<1>3. order' = [order EXCEPT ![c] = o]
  BY <1>2 DEF ChangeStatus
<1>4. DerivedFulfillment(status, old.type, old.fulfillment) \in FulfillmentStatus
  BY <1>2, FulfillmentForm DEF OrderRecords
<1>5. /\ o \in OrderRecords /\ o.status = status /\ o.consumed = old.consumed
      /\ o.restored = old.restored /\ status # "NONE"
  <2> HIDE DEF old
  <2>1. o \in OrderRecords
    BY <1>2, <1>4 DEF OrderRecords
  <2>2. status # "NONE"
    BY DEF OrderStatus
  <2> QED
    BY <1>2, <2>1, <2>2 DEF OrderRecords
<1>6. /\ \A v \in Variants : old.restored[v] = 0
      /\ onHand' = onHand /\ onHand \in [Variants -> Nat]
  BY <1>1, OrdersOf, TypesApart DEF IInv, cartVars, stock
<1> HIDE DEF o
<1>7. /\ \A v \in Variants : onHand'[v] = onHand[v] + o.restored[v]
      /\ onHand' = [v \in Variants |-> onHand'[v]]
  BY <1>5, <1>6
<1>8. UNCHANGED <<cart, session, line, resv, reserved, tracked, supplied, drift, idle, sweep>>
  BY <1>1 DEF cartVars, stock
<1>9. IInv' /\ NoOverselling
  BY <1>1, <1>3, <1>5, <1>7, <1>8, OrderStepKeeps
<1> QED
  BY <1>1, <1>2, <1>3, <1>5, <1>9

LEMMA CancelOrderKeeps ==
  ASSUME IInv, NEW c \in Carts, CancelOrder(c)
  PROVE  /\ IInv' /\ NoOverselling
         /\ order[c].status \notin {"NONE", "CANCELLED"}
         /\ order'[c].status = "CANCELLED" /\ order'[c].consumed = order[c].consumed
         /\ \A d \in Carts \ {c} : order'[d] = order[d]
         /\ onHand' = [v \in Variants |-> onHand[v] + order[c].consumed[v]]
<1> DEFINE old == order[c]
           o == [old EXCEPT !.status = "CANCELLED",
                            !.fulfillment =
                                DerivedFulfillment("CANCELLED", old.type, old.fulfillment),
                            !.restored = old.consumed]
<1>1. /\ old.status # "NONE" /\ old.status # "CANCELLED"
      /\ onHand' = [v \in Variants |-> onHand[v] + ToRestore(c)[v]]
      /\ UNCHANGED <<cart, session, line, resv, reserved, tracked, supplied, drift, idle, sweep>>
  BY DEF CancelOrder, Cancellable
<1>2. order \in [Carts -> OrderRecords] /\ old \in OrderRecords
  BY OrdersOf
<1>3. order' = [order EXCEPT ![c] = o]
  BY <1>2 DEF CancelOrder
<1>4. DerivedFulfillment("CANCELLED", old.type, old.fulfillment) \in FulfillmentStatus
      /\ "CANCELLED" \in OrderStatus
  BY <1>2, FulfillmentForm DEF OrderRecords, OrderStatus
<1>5. /\ o \in OrderRecords /\ o.status = "CANCELLED" /\ o.consumed = old.consumed
      /\ o.restored = old.consumed
  <2> HIDE DEF old
  <2> QED
    BY <1>2, <1>4 DEF OrderRecords
<1>6. /\ \A v \in Variants : old.restored[v] = 0 /\ old.consumed[v] \in Nat /\ onHand[v] \in Nat
      /\ onHand \in [Variants -> Nat]
  BY <1>1, <1>2, OrdersOf, TypesApart, CartsAssumption DEF IInv
<1> HIDE DEF o
<1>7. \A v \in Variants : ToRestore(c)[v] = old.consumed[v]
  BY <1>6 DEF ToRestore
<1>8. /\ onHand' = [v \in Variants |-> onHand[v] + old.consumed[v]]
      /\ \A v \in Variants : onHand'[v] = onHand[v] + o.restored[v]
      /\ onHand' = [v \in Variants |-> onHand'[v]]
  BY <1>1, <1>5, <1>7
<1>9. IInv' /\ NoOverselling
  BY <1>1, <1>3, <1>5, <1>8, OrderStepKeeps
<1> QED
  BY <1>1, <1>2, <1>3, <1>5, <1>8, <1>9

-----------------------------------------------------------------------------
(* The theorems.                                                           *)

LEMMA InitIsSound == Init => IInv
<1> SUFFICES ASSUME Init
             PROVE  IInv
  OBVIOUS
<1>1. /\ cart = [c \in Carts |-> "NONE"] /\ checkout = [c \in Carts |-> "NONE"]
      /\ filled = {} /\ idle = {} /\ tracked = Variants
      /\ line = [c \in Carts |-> [v \in Variants |-> 0]]
      /\ frozen = [c \in Carts |-> {}] /\ sweep = NoSweep
      /\ resv = [c \in Carts |-> [v \in Variants |-> NoReservation]]
      /\ onHand \in [Variants -> 0 .. MaxSupply] /\ supplied = onHand
      /\ reserved = [v \in Variants |-> 0] /\ drift = [v \in Variants |-> 0]
      /\ order = [c \in Carts |-> NoOrder]
  BY DEF Init, CartInit
<1>2. 0 \in 0 .. MaxQuantity /\ 0 \in 0 .. MaxCycles /\ MaxQuantity \in Nat /\ MaxSupply \in Nat
  BY CartsAssumption
<1>3. NoReservation \in Reservations
  BY <1>2 DEF NoReservation, Reservations, Ages
<1>4. NoOrder \in OrderRecords
  BY DEF NoOrder, OrderRecords, FulfillmentTypes, PaymentPreferences, FulfillmentStatus
<1>5. onHand \in [Variants -> Nat]
  BY <1>1, <1>2
<1>6. OrderForms /\ HeldForms
  <2>1. OrderForms
    BY <1>1, <1>4 DEF OrderForms, OrderRecords
  <2>2. HeldForms
    BY <1>1, <1>3 DEF HeldForms
  <2> QED
    BY <2>1, <2>2
<1>7. Forms
  BY <1>1, <1>2 DEF Forms, NoSweep, Phases
<1>8. TypeOK
  <2>1. supplied \in [Variants -> Int] /\ drift \in [Variants -> Int]
        /\ reserved \in [Variants -> Nat] /\ tracked \subseteq Variants
    BY <1>1, <1>5
  <2> QED
    BY Zenon, <1>5, <1>6, <1>7, <2>1 DEF TypeOK, Forms, HeldForms, OrderForms
<1>9. \A c \in Carts, v \in Variants : ~Active(c, v) /\ HeldBy(c, v) = 0
  BY <1>1 DEF Active, HeldBy, NoReservation
<1>10. OrderRows /\ \A c \in Carts, v \in Variants :
                      order[c].consumed[v] = 0 /\ order[c].restored[v] = 0
  <2>1. \A c \in Carts, v \in Variants :
          order[c].status = "NONE" /\ order[c].consumed[v] = 0 /\ order[c].restored[v] = 0
    BY <1>1 DEF NoOrder
  <2> QED
    BY <1>2, <2>1 DEF OrderRows
<1>11. \A v \in Variants : HeldUnits(v) = {} /\ SoldUnits(v) = {}
  BY <1>2, <1>9, <1>10 DEF HeldUnits, SoldUnits
<1>12. \A v \in Variants : Cardinality(HeldUnits(v)) = 0 /\ Cardinality(SoldUnits(v)) = 0
  <2>1. Cardinality({}) = 0
    BY FS_EmptySet
  <2> QED
    BY <1>11, <2>1
<1>13. ReservedIsHeld /\ Counted
  <2>1. \A v \in Variants : reserved[v] = 0 /\ drift[v] = 0 /\ supplied[v] = onHand[v]
                           /\ onHand[v] \in Nat
    BY <1>1, <1>5
  <2> QED
    BY <1>12, <2>1 DEF ReservedIsHeld, Counted
<1> QED
  BY <1>8, <1>9, <1>10, <1>13 DEF IInv, HeldPieces, HeldStockBelongsToACheckout

LEMMA NextIsSound == IInv /\ Next => IInv' /\ NoOverselling
BY CartNextKeeps, ConvertKeeps, CancelOrderKeeps, ChangeStatusKeeps DEF Next, OrderRequests

LEMMA StutterIsSound == IInv /\ UNCHANGED vars => IInv'
<1> SUFFICES ASSUME IInv, UNCHANGED vars
             PROVE  IInv'
  OBVIOUS
<1> QED
  BY DEF vars, cartVars, session, stock, IInv, TypeOK, OrderRows, HeldPieces,
     HeldStockBelongsToACheckout, ReservedIsHeld, Counted, HeldUnits, SoldUnits, HeldBy, Active

\* The inductive invariant: reservations belong to checkouts, the counters of each variant
\* count the pieces that carts hold and orders keep, and an order gives back all or nothing.
THEOREM OrdersInvariant == Spec => []IInv
<1>1. IInv /\ [Next]_vars => IInv'
  BY NextIsSound, StutterIsSound
<1> QED
  BY <1>1, InitIsSound, PTL DEF Spec

\* However requests, orders and the sweep interleave, quantityReserved is what ACTIVE
\* reservations hold, but for the drift of the sweep (ReservationService).
THEOREM ReservedIsHeldHolds == Spec => []ReservedIsHeld
<1>1. IInv => ReservedIsHeld
  BY DEF IInv
<1> QED
  BY <1>1, OrdersInvariant, PTL

\* What is on hand is what was counted in by hand, less what orders keep
\* (OrderStockService, InventoryService).
THEOREM StockIsAccountedHolds == Spec => []StockIsAccounted
<1>1. IInv => StockIsAccounted
  BY DEF IInv, StockIsAccounted, Counted
<1> QED
  BY <1>1, OrdersInvariant, PTL

\* Stock is held by checkouts, each exactly the quantity of its line (ReservationService,
\* CartExpirationService).
THEOREM HeldStockBelongsToACheckoutHolds == Spec => []HeldStockBelongsToACheckout
<1>1. IInv => HeldStockBelongsToACheckout
  BY DEF IInv
<1> QED
  BY <1>1, OrdersInvariant, PTL

\* No request, order or sweep reserves what is not there: only counting out oversells
\* (the conditional UPDATE of atomicReserve).
THEOREM OnlyCountingOversellsHolds == Spec => OnlyCountingOversells
<1>1. IInv /\ [Next]_vars =>
        [\A v \in Variants \ Backorder :
           reserved[v] <= onHand[v] /\ reserved'[v] > onHand'[v] => supplied'[v] < supplied[v]]_vars
  BY NextIsSound DEF NoOverselling
<1> QED
  BY <1>1, OrdersInvariant, PTL DEF Spec, OnlyCountingOversells

-----------------------------------------------------------------------------
(* Orders implements IdealStock.                                           *)

Sales == [c \in Carts |-> Sale(order[c])]
Takings == [c \in Carts |-> order[c].consumed]

\* A step of the ideal stock, or one that it does not see.
IdealStep == Ideal!Next \/ UNCHANGED <<onHand, Sales, Takings>>

LEMMA CartNextIsIdeal ==
  ASSUME IInv, CartNext, UNCHANGED order
  PROVE  IdealStep
<1>1. UNCHANGED <<Sales, Takings>>
  BY DEF Sales, Takings, Sale
<1>2. ASSUME NEW v \in Variants, NEW quantity \in 0 .. MaxSupply, AdjustInventory(v, quantity)
      PROVE  Ideal!Next
  <2>1. onHand' = [onHand EXCEPT ![v] = quantity]
    BY <1>2 DEF AdjustInventory
  <2>2. onHand'[v] = quantity /\ quantity \in Nat
    BY <2>1, TypesApart, CartsAssumption DEF IInv
  <2>3. Ideal!Count(v)
    BY <1>1, <2>1, <2>2 DEF Ideal!Count, Sales, Takings
  <2> QED
    BY <2>3 DEF Ideal!Next
<1>3. ASSUME NEW c \in Carts, CartRequests(c) \/ Passing(c)
      PROVE  UNCHANGED onHand
  BY <1>3 DEF CartRequests, Passing, CreateCart, LineRequests, AddItem, SetQuantity, RemoveItem,
     Clear, AcceptCurrentPrice, CheckoutRequests, StartCheckout, UpdateCheckout, ConfirmCheckout,
     CancelCheckout, Abandon, GoIdle, Lapse, Overrun, Aged, ReleaseLines, AdjustReservation, stock
<1>4. ASSUME NEW v \in Variants, ToggleTracking(v)
      PROVE  UNCHANGED onHand
  BY <1>4 DEF ToggleTracking
<1>5. ASSUME SweepSteps \/ SweepDies
      PROVE  UNCHANGED onHand
  BY <1>5 DEF SweepSteps, SweepDies, SweepReadsReservations, SweepReadsCarts, SweepReadsOrphans,
     SweepEnds, SweepReleases, ReleaseRead, PassOver, SweepReverts, SweepExpires, ExpireCart,
     CannotExpire, ReleaseLines, stock
<1> QED
  BY <1>1, <1>2, <1>3, <1>4, <1>5 DEF CartNext, InventoryRequests, IdealStep

LEMMA ConvertIsIdeal ==
  ASSUME IInv, NEW c \in Carts, Convert(c)
  PROVE  IdealStep
<1>1. PICK type \in Types, preference \in Preferences, fulfillment \in InitialFulfillment(c) :
        order' = [order EXCEPT ![c] =
          [status |-> "CONFIRMED", type |-> type, preference |-> preference,
           payment |-> InitialPaymentStatus(preference), fulfillment |-> fulfillment,
           consumed |-> Consumed(c), restored |-> [v \in Variants |-> 0]]]
  BY Zenon DEF Convert
<1>2. order[c].status = "NONE" /\ onHand' = [v \in Variants |-> onHand[v] - Consumed(c)[v]]
  BY DEF Convert
<1>3. DOMAIN order = Carts /\ onHand \in [Variants -> Nat]
      /\ \A v \in Variants : line[c][v] \in Nat
  BY OrdersOf, TypesApart, Numbers, CartsAssumption DEF IInv
<1>4. /\ order'[c].status = "CONFIRMED" /\ order'[c].consumed = Consumed(c)
      /\ \A d \in Carts \ {c} : order'[d] = order[d]
  BY <1>1, <1>3
<1>5. \A v \in Variants : Consumed(c)[v] \in 0 .. onHand[v]
  BY <1>3 DEF Consumed, Least
<1>6. /\ Sales[c] = "none" /\ Sales' = [Sales EXCEPT ![c] = "sold"]
      /\ Takings'[c] = Consumed(c) /\ \A d \in Carts \ {c} : Takings'[d] = Takings[d]
  BY <1>2, <1>4 DEF Sales, Takings, Sale
<1>7. Ideal!Sell(c)
  BY <1>2, <1>5, <1>6 DEF Ideal!Sell, Sales, Takings
<1> QED
  BY <1>7 DEF IdealStep, Ideal!Next

LEMMA OrderRequestsAreIdeal ==
  ASSUME IInv, NEW c \in Carts, OrderRequests(c)
  PROVE  IdealStep
<1>1. CASE Convert(c)
  BY <1>1, ConvertIsIdeal
<1>2. CASE CancelOrder(c)
  <2>1. /\ order[c].status \notin {"NONE", "CANCELLED"}
        /\ order'[c].status = "CANCELLED" /\ order'[c].consumed = order[c].consumed
        /\ \A d \in Carts \ {c} : order'[d] = order[d]
        /\ onHand' = [v \in Variants |-> onHand[v] + order[c].consumed[v]]
    BY <1>2, CancelOrderKeeps
  <2>2. /\ Sales[c] = "sold" /\ Sales' = [Sales EXCEPT ![c] = "returned"]
        /\ Takings' = Takings /\ Takings[c] = order[c].consumed
    BY <2>1 DEF Sales, Takings, Sale
  <2>3. Ideal!Return(c)
    BY <2>1, <2>2 DEF Ideal!Return, Sales, Takings
  <2> QED
    BY <2>3 DEF IdealStep, Ideal!Next
<1>3. ASSUME NEW status \in OrderStatus, ChangeStatus(c, status)
      PROVE  IdealStep
  <2>1. /\ order[c].status \notin {"NONE", "CANCELLED"}
        /\ order'[c].status \notin {"NONE", "CANCELLED"}
        /\ order'[c].consumed = order[c].consumed
        /\ \A d \in Carts \ {c} : order'[d] = order[d]
    BY <1>3, ChangeStatusKeeps
  <2>2. Sales' = Sales /\ Takings' = Takings
    BY <2>1 DEF Sales, Takings, Sale
  <2>3. UNCHANGED onHand
    BY <1>3 DEF ChangeStatus, cartVars, stock
  <2> QED
    BY <2>2, <2>3 DEF IdealStep
<1> QED
  BY <1>1, <1>2, <1>3 DEF OrderRequests

\* To the merchant, carts, reservations and the sweep are not there: stock is counted, sold
\* once by each order, and returned at most once and in full.
THEOREM OrdersKeepThePromise == Spec => ImplementsIdealStock
<1>1. Init => Ideal!Init
  <2> SUFFICES ASSUME Init
               PROVE  Ideal!Init
    OBVIOUS
  <2>1. onHand \in [Variants -> Nat]
    BY InitIsSound, TypesApart DEF IInv
  <2>2. order = [c \in Carts |-> NoOrder]
    BY DEF Init
  <2>3. /\ [c \in Carts |-> Sale(order[c])] = [c \in Carts |-> "none"]
        /\ [c \in Carts |-> order[c].consumed] = [c \in Carts |-> [v \in Variants |-> 0]]
    BY <2>2 DEF Sale, NoOrder
  <2> QED
    BY <2>1, <2>3 DEF Ideal!Init
<1>2. IInv /\ [Next]_vars => [Ideal!Next]_<<onHand, Sales, Takings>>
  <2> SUFFICES ASSUME IInv, [Next]_vars
               PROVE  IdealStep
    BY DEF IdealStep
  <2>1. CASE Next
    BY <2>1, CartNextIsIdeal, OrderRequestsAreIdeal DEF Next
  <2>2. CASE UNCHANGED vars
    BY <2>2 DEF IdealStep, Sales, Takings, Sale, vars, cartVars, stock
  <2> QED
    BY <2>1, <2>2
<1>3. IInv /\ [Next]_vars =>
        [Ideal!Next]_<<onHand, [c \in Carts |-> Sale(order[c])],
                       [c \in Carts |-> order[c].consumed]>>
  BY <1>2 DEF Sales, Takings
<1> QED
  BY <1>1, <1>3, OrdersInvariant, PTL DEF Spec, ImplementsIdealStock, Ideal!Spec
===============================================================================
