---------------------------- MODULE CatalogueProofs ----------------------------
(***************************************************************************)
(* Proofs about Catalogue, for any requests in flight, categories, names   *)
(* of values and numbers of values and variants.  That a product can be    *)
(* sold needs what a request in flight knows of its variant; that used     *)
(* values stay needs what a deletion knows of the variants it counted.     *)
(***************************************************************************)
EXTENDS Catalogue, TLAPS, SequenceTheorems

-----------------------------------------------------------------------------
(* The inductive invariant.                                                *)

ProductStatus == {"none", "DRAFT", "ACTIVE", "INACTIVE", "ARCHIVED"}
VariantStatus == {"ACTIVE", "INACTIVE", "ARCHIVED"}
Folders == Categories \cup {NoCategory}

Value == [name : ValueNames, there : BOOLEAN]
Variant(n) == [status : VariantStatus, default : BOOLEAN, value : 0 .. n]

Request ==
  [op : {"none", "assign", "activate", "create", "promote", "delete"} \cup VariantStatus,
   on : Nat, seen : {"none"} \cup VariantStatus, default : BOOLEAN, category : Folders, those : Nat]

Typed == TypeOK /\ request \in [Requests -> Request]

NothingYet ==
  ~Exists => value = <<>> /\ variant = <<>> /\ \A r \in Requests : request[r] = None

OnSale == product.status = "ACTIVE" => Having("ACTIVE") # {}

SomethingLives == Writable => Live # {}

\* What a request to delete value i, or all of them, takes away.
Gone(i) == IF i = 0 THEN There ELSE {i}

\* What a request has read that can no longer change: a variant that was live and had
\* another status, the values so far, the variants that do not use what is to go.
InFlight(q) ==
  /\ q.op \in VariantStatus =>
       q.on \in DOMAIN variant /\ q.seen \in {"ACTIVE", "INACTIVE"} \ {q.op}
  /\ q.op = "create" => q.on \in 0 .. Len(value)
  /\ q.op = "delete" =>
       /\ q.those <= Len(variant)
       /\ \A v \in Live : v <= q.those => variant[v].value \notin Gone(q.on)

ReadsHold == \A r \in Requests : InFlight(request[r])

IInv == Typed /\ NothingYet /\ OnSale /\ SomethingLives /\ ReadsHold

-----------------------------------------------------------------------------
(* Lemmas on sequences.                                                    *)

\* A sequence whose elements are replaced in place stays a sequence.
LEMMA ReplacedInPlace ==
  ASSUME NEW S, NEW s \in Seq(S), NEW f \in [DOMAIN s -> S]
  PROVE  f \in Seq(S) /\ Len(f) = Len(s) /\ DOMAIN f = DOMAIN s
<1>1. Len(s) \in Nat /\ DOMAIN s = 1 .. Len(s)
  BY LenProperties
<1>2. f \in Seq(S)
  BY <1>1, SeqDef
<1>3. DOMAIN f = 1 .. Len(f) /\ Len(f) \in Nat
  BY <1>2, LenProperties
<1> QED
  BY <1>1, <1>2, <1>3

\* An element that is appended comes last, and the others stay where they are.
LEMMA Appended ==
  ASSUME NEW S, NEW s \in Seq(S), NEW e \in S
  PROVE  /\ Append(s, e) \in Seq(S)
         /\ DOMAIN Append(s, e) = DOMAIN s \cup {Len(s) + 1}
         /\ Len(s) \in Nat /\ DOMAIN s = 1 .. Len(s) /\ Len(s) + 1 \notin DOMAIN s
         /\ Len(Append(s, e)) = Len(s) + 1
         /\ \A i \in DOMAIN s : Append(s, e)[i] = s[i]
         /\ Append(s, e)[Len(s) + 1] = e
<1>1. /\ Len(s) \in Nat /\ DOMAIN s = 1 .. Len(s)
      /\ \A i \in 1 .. Len(s) : s[i] \in S
  BY LenProperties, ElementOfSeq
<1>2. /\ Append(s, e) \in Seq(S) /\ Len(Append(s, e)) = Len(s) + 1
      /\ \A i \in 1 .. Len(s) : Append(s, e)[i] = s[i]
      /\ Append(s, e)[Len(s) + 1] = e
  BY AppendProperties
<1>3. DOMAIN Append(s, e) = 1 .. Len(s) + 1
  BY <1>2, LenProperties
<1> QED
  BY <1>1, <1>2, <1>3


\* Values and variants are numbered from 1.
LEMMA RowsAreNumbers ==
  ASSUME Typed
  PROVE  /\ DOMAIN value = 1 .. Len(value) /\ Len(value) \in Nat
         /\ DOMAIN variant = 1 .. Len(variant) /\ Len(variant) \in Nat
         /\ \A i \in DOMAIN value : value[i] \in Value
         /\ \A v \in DOMAIN variant : variant[v] \in Variant(Len(value))
         /\ value \in Seq(Value) /\ variant \in Seq(Variant(Len(value)))
<1>1. value \in Seq(Value) /\ variant \in Seq(Variant(Len(value)))
  BY DEF Typed, TypeOK, Value, Variant, VariantStatus
<1>2. /\ DOMAIN value = 1 .. Len(value) /\ Len(value) \in Nat
      /\ DOMAIN variant = 1 .. Len(variant) /\ Len(variant) \in Nat
  BY <1>1, LenProperties
<1>3. /\ \A i \in DOMAIN value : value[i] \in Value
      /\ \A v \in DOMAIN variant : variant[v] \in Variant(Len(value))
  BY <1>1, <1>2, ElementOfSeq
<1> QED
  BY <1>1, <1>2, <1>3

-----------------------------------------------------------------------------
(* What a step does to the requests.                                       *)

Requesting == request' \in [Requests -> Request]

\* Request r is the only one that moves.
Alone(r) == \A s \in Requests \ {r} : request'[s] = request[s]

LEMMA EndsOne ==
  ASSUME Typed, NEW r \in Requests, Ends(r)
  PROVE  Requesting /\ Alone(r) /\ request'[r] = None /\ InFlight(request[r])'
<1>1. None \in Request
  BY DEF None, Request, Folders
<1>2. Requesting /\ Alone(r) /\ request'[r] = None
  BY <1>1 DEF Typed, Ends, Requesting, Alone
<1>3. InFlight(None)'
  BY DEF InFlight, None, VariantStatus
<1> QED
  BY <1>2, <1>3

\* Variants are not deleted, keep their value, and do not come back from the archive; new
\* variants and values come last.
RowsStay ==
  /\ Len(variant) <= Len(variant') /\ Len(value) <= Len(value')
  /\ \A v \in DOMAIN variant :
       /\ variant'[v].value = variant[v].value
       /\ variant[v].status = "ARCHIVED" => variant'[v].status = "ARCHIVED"
  /\ \A i \in There' : i \in There \/ i > Len(value)

\* While rows stay, what a request has read still holds.
LEMMA ReadStays ==
  ASSUME IInv, Typed', RowsStay, NEW q \in Request, InFlight(q)
  PROVE  InFlight(q)'
<1>1. /\ DOMAIN variant = 1 .. Len(variant) /\ Len(variant) \in Nat /\ Len(value) \in Nat
      /\ \A v \in DOMAIN variant : variant[v].value \in 0 .. Len(value)
  BY RowsAreNumbers DEF IInv, Variant
<1>2. /\ DOMAIN variant' = 1 .. Len(variant') /\ Len(variant') \in Nat /\ Len(value') \in Nat
      /\ DOMAIN value' = 1 .. Len(value')
  <2>1. /\ value' \in Seq([name : ValueNames, there : BOOLEAN])
        /\ variant' \in Seq([status : {"ACTIVE", "INACTIVE", "ARCHIVED"}, default : BOOLEAN,
                             value : 0 .. Len(value')])
    BY DEF Typed, TypeOK
  <2> QED
    BY <2>1, LenProperties
<1>3. (q.op \in VariantStatus =>
         q.on \in DOMAIN variant /\ q.seen \in {"ACTIVE", "INACTIVE"} \ {q.op})'
  BY <1>1, <1>2 DEF InFlight, RowsStay
<1>4. (q.op = "create" => q.on \in 0 .. Len(value))'
  BY <1>1, <1>2 DEF InFlight, RowsStay
<1>5. ASSUME q.op = "delete"
      PROVE  /\ q.those <= Len(variant')
             /\ \A v \in Live' : v <= q.those => variant'[v].value \notin Gone(q.on)'
  <2>1. q.those <= Len(variant) /\ q.those \in Nat
    BY <1>5 DEF InFlight, Request
  <2>2. q.those <= Len(variant')
    BY <1>1, <1>2, <2>1 DEF RowsStay
  <2>3. ASSUME NEW v \in Live', v <= q.those
        PROVE  variant'[v].value \notin Gone(q.on)'
    <3>1. v \in DOMAIN variant
      BY <1>1, <1>2, <2>1, <2>3 DEF Live
    <3>2. v \in Live /\ variant'[v].value = variant[v].value
      BY <2>3, <3>1 DEF Live, Having, RowsStay
    <3>3. variant[v].value \notin Gone(q.on) /\ variant[v].value <= Len(value)
      BY <1>1, <1>5, <2>3, <3>1, <3>2 DEF InFlight
    <3>4. CASE q.on = 0
      <4>1. variant[v].value \notin There'
        BY <1>1, <3>1, <3>3, <3>4 DEF Gone, RowsStay
      <4> QED
        BY <3>2, <3>4, <4>1 DEF Gone
    <3>5. CASE q.on # 0
      BY <3>2, <3>3, <3>5 DEF Gone
    <3> QED
      BY <3>4, <3>5
  <2> QED
    BY <2>2, <2>3
<1> QED
  BY <1>3, <1>4, <1>5 DEF InFlight

\* While rows stay, the requests that do not move know what they knew.
LEMMA ReadsStay ==
  ASSUME IInv, Typed', RowsStay, NEW r \in Requests, Alone(r), InFlight(request[r])'
  PROVE  ReadsHold'
<1> SUFFICES ASSUME NEW s \in Requests, s # r
             PROVE  InFlight(request[s])'
  BY DEF ReadsHold
<1>1. request'[s] = request[s] /\ InFlight(request[s]) /\ request[s] \in Request
  BY DEF Alone, IInv, ReadsHold, Typed
<1>2. PICK q \in Request : q = request[s] /\ q = request'[s]
  BY <1>1
<1>3. InFlight(q)'
  BY <1>1, <1>2, ReadStays
<1> QED
  BY <1>2, <1>3 DEF InFlight

\* The same for a step that none of the requests takes.
LEMMA AllReadsStay ==
  ASSUME IInv, Typed', RowsStay, UNCHANGED request
  PROVE  ReadsHold'
<1> SUFFICES ASSUME NEW s \in Requests
             PROVE  InFlight(request[s])'
  BY DEF ReadsHold
<1>1. request'[s] = request[s] /\ InFlight(request[s]) /\ request[s] \in Request
  BY DEF IInv, ReadsHold, Typed
<1>2. PICK q \in Request : q = request[s] /\ q = request'[s]
  BY <1>1
<1>3. InFlight(q)'
  BY <1>1, <1>2, ReadStays
<1> QED
  BY <1>2, <1>3 DEF InFlight

\* A request starts only once the product exists, so that nothing is in flight before.
LEMMA Existing ==
  ASSUME IInv, NEW r \in Requests, request[r] # None
  PROVE  Exists
BY DEF IInv, NothingYet

\* A request that starts, or goes on, or ends, with no row written.
LEMMA Reading ==
  ASSUME IInv, UNCHANGED <<product, option, value, variant, category>>, Exists,
         NEW r \in Requests, Requesting, Alone(r), InFlight(request[r])'
  PROVE  IInv'
<1>1. Typed'
  BY DEF IInv, Typed, TypeOK, Requesting
<1>2. RowsStay
  BY RowsAreNumbers DEF IInv, RowsStay, There
<1>3. ReadsHold'
  BY <1>1, <1>2, ReadsStay
<1>4. NothingYet' /\ OnSale' /\ SomethingLives'
  BY DEF IInv, NothingYet, OnSale, SomethingLives, Exists, Writable, Having, Live
<1> QED
  BY <1>1, <1>3, <1>4 DEF IInv

LEMMA StartKeeps ==
  ASSUME IInv, UNCHANGED <<product, option, value, variant, category>>, Exists,
         NEW r \in Requests, NEW q \in Request, Starts(r, q), InFlight(q)
  PROVE  IInv'
<1>1. Requesting /\ Alone(r) /\ request'[r] = q
  BY DEF IInv, Typed, Starts, Requesting, Alone
<1>2. InFlight(request[r])' <=> InFlight(q)
  BY <1>1 DEF InFlight, Gone, There, Live, Having
<1> QED
  BY <1>1, <1>2, Reading

LEMMA EndKeeps ==
  ASSUME IInv, UNCHANGED <<product, option, value, variant, category>>, NEW r \in Requests,
         request[r] # None, Ends(r)
  PROVE  IInv'
<1>1. Requesting /\ Alone(r) /\ InFlight(request[r])'
  BY EndsOne DEF IInv
<1> QED
  BY <1>1, Existing, Reading

-----------------------------------------------------------------------------
(* The product and its categories.                                         *)

LEMMA CreateProductKeeps ==
  ASSUME IInv, CreateProduct
  PROVE  IInv'
<1>1. ~Exists /\ UNCHANGED <<category, request>>
  BY DEF CreateProduct
<1>2. PICK c \in Folders : product' = [status |-> "DRAFT", category |-> c]
  BY DEF CreateProduct, Folders
<1>3. PICK n \in 0 .. MaxValues, m \in 1 .. MaxVariants :
        \E names \in [1 .. n -> ValueNames], of \in [1 .. m -> IF n = 0 THEN {0} ELSE 1 .. n] :
          /\ IsInjective(names) /\ IsInjective(of)
          /\ option' = (n > 0)
          /\ value' = [i \in 1 .. n |-> [name |-> names[i], there |-> TRUE]]
          /\ \E default \in 1 .. m :
               variant' = [v \in 1 .. m |->
                             [status |-> "ACTIVE", default |-> v = default, value |-> of[v]]]
  BY Zenon DEF CreateProduct
<1>4. PICK names \in [1 .. n -> ValueNames], of \in [1 .. m -> IF n = 0 THEN {0} ELSE 1 .. n] :
        /\ option' = (n > 0)
        /\ value' = [i \in 1 .. n |-> [name |-> names[i], there |-> TRUE]]
        /\ \E default \in 1 .. m :
             variant' = [v \in 1 .. m |->
                           [status |-> "ACTIVE", default |-> v = default, value |-> of[v]]]
  BY <1>3, Zenon
<1>5. PICK default \in 1 .. m :
        variant' = [v \in 1 .. m |->
                      [status |-> "ACTIVE", default |-> v = default, value |-> of[v]]]
  BY <1>4, Zenon
<1>6. n \in Nat /\ m \in Nat /\ m >= 1
  BY CatalogueAssumption
<1>7. value' \in Seq(Value) /\ Len(value') = n
  <2>1. value' \in [1 .. n -> Value]
    BY <1>4 DEF Value
  <2>2. value' \in Seq(Value)
    BY <1>6, <2>1, SeqDef
  <2> QED
    BY <1>6, <2>1, <2>2, LenProperties
<1>8. variant' \in Seq(Variant(n)) /\ DOMAIN variant' = 1 .. m
  <2>1. \A v \in 1 .. m : of[v] \in 0 .. n
    BY <1>4, <1>6
  <2>2. variant' \in [1 .. m -> Variant(n)]
    BY <1>5, <2>1 DEF Variant, VariantStatus
  <2> QED
    BY <1>6, <2>2, SeqDef
<1>9. Typed'
  <2>1. product' \in [status : ProductStatus, category : Folders]
    BY <1>2 DEF ProductStatus
  <2> QED
    BY <1>1, <1>4, <1>7, <1>8, <2>1
       DEF IInv, Typed, TypeOK, Value, Variant, VariantStatus, ProductStatus, Folders
<1>10. 1 \in Having("ACTIVE")' /\ 1 \in Live'
  <2>1. 1 \in DOMAIN variant' /\ variant'[1].status = "ACTIVE"
    BY <1>5, <1>6, <1>8
  <2> QED
    BY <2>1 DEF Having, Live
<1>11. NothingYet' /\ OnSale' /\ SomethingLives'
  BY <1>2, <1>10 DEF NothingYet, Exists, OnSale, SomethingLives
<1>12. \A r \in Requests : request'[r] = None
  BY <1>1 DEF IInv, NothingYet
<1>13. InFlight(None)'
  BY DEF InFlight, None, VariantStatus
<1>14. ReadsHold'
  BY <1>12, <1>13 DEF ReadsHold, InFlight
<1> QED
  BY <1>9, <1>11, <1>14 DEF IInv

\* A step that only writes the product, or categories.
LEMMA WritingProduct ==
  ASSUME IInv, UNCHANGED <<option, value, variant>>, Exists, Typed', Exists',
         product'.status = "ACTIVE" => product.status = "ACTIVE" \/ Having("ACTIVE") # {},
         Writable' => Writable, ReadsHold'
  PROVE  IInv'
<1>1. Having("ACTIVE")' = Having("ACTIVE") /\ Live' = Live
  BY DEF Having, Live
<1> QED
  BY <1>1 DEF IInv, NothingYet, OnSale, SomethingLives

LEMMA CategoriesKeep ==
  ASSUME IInv, NEW c \in Categories, ArchiveCategory(c)
  PROVE  IInv'
<1>1. Typed'
  BY DEF ArchiveCategory, IInv, Typed, TypeOK
<1>2. RowsStay
  BY RowsAreNumbers DEF ArchiveCategory, IInv, RowsStay, There
<1>3. ReadsHold'
  BY <1>1, <1>2, AllReadsStay DEF ArchiveCategory
<1>4. NothingYet' /\ OnSale' /\ SomethingLives'
  BY DEF ArchiveCategory, IInv, NothingYet, OnSale, SomethingLives, Exists, Writable, Having, Live
<1> QED
  BY <1>1, <1>3, <1>4 DEF IInv

LEMMA DeactivateKeeps ==
  ASSUME IInv, Deactivate
  PROVE  IInv'
<1>1. /\ product.status = "ACTIVE" /\ product' = [product EXCEPT !.status = "INACTIVE"]
      /\ UNCHANGED <<option, value, variant, category, request>>
  BY DEF Deactivate
<1>2. product'.status = "INACTIVE" /\ Typed'
  BY <1>1 DEF IInv, Typed, TypeOK
<1>3. RowsStay
  BY <1>1, RowsAreNumbers DEF IInv, RowsStay, There
<1>4. ReadsHold'
  BY <1>1, <1>2, <1>3, AllReadsStay
<1>5. Exists /\ Exists' /\ Writable
  BY <1>1, <1>2 DEF Exists, Writable
<1> QED
  BY <1>1, <1>2, <1>4, <1>5, WritingProduct

LEMMA ArchiveKeeps ==
  ASSUME IInv, Archive
  PROVE  IInv'
<1> DEFINE vs == [v \in DOMAIN variant |->
                    IF v \in Live
                    THEN [variant[v] EXCEPT !.status = "ARCHIVED", !.default = FALSE]
                    ELSE variant[v]]
<1>1. /\ Writable /\ product' = [product EXCEPT !.status = "ARCHIVED"] /\ variant' = vs
      /\ UNCHANGED <<option, value, category, request>>
  BY DEF Archive
<1>2. /\ \A v \in DOMAIN variant : variant[v] \in Variant(Len(value))
      /\ variant \in Seq(Variant(Len(value)))
  BY RowsAreNumbers DEF IInv
<1>3. vs \in [DOMAIN variant -> Variant(Len(value))]
  BY <1>2 DEF Variant, VariantStatus
<1>4. vs \in Seq(Variant(Len(value))) /\ Len(vs) = Len(variant) /\ DOMAIN vs = DOMAIN variant
  BY <1>2, <1>3, ReplacedInPlace
<1>5. product'.status = "ARCHIVED" /\ product' \in [status : ProductStatus, category : Folders]
  BY <1>1 DEF IInv, Typed, TypeOK, ProductStatus, Folders
<1>6. Typed'
  BY <1>1, <1>4, <1>5 DEF IInv, Typed, TypeOK, Variant, VariantStatus, ProductStatus, Folders
<1>7. \A v \in DOMAIN variant :
        /\ variant'[v].value = variant[v].value
        /\ variant[v].status = "ARCHIVED" => variant'[v].status = "ARCHIVED"
  <2> SUFFICES ASSUME NEW v \in DOMAIN variant
               PROVE  /\ vs[v].value = variant[v].value
                      /\ variant[v].status = "ARCHIVED" => vs[v].status = "ARCHIVED"
    BY <1>1
  <2>1. CASE v \in Live
    BY <1>2, <2>1 DEF Variant
  <2>2. CASE v \notin Live
    BY <2>2
  <2> QED
    BY <2>1, <2>2
<1>8. RowsStay
  <2>1. There' = There /\ Len(value') = Len(value) /\ Len(variant') = Len(variant)
    BY <1>1, <1>4 DEF There
  <2>2. Len(value) \in Nat /\ Len(variant) \in Nat
    BY RowsAreNumbers DEF IInv
  <2> QED
    BY <1>7, <2>1, <2>2 DEF RowsStay
<1>9. ReadsHold'
  BY <1>1, <1>6, <1>8, AllReadsStay
<1>10. NothingYet' /\ OnSale' /\ SomethingLives'
  BY <1>5 DEF NothingYet, OnSale, SomethingLives, Exists, Writable
<1> QED
  BY <1>6, <1>9, <1>10 DEF IInv

LEMMA AssignKeeps ==
  ASSUME IInv, NEW r \in Requests,
         (\E c \in Categories \cup {NoCategory} : StartAssign(r, c)) \/ AssignWrites(r)
  PROVE  IInv'
<1>1. ASSUME NEW c \in Folders, StartAssign(r, c)
      PROVE  IInv'
  <2> DEFINE q == [None EXCEPT !.op = "assign", !.category = c]
  <2>1. q \in Request /\ q.op = "assign"
    BY DEF None, Request, Folders
  <2>2. InFlight(q) /\ Exists
    BY <1>1, <2>1 DEF InFlight, VariantStatus, StartAssign, Writable, Exists
  <2> QED
    BY <1>1, <2>1, <2>2, StartKeeps DEF StartAssign
<1>2. CASE AssignWrites(r)
  <2>1. /\ request[r].op = "assign" /\ Ends(r) /\ UNCHANGED <<option, value, variant, category>>
        /\ product' = IF Writable THEN [product EXCEPT !.category = request[r].category] ELSE product
    BY <1>2 DEF AssignWrites
  <2>2. request[r] # None /\ request[r] \in Request
    BY <2>1 DEF None, IInv, Typed
  <2>3. CASE ~Writable
    BY <2>1, <2>2, <2>3, EndKeeps
  <2>4. CASE Writable
    <3>1. /\ product' \in [status : ProductStatus, category : Folders]
          /\ product'.status = product.status
      BY <2>1, <2>2, <2>4 DEF IInv, Typed, TypeOK, ProductStatus, Folders, Request
    <3>2. Requesting /\ Alone(r) /\ InFlight(request[r])'
      BY <2>1, EndsOne DEF IInv
    <3>3. Typed'
      BY <2>1, <3>1, <3>2 DEF IInv, Typed, TypeOK, ProductStatus, Folders, Requesting
    <3>4. RowsStay
      BY <2>1, RowsAreNumbers DEF IInv, RowsStay, There
    <3>5. ReadsHold'
      BY <3>2, <3>3, <3>4, ReadsStay
    <3>6. Exists /\ Exists' /\ (Writable' => Writable)
      BY <2>4, <3>1 DEF Exists, Writable
    <3> QED
      BY <2>1, <3>1, <3>3, <3>5, <3>6, WritingProduct
  <2> QED
    BY <2>3, <2>4
<1> QED
  BY <1>1, <1>2 DEF Folders

LEMMA ActivateKeeps ==
  ASSUME IInv, NEW r \in Requests, StartActivate(r) \/ ActivateWrites(r)
  PROVE  IInv'
<1>1. CASE StartActivate(r)
  <2> DEFINE q == [None EXCEPT !.op = "activate", !.category = product.category]
  <2>1. q \in Request /\ q.op = "activate"
    BY DEF None, Request, Folders, IInv, Typed, TypeOK
  <2>2. InFlight(q) /\ Exists
    BY <1>1, <2>1 DEF InFlight, VariantStatus, StartActivate, Exists
  <2> QED
    BY <1>1, <2>1, <2>2, StartKeeps DEF StartActivate
<1>2. CASE ActivateWrites(r)
  <2> DEFINE may == Sellable(request[r].category) /\ product.status \in {"DRAFT", "INACTIVE"}
  <2>1. /\ request[r].op = "activate" /\ Ends(r) /\ UNCHANGED <<option, value, variant, category>>
        /\ product' = IF may THEN [product EXCEPT !.status = "ACTIVE"] ELSE product
    BY <1>2 DEF ActivateWrites
  <2>2. request[r] # None
    BY <2>1 DEF None
  <2>3. CASE ~may
    BY <2>1, <2>2, <2>3, EndKeeps
  <2>4. CASE may
    <3>1. /\ product' \in [status : ProductStatus, category : Folders]
          /\ product'.status = "ACTIVE" /\ Having("ACTIVE") # {}
      BY <2>1, <2>4 DEF IInv, Typed, TypeOK, ProductStatus, Folders, Sellable
    <3>2. Requesting /\ Alone(r) /\ InFlight(request[r])'
      BY <2>1, EndsOne DEF IInv
    <3>3. Typed'
      BY <2>1, <3>1, <3>2 DEF IInv, Typed, TypeOK, ProductStatus, Folders, Requesting
    <3>4. RowsStay
      BY <2>1, RowsAreNumbers DEF IInv, RowsStay, There
    <3>5. ReadsHold'
      BY <3>2, <3>3, <3>4, ReadsStay
    <3>6. Exists /\ Exists' /\ Writable
      BY <2>4, <3>1 DEF Exists, Writable
    <3> QED
      BY <2>1, <3>1, <3>3, <3>5, <3>6, WritingProduct
  <2> QED
    BY <2>3, <2>4
<1> QED
  BY <1>1, <1>2

-----------------------------------------------------------------------------
(* Variants.                                                               *)

\* A request that writes variants, none of which comes back from the archive or has another
\* value, and which ends.
LEMMA WritingVariants ==
  ASSUME IInv, UNCHANGED <<product, option, value, category>>,
         NEW r \in Requests, request[r] # None, Ends(r),
         variant' \in Seq(Variant(Len(value))), Len(variant) <= Len(variant'),
         \A v \in DOMAIN variant :
           /\ variant'[v].value = variant[v].value
           /\ variant[v].status = "ARCHIVED" => variant'[v].status = "ARCHIVED",
         OnSale', SomethingLives'
  PROVE  IInv'
<1>1. Requesting /\ Alone(r) /\ InFlight(request[r])'
  BY EndsOne DEF IInv
<1>2. Typed'
  BY <1>1 DEF IInv, Typed, TypeOK, Variant, VariantStatus, Requesting
<1>3. RowsStay
  BY RowsAreNumbers DEF IInv, RowsStay, There
<1>4. ReadsHold'
  BY <1>1, <1>2, <1>3, ReadsStay
<1>5. NothingYet'
  BY Existing DEF NothingYet, Exists
<1> QED
  BY <1>2, <1>4, <1>5 DEF IInv

\* The others are demoted.
LEMMA Demoting ==
  ASSUME Typed
  PROVE  /\ Demoted \in Seq(Variant(Len(value)))
         /\ Len(Demoted) = Len(variant) /\ DOMAIN Demoted = DOMAIN variant
         /\ \A v \in DOMAIN variant :
              /\ Demoted[v] \in Variant(Len(value)) /\ ~Demoted[v].default
              /\ Demoted[v].value = variant[v].value /\ Demoted[v].status = variant[v].status
<1>1. /\ \A v \in DOMAIN variant : variant[v] \in Variant(Len(value))
      /\ variant \in Seq(Variant(Len(value)))
  BY RowsAreNumbers
<1>2. Demoted \in [DOMAIN variant -> Variant(Len(value))]
  BY <1>1 DEF Demoted, Variant
<1>3. Demoted \in Seq(Variant(Len(value))) /\ Len(Demoted) = Len(variant)
  BY <1>1, <1>2, ReplacedInPlace
<1> QED
  BY <1>1, <1>2, <1>3 DEF Demoted, Variant

\* While statuses stay, what is on sale and what is live stay.
LEMMA StatusesStay ==
  ASSUME IInv, UNCHANGED product, DOMAIN variant \subseteq DOMAIN variant',
         \A v \in DOMAIN variant : variant'[v].status = variant[v].status
  PROVE  OnSale' /\ SomethingLives'
<1>1. Having("ACTIVE") \subseteq Having("ACTIVE")' /\ Live \subseteq Live'
  BY DEF Having, Live
<1> QED
  BY <1>1 DEF IInv, OnSale, SomethingLives, Writable

\* What a creation would write.
Created(q) ==
  Append(IF q.default THEN Demoted ELSE variant,
         [status |-> "ACTIVE", default |-> q.default, value |-> q.on])

LEMMA Creating ==
  ASSUME Typed, NEW q \in Request, q.on \in 0 .. Len(value)
  PROVE  /\ Created(q) \in Seq(Variant(Len(value)))
         /\ Len(Created(q)) = Len(variant) + 1 /\ Len(variant) \in Nat
         /\ DOMAIN Created(q) = DOMAIN variant \cup {Len(variant) + 1}
         /\ \A v \in DOMAIN variant :
              /\ Created(q)[v].value = variant[v].value /\ Created(q)[v].status = variant[v].status
              /\ ~q.default => Created(q)[v] = variant[v]
         /\ Created(q)[Len(variant) + 1] = [status |-> "ACTIVE", default |-> q.default, value |-> q.on]
<1> DEFINE new == [status |-> "ACTIVE", default |-> q.default, value |-> q.on]
           old == IF q.default THEN Demoted ELSE variant
<1>1. new \in Variant(Len(value))
  BY DEF Variant, VariantStatus, Request
<1>2. /\ old \in Seq(Variant(Len(value))) /\ Len(old) = Len(variant) /\ DOMAIN old = DOMAIN variant
      /\ \A v \in DOMAIN variant :
           /\ old[v].value = variant[v].value /\ old[v].status = variant[v].status
           /\ ~q.default => old[v] = variant[v]
  BY Demoting, RowsAreNumbers
<1> HIDE DEF new, old
<1>3. /\ Append(old, new) \in Seq(Variant(Len(value)))
      /\ DOMAIN Append(old, new) = DOMAIN old \cup {Len(old) + 1}
      /\ Len(Append(old, new)) = Len(old) + 1 /\ Len(old) \in Nat
      /\ \A v \in DOMAIN old : Append(old, new)[v] = old[v]
      /\ Append(old, new)[Len(old) + 1] = new
  BY <1>1, <1>2, Appended
<1>4. Created(q) = Append(old, new)
  BY DEF Created, old, new
<1> QED
  BY <1>2, <1>3, <1>4 DEF new

LEMMA CreateKeeps ==
  ASSUME IInv, NEW r \in Requests,
         \/ \E i \in 0 .. Len(value), default \in BOOLEAN : StartCreate(r, i, default)
         \/ CreateWrites(r)
  PROVE  IInv'
<1>1. ASSUME NEW i \in 0 .. Len(value), NEW default \in BOOLEAN, StartCreate(r, i, default)
      PROVE  IInv'
  <2> DEFINE q == [None EXCEPT !.op = "create", !.on = i, !.default = default]
  <2>1. i \in Nat
    BY RowsAreNumbers DEF IInv
  <2>2. q \in Request /\ q.op = "create" /\ q.on = i
    BY <2>1 DEF None, Request, Folders
  <2>3. InFlight(q) /\ Exists
    BY <1>1, <2>2 DEF InFlight, VariantStatus, StartCreate, Exists, Writable
  <2> QED
    BY <1>1, <2>2, <2>3, StartKeeps DEF StartCreate
<1>2. CASE CreateWrites(r)
  <2> DEFINE q == request[r]
  <2>1. /\ q.op = "create" /\ Ends(r) /\ UNCHANGED <<product, option, value, category>>
        /\ q \in Request /\ InFlight(q) /\ request[r] # None
    BY <1>2 DEF CreateWrites, IInv, Typed, ReadsHold, None
  <2>2. CASE UNCHANGED variant
    BY <2>1, <2>2, EndKeeps
  <2>3. CASE ~UNCHANGED variant
    <3>1. variant' = Created(q)
      BY <1>2, <2>3 DEF CreateWrites, Writes, Created
    <3>2. q.on \in 0 .. Len(value)
      BY <2>1 DEF InFlight
    <3> HIDE DEF q
    <3>3. /\ variant' \in Seq(Variant(Len(value)))
          /\ Len(variant') = Len(variant) + 1 /\ Len(variant) \in Nat
          /\ DOMAIN variant' = DOMAIN variant \cup {Len(variant) + 1}
          /\ \A v \in DOMAIN variant :
               variant'[v].value = variant[v].value /\ variant'[v].status = variant[v].status
      BY <2>1, <3>1, <3>2, Creating DEF IInv
    <3>4. OnSale' /\ SomethingLives'
      BY <2>1, <3>3, StatusesStay
    <3> QED
      BY <2>1, <3>3, <3>4, WritingVariants
  <2> QED
    BY <2>2, <2>3
<1> QED
  BY <1>1, <1>2

LEMMA Promoting ==
  ASSUME Typed, NEW v
  PROVE  /\ Promoted(v) \in Seq(Variant(Len(value))) /\ Len(Promoted(v)) = Len(variant)
         /\ DOMAIN Promoted(v) = DOMAIN variant
         /\ \A w \in DOMAIN variant :
              Promoted(v)[w].value = variant[w].value /\ Promoted(v)[w].status = variant[w].status
         /\ v \in Live => Promoted(v)[v].default
<1>1. CASE v \in Live
  <2>1. v \in DOMAIN variant /\ Promoted(v) = [Demoted EXCEPT ![v].default = TRUE]
    BY <1>1 DEF Live, Promoted
  <2>2. /\ Demoted \in Seq(Variant(Len(value)))
        /\ Len(Demoted) = Len(variant) /\ DOMAIN Demoted = DOMAIN variant
        /\ \A w \in DOMAIN variant :
             /\ Demoted[w] \in Variant(Len(value))
             /\ Demoted[w].value = variant[w].value /\ Demoted[w].status = variant[w].status
    BY Demoting
  <2>3. Promoted(v) \in [DOMAIN Demoted -> Variant(Len(value))]
    BY <2>1, <2>2 DEF Variant
  <2>4. Promoted(v) \in Seq(Variant(Len(value))) /\ Len(Promoted(v)) = Len(variant)
    BY <2>2, <2>3, ReplacedInPlace
  <2> QED
    BY <2>1, <2>2, <2>3, <2>4 DEF Variant
<1>2. CASE v \notin Live
  BY <1>2, RowsAreNumbers DEF Promoted
<1> QED
  BY <1>1, <1>2

LEMMA PromoteKeeps ==
  ASSUME IInv, NEW r \in Requests,
         (\E v \in DOMAIN variant : StartPromote(r, v)) \/ PromoteWrites(r)
  PROVE  IInv'
<1>1. ASSUME NEW v \in DOMAIN variant, StartPromote(r, v)
      PROVE  IInv'
  <2> DEFINE q == [None EXCEPT !.op = "promote", !.on = v]
  <2>1. v \in Nat
    BY RowsAreNumbers DEF IInv
  <2>2. q \in Request /\ q.op = "promote"
    BY <2>1 DEF None, Request, Folders
  <2>3. InFlight(q) /\ Exists
    BY <1>1, <2>2 DEF InFlight, VariantStatus, StartPromote, Exists, Writable
  <2> QED
    BY <1>1, <2>2, <2>3, StartKeeps DEF StartPromote
<1>2. CASE PromoteWrites(r)
  <2> DEFINE v == request[r].on
  <2>1. /\ Ends(r) /\ UNCHANGED <<product, option, value, category>> /\ request[r] # None
    BY <1>2 DEF PromoteWrites, None
  <2>2. CASE UNCHANGED variant
    BY <2>1, <2>2, EndKeeps
  <2>3. CASE ~UNCHANGED variant
    <3>1. variant' = Promoted(v)
      BY <1>2, <2>3 DEF PromoteWrites, Writes
    <3> HIDE DEF v
    <3>2. /\ variant' \in Seq(Variant(Len(value))) /\ Len(variant') = Len(variant)
          /\ DOMAIN variant' = DOMAIN variant
          /\ \A w \in DOMAIN variant :
               variant'[w].value = variant[w].value /\ variant'[w].status = variant[w].status
      BY <3>1, Promoting DEF IInv
    <3>3. OnSale' /\ SomethingLives'
      BY <2>1, <3>2, StatusesStay
    <3>4. Len(variant) \in Nat
      BY RowsAreNumbers DEF IInv
    <3> QED
      BY <2>1, <3>2, <3>3, <3>4, WritingVariants
  <2> QED
    BY <2>2, <2>3
<1> QED
  BY <1>1, <1>2

\* What setStatus would write, before anybody takes over.
Changed(v, target) ==
  [variant EXCEPT ![v].status = target, ![v].default = @ /\ target # "ARCHIVED"]

LEMMA Changing ==
  ASSUME Typed, NEW v \in DOMAIN variant, NEW target \in VariantStatus
  PROVE  /\ Changed(v, target) \in Seq(Variant(Len(value)))
         /\ Len(Changed(v, target)) = Len(variant) /\ DOMAIN Changed(v, target) = DOMAIN variant
         /\ \A w \in DOMAIN variant \ {v} : Changed(v, target)[w] = variant[w]
         /\ Changed(v, target)[v].value = variant[v].value
         /\ Changed(v, target)[v].status = target
         /\ Changed(v, target)[v].default <=> variant[v].default /\ target # "ARCHIVED"
<1> DEFINE default == variant[v].default /\ target # "ARCHIVED"
<1>1. /\ \A w \in DOMAIN variant : variant[w] \in Variant(Len(value))
      /\ variant \in Seq(Variant(Len(value)))
  BY RowsAreNumbers
<1>2. Changed(v, target) = [variant EXCEPT ![v].status = target, ![v].default = default]
  BY Zenon DEF Changed
<1>3. default \in BOOLEAN /\ (default <=> variant[v].default /\ target # "ARCHIVED")
  OBVIOUS
<1> HIDE DEF default
<1>4. Changed(v, target) \in [DOMAIN variant -> Variant(Len(value))]
  BY <1>1, <1>2, <1>3 DEF Variant
<1>5. /\ Changed(v, target) \in Seq(Variant(Len(value)))
      /\ Len(Changed(v, target)) = Len(variant) /\ DOMAIN Changed(v, target) = DOMAIN variant
  BY <1>1, <1>4, ReplacedInPlace
<1>6. /\ \A w \in DOMAIN variant \ {v} : Changed(v, target)[w] = variant[w]
      /\ Changed(v, target)[v].value = variant[v].value
      /\ Changed(v, target)[v].status = target
      /\ Changed(v, target)[v].default = default
  BY <1>1, <1>2, <1>3 DEF Variant
<1> QED
  BY <1>3, <1>5, <1>6

\* Whoever takes over keeps its status and its value.
LEMMA TakingOver ==
  ASSUME Typed, NEW vs \in Seq(Variant(Len(value))), NEW w \in DOMAIN vs
  PROVE  LET next == [vs EXCEPT ![w].default = TRUE] IN
         /\ next \in Seq(Variant(Len(value))) /\ Len(next) = Len(vs) /\ DOMAIN next = DOMAIN vs
         /\ \A v \in DOMAIN vs : next[v].status = vs[v].status /\ next[v].value = vs[v].value
         /\ next[w].default
<1> DEFINE next == [vs EXCEPT ![w].default = TRUE]
<1>1. \A v \in DOMAIN vs : vs[v] \in Variant(Len(value))
  <2>1. DOMAIN vs = 1 .. Len(vs)
    BY LenProperties
  <2> QED
    BY <2>1, ElementOfSeq
<1>2. next \in [DOMAIN vs -> Variant(Len(value))]
  BY <1>1 DEF Variant
<1>3. next \in Seq(Variant(Len(value))) /\ Len(next) = Len(vs) /\ DOMAIN next = DOMAIN vs
  BY <1>2, ReplacedInPlace
<1>4. /\ \A v \in DOMAIN vs : next[v].status = vs[v].status /\ next[v].value = vs[v].value
      /\ next[w].default
  BY <1>1 DEF Variant
<1> QED
  BY <1>3, <1>4

\* What a change of the status of variant v leaves, if it writes anything.
LEMMA StatusSet ==
  ASSUME IInv, NEW r \in Requests, NEW target \in VariantStatus, SetStatusWrites(r, target),
         ~UNCHANGED variant
  PROVE  LET v == request[r].on IN
         /\ v \in DOMAIN variant
         /\ ~Needed(v, request[r].seen, target)
         /\ variant[v].status = request[r].seen
         /\ variant[v].status \in {"ACTIVE", "INACTIVE"} \ {target}
         /\ variant' \in Seq(Variant(Len(value))) /\ Len(variant') = Len(variant)
         /\ DOMAIN variant' = DOMAIN variant
         /\ variant'[v].status = target
         /\ \A w \in DOMAIN variant \ {v} : variant'[w].status = variant[w].status
         /\ \A w \in DOMAIN variant : variant'[w].value = variant[w].value
         /\ \/ variant' = Changed(v, target)
            \/ \E w \in DOMAIN variant : variant'[w].status # "ARCHIVED" /\ variant'[w].default
         /\ target = "ARCHIVED" /\ request[r].default /\ Successors(Changed(v, target)) # {}
              => \E w \in DOMAIN variant : variant'[w].status # "ARCHIVED" /\ variant'[w].default
<1> DEFINE q == request[r]
           v == request[r].on
           vs == Changed(v, target)
<1>1. q.op = target /\ InFlight(q)
  BY DEF SetStatusWrites, IInv, ReadsHold
<1>2. v \in DOMAIN variant /\ q.seen \in {"ACTIVE", "INACTIVE"} \ {target}
  BY <1>1 DEF InFlight
<1>3. ~Needed(v, q.seen, target) /\ variant[v].status = q.seen
  BY DEF SetStatusWrites
<1>4. /\ vs \in Seq(Variant(Len(value))) /\ Len(vs) = Len(variant) /\ DOMAIN vs = DOMAIN variant
      /\ \A w \in DOMAIN variant \ {v} : vs[w] = variant[w]
      /\ vs[v].value = variant[v].value /\ vs[v].status = target
  BY <1>2, Changing DEF IInv
<1>5. IF target = "ARCHIVED" /\ q.default /\ Successors(vs) # {}
      THEN \E w \in Successors(vs) : Writes([vs EXCEPT ![w].default = TRUE])
      ELSE Writes(vs)
  BY <1>3 DEF SetStatusWrites, Changed
<1> HIDE DEF vs, v, q
<1>6. CASE target = "ARCHIVED" /\ q.default /\ Successors(vs) # {}
  <2>1. PICK w \in Successors(vs) : Writes([vs EXCEPT ![w].default = TRUE])
    BY <1>5, <1>6
  <2> DEFINE next == [vs EXCEPT ![w].default = TRUE]
  <2>2. w \in DOMAIN vs /\ vs[w].status \in {"ACTIVE", "INACTIVE"}
    BY DEF Successors
  <2>3. variant' = next
    BY <2>1 DEF Writes
  <2>4. /\ next \in Seq(Variant(Len(value))) /\ Len(next) = Len(vs) /\ DOMAIN next = DOMAIN vs
        /\ \A u \in DOMAIN vs : next[u].status = vs[u].status /\ next[u].value = vs[u].value
        /\ next[w].default
    BY <1>4, <2>2, TakingOver DEF IInv
  <2> HIDE DEF next
  <2>5. w \in DOMAIN variant /\ variant'[w].status # "ARCHIVED" /\ variant'[w].default
    BY <1>4, <2>2, <2>3, <2>4
  <2> QED
    BY <1>2, <1>3, <1>4, <2>3, <2>4, <2>5 DEF v, q
<1>7. CASE ~(target = "ARCHIVED" /\ q.default /\ Successors(vs) # {})
  <2>1. variant' = vs
    BY <1>5, <1>7 DEF Writes
  <2> QED
    BY <1>2, <1>3, <1>4, <1>7, <2>1 DEF v, q, vs
<1> QED
  BY <1>6, <1>7

LEMMA SetStatusKeeps ==
  ASSUME IInv, NEW r \in Requests, NEW target \in VariantStatus,
         (\E v \in DOMAIN variant : StartSetStatus(r, v, target)) \/ SetStatusWrites(r, target)
  PROVE  IInv'
<1>1. ASSUME NEW v \in DOMAIN variant, StartSetStatus(r, v, target)
      PROVE  IInv'
  <2> DEFINE q == [None EXCEPT !.op = target, !.on = v, !.seen = variant[v].status,
                               !.default = variant[v].default]
  <2>1. v \in Nat /\ variant[v].status \in VariantStatus /\ variant[v].default \in BOOLEAN
    BY RowsAreNumbers DEF IInv, Variant
  <2>2. /\ q \in Request /\ q.op = target /\ q.on = v /\ q.seen = variant[v].status
    BY <2>1 DEF None, Request, Folders
  <2>3. variant[v].status \in {"ACTIVE", "INACTIVE"} \ {target}
    BY <1>1, <2>1 DEF StartSetStatus, VariantStatus
  <2>4. InFlight(q) /\ Exists
    BY <1>1, <2>2, <2>3 DEF InFlight, VariantStatus, StartSetStatus, Exists, Writable
  <2> QED
    BY <1>1, <2>2, <2>4, StartKeeps DEF StartSetStatus
<1>2. CASE SetStatusWrites(r, target)
  <2> DEFINE v == request[r].on
  <2>1. Ends(r) /\ UNCHANGED <<product, option, value, category>> /\ request[r] # None
    <3>1. request[r].op \in VariantStatus
      BY <1>2 DEF SetStatusWrites
    <3>2. request[r] # None
      BY <3>1 DEF None, VariantStatus
    <3>3. Ends(r) /\ UNCHANGED <<product, option, value, category>>
      BY <1>2 DEF SetStatusWrites
    <3> QED
      BY <3>2, <3>3
  <2>2. CASE UNCHANGED variant
    BY <2>1, <2>2, EndKeeps
  <2>3. CASE ~UNCHANGED variant
    <3>1. /\ v \in DOMAIN variant /\ ~Needed(v, request[r].seen, target)
          /\ variant[v].status = request[r].seen
          /\ variant[v].status \in {"ACTIVE", "INACTIVE"} \ {target}
          /\ variant' \in Seq(Variant(Len(value))) /\ Len(variant') = Len(variant)
          /\ DOMAIN variant' = DOMAIN variant
          /\ variant'[v].status = target
          /\ \A w \in DOMAIN variant \ {v} : variant'[w].status = variant[w].status
          /\ \A w \in DOMAIN variant : variant'[w].value = variant[w].value
      BY <1>2, <2>3, StatusSet
    <3> HIDE DEF v
    <3>2. \A w \in DOMAIN variant : variant[w].status = "ARCHIVED" => variant'[w].status = "ARCHIVED"
      BY <3>1
    <3>3. OnSale'
      <4> SUFFICES ASSUME product.status = "ACTIVE"
                   PROVE  Having("ACTIVE")' # {}
        BY <2>1 DEF OnSale
      <4>1. Having("ACTIVE") # {}
        BY DEF IInv, OnSale
      <4>2. CASE target = "ACTIVE"
        BY <3>1, <4>2 DEF Having
      <4>3. CASE target # "ACTIVE" /\ request[r].seen = "ACTIVE"
        <5>1. PICK w \in Having("ACTIVE") : w # v
          BY <3>1, <4>3 DEF Needed
        <5> QED
          BY <3>1, <5>1 DEF Having
      <4>4. CASE request[r].seen # "ACTIVE"
        BY <3>1, <4>1, <4>4 DEF Having
      <4> QED
        BY <4>2, <4>3, <4>4
    <3>4. SomethingLives'
      <4> SUFFICES ASSUME Writable
                   PROVE  Live' # {}
        BY <2>1 DEF SomethingLives, Writable
      <4>1. CASE target = "ARCHIVED"
        <5>1. PICK w \in Live : w # v
          BY <3>1, <4>1 DEF Needed
        <5> QED
          BY <3>1, <5>1 DEF Live, Having
      <4>2. CASE target # "ARCHIVED"
        BY <3>1, <4>2 DEF Live, Having
      <4> QED
        BY <4>1, <4>2
    <3>5. Len(variant) \in Nat
      BY RowsAreNumbers DEF IInv
    <3> QED
      BY <2>1, <3>1, <3>2, <3>3, <3>4, <3>5, WritingVariants
  <2> QED
    BY <2>2, <2>3
<1> QED
  BY <1>1, <1>2

-----------------------------------------------------------------------------
(* The values of the option.                                               *)

\* Variants and products do not change; values may.
LEMMA WritingValues ==
  ASSUME IInv, UNCHANGED <<product, variant, category>>, Exists, Typed', RowsStay, ReadsHold'
  PROVE  IInv'
<1>1. NothingYet' /\ OnSale' /\ SomethingLives'
  BY DEF IInv, NothingYet, OnSale, SomethingLives, Exists, Writable, Having, Live
<1> QED
  BY <1>1 DEF IInv

LEMMA AddValueKeeps ==
  ASSUME IInv, NEW name \in ValueNames, AddValue(name)
  PROVE  IInv'
<1> DEFINE new == [name |-> name, there |-> TRUE]
<1>1. /\ value' = Append(value, new) /\ Writable
      /\ UNCHANGED <<product, option, variant, category, request>>
  BY DEF AddValue
<1>2. /\ value \in Seq(Value) /\ variant \in Seq(Variant(Len(value))) /\ new \in Value
      /\ DOMAIN value = 1 .. Len(value) /\ Len(value) \in Nat
      /\ DOMAIN variant = 1 .. Len(variant) /\ Len(variant) \in Nat
      /\ \A v \in DOMAIN variant : variant[v] \in Variant(Len(value))
  BY RowsAreNumbers DEF IInv, Value
<1> HIDE DEF new
<1>3. /\ value' \in Seq(Value) /\ Len(value') = Len(value) + 1
      /\ DOMAIN value' = DOMAIN value \cup {Len(value) + 1}
      /\ \A i \in DOMAIN value : value'[i] = value[i]
  BY <1>1, <1>2, Appended
<1>4. variant' \in Seq(Variant(Len(value')))
  <2>1. Variant(Len(value)) \subseteq Variant(Len(value'))
    BY <1>2, <1>3 DEF Variant
  <2>2. variant \in [1 .. Len(variant) -> Variant(Len(value))]
    BY <1>2, LenProperties
  <2>3. variant \in [1 .. Len(variant) -> Variant(Len(value'))]
    BY <2>1, <2>2
  <2> QED
    BY <1>1, <1>2, <2>3, SeqDef
<1>5. Typed'
  BY <1>1, <1>3, <1>4 DEF IInv, Typed, TypeOK, Value, Variant, VariantStatus
<1>6. RowsStay
  <2>1. ASSUME NEW i \in There'
        PROVE  i \in There \/ i > Len(value)
    BY <1>2, <1>3, <2>1 DEF There
  <2> QED
    BY <1>1, <1>2, <1>3, <2>1 DEF RowsStay
<1>7. ReadsHold'
  BY <1>1, <1>5, <1>6, AllReadsStay
<1> QED
  BY <1>1, <1>5, <1>6, <1>7, WritingValues DEF Exists, Writable

\* What a deletion writes: the values that go are no longer there, the others stay.
LEMMA Deleting ==
  ASSUME Typed, NEW gone
  PROVE  LET left == [i \in DOMAIN value |-> [value[i] EXCEPT !.there = @ /\ i \notin gone]] IN
         /\ left \in Seq(Value) /\ Len(left) = Len(value) /\ DOMAIN left = DOMAIN value
         /\ \A i \in DOMAIN value : left[i].there <=> value[i].there /\ i \notin gone
<1> DEFINE there(i) == value[i].there /\ i \notin gone
           left == [i \in DOMAIN value |-> [value[i] EXCEPT !.there = there(i)]]
<1>1. value \in Seq(Value) /\ \A i \in DOMAIN value : value[i] \in Value
  BY RowsAreNumbers
<1>2. \A i : there(i) \in BOOLEAN /\ (there(i) <=> value[i].there /\ i \notin gone)
  OBVIOUS
<1>3. left = [i \in DOMAIN value |-> [value[i] EXCEPT !.there = @ /\ i \notin gone]]
  BY Zenon
<1> HIDE DEF there
<1>4. left \in [DOMAIN value -> Value]
  BY <1>1, <1>2 DEF Value
<1>5. left \in Seq(Value) /\ Len(left) = Len(value) /\ DOMAIN left = DOMAIN value
  BY <1>1, <1>4, ReplacedInPlace
<1>6. \A i \in DOMAIN value : left[i].there = there(i)
  BY <1>1 DEF Value
<1> QED
  BY <1>2, <1>3, <1>5, <1>6

LEMMA DeleteKeeps ==
  ASSUME IInv, NEW r \in Requests,
         (\E i \in {0} \cup There : StartDelete(r, i)) \/ DeleteWrites(r)
  PROVE  IInv'
<1>1. ASSUME NEW i \in {0} \cup There, StartDelete(r, i)
      PROVE  IInv'
  <2> DEFINE q == [None EXCEPT !.op = "delete", !.on = i, !.those = Len(variant)]
  <2>1. i \in Nat /\ Len(variant) \in Nat
    BY RowsAreNumbers DEF IInv, There
  <2>2. q \in Request /\ q.op = "delete" /\ q.on = i /\ q.those = Len(variant)
    BY <2>1 DEF None, Request, Folders
  <2>3. \A v \in Live : variant[v].value \notin Gone(i)
    BY <1>1 DEF StartDelete, Users, Gone
  <2>4. Exists /\ Starts(r, q) /\ UNCHANGED <<product, option, value, variant, category>>
    BY <1>1 DEF StartDelete, Exists, Writable
  <2> HIDE DEF q
  <2>5. InFlight(q)
    BY <2>1, <2>2, <2>3 DEF InFlight, VariantStatus
  <2> QED
    BY <2>2, <2>4, <2>5, StartKeeps
<1>2. CASE DeleteWrites(r)
  <2> DEFINE gone == Gone(request[r].on)
             left == [i \in DOMAIN value |-> [value[i] EXCEPT !.there = @ /\ i \notin gone]]
  <2>1. /\ request[r].op = "delete" /\ Ends(r) /\ UNCHANGED <<product, variant, category>>
        /\ value' = left
        /\ option' = (option /\ request[r].on # 0)
    BY <1>2 DEF DeleteWrites, Gone
  <2>2. request[r] # None
    BY <2>1 DEF None
  <2> HIDE DEF gone
  <2>3. /\ value' \in Seq(Value) /\ Len(value') = Len(value) /\ DOMAIN value' = DOMAIN value
        /\ \A i \in DOMAIN value : value'[i].there <=> value[i].there /\ i \notin gone
    BY <2>1, Deleting DEF IInv
  <2>4. option' \in BOOLEAN
    BY <2>1
  <2> HIDE DEF left
  <2>5. Requesting /\ Alone(r) /\ InFlight(request[r])'
    BY <2>1, EndsOne DEF IInv
  <2>6. Typed'
    BY <2>1, <2>3, <2>4, <2>5 DEF IInv, Typed, TypeOK, Requesting, Value
  <2>7. RowsStay
    <3>1. There' \subseteq There
      BY <2>3 DEF There
    <3> QED
      BY <2>1, <2>3, <3>1, RowsAreNumbers DEF IInv, RowsStay
  <2>8. ReadsHold'
    BY <2>5, <2>6, <2>7, ReadsStay
  <2> QED
    BY <2>1, <2>2, <2>6, <2>7, <2>8, Existing, WritingValues
<1> QED
  BY <1>1, <1>2

-----------------------------------------------------------------------------
(* The invariant is inductive.                                             *)

LEMMA Initially == Init => IInv
<1> SUFFICES ASSUME Init
             PROVE  IInv
  OBVIOUS
<1>1. None \in Request
  BY DEF None, Request, Folders
<1>2. value = <<>> /\ variant = <<>> /\ product.status = "none"
  BY DEF Init
<1>3. Typed
  <2>1. /\ value \in Seq([name : ValueNames, there : BOOLEAN])
        /\ variant \in Seq([status : {"ACTIVE", "INACTIVE", "ARCHIVED"}, default : BOOLEAN,
                            value : 0 .. Len(value)])
    BY <1>2
  <2> QED
    BY <1>1, <2>1 DEF Init, Typed, TypeOK
<1>4. NothingYet /\ OnSale /\ SomethingLives
  BY <1>2 DEF Init, NothingYet, OnSale, SomethingLives, Writable
<1>5. ReadsHold
  BY DEF Init, ReadsHold, InFlight, None, VariantStatus
<1> QED
  BY <1>3, <1>4, <1>5 DEF IInv

LEMMA ServingKeeps ==
  ASSUME IInv, NEW r \in Requests, Serves(r)
  PROVE  IInv'
<1>1. CASE (\E c \in Categories \cup {NoCategory} : StartAssign(r, c)) \/ AssignWrites(r)
  BY <1>1, AssignKeeps
<1>2. CASE StartActivate(r) \/ ActivateWrites(r)
  BY <1>2, ActivateKeeps
<1>3. CASE \/ \E i \in 0 .. Len(value), default \in BOOLEAN : StartCreate(r, i, default)
           \/ CreateWrites(r)
  BY <1>3, CreateKeeps
<1>4. CASE (\E v \in DOMAIN variant : StartPromote(r, v)) \/ PromoteWrites(r)
  BY <1>4, PromoteKeeps
<1>5. CASE \E target \in VariantStatus :
             (\E v \in DOMAIN variant : StartSetStatus(r, v, target)) \/ SetStatusWrites(r, target)
  BY <1>5, SetStatusKeeps
<1>6. CASE (\E i \in {0} \cup There : StartDelete(r, i)) \/ DeleteWrites(r)
  BY <1>6, DeleteKeeps
<1>7. CASE Fails(r)
  BY <1>7, EndKeeps DEF Fails
<1> QED
  BY <1>1, <1>2, <1>3, <1>4, <1>5, <1>6, <1>7 DEF Serves, VariantStatus

LEMMA Stuttering ==
  ASSUME IInv, UNCHANGED vars
  PROVE  IInv'
<1>1. Typed' /\ NothingYet' /\ OnSale' /\ SomethingLives'
  BY DEF vars, IInv, Typed, TypeOK, NothingYet, OnSale, SomethingLives, Exists, Writable, Having, Live
<1>2. RowsStay
  BY RowsAreNumbers DEF vars, IInv, RowsStay, There
<1>3. ReadsHold'
  BY <1>1, <1>2, AllReadsStay DEF vars
<1> QED
  BY <1>1, <1>3 DEF IInv

LEMMA Inductive == IInv /\ [Next]_vars => IInv'
<1> SUFFICES ASSUME IInv, [Next]_vars
             PROVE  IInv'
  OBVIOUS
<1>1. CASE CreateProduct
  BY <1>1, CreateProductKeeps
<1>2. CASE \E c \in Categories : ArchiveCategory(c)
  BY <1>2, CategoriesKeep
<1>3. CASE Deactivate
  BY <1>3, DeactivateKeeps
<1>4. CASE Archive
  BY <1>4, ArchiveKeeps
<1>5. CASE \E name \in ValueNames : AddValue(name)
  BY <1>5, AddValueKeeps
<1>6. CASE \E r \in Requests : Serves(r)
  BY <1>6, ServingKeeps
<1>7. CASE UNCHANGED vars
  BY <1>7, Stuttering
<1> QED
  BY <1>1, <1>2, <1>3, <1>4, <1>5, <1>6, <1>7 DEF Next

-----------------------------------------------------------------------------
(* The theorems.                                                           *)

\* In every reachable state values, variants and requests have their types, and what a
\* request has read of rows that do not go back still holds.
THEOREM CatalogueInvariant == Spec => []IInv
<1>1. Init => IInv
  BY Initially
<1>2. IInv /\ [Next]_vars => IInv'
  BY Inductive
<1> QED
  BY <1>1, <1>2, PTL DEF Spec

\* An ACTIVE product keeps a variant on sale and a live product a live variant, whatever
\* requests activate, deactivate and archive at the same time (setStatus under the lock of
\* the product).
THEOREM ProductsStaySellable == Spec => []ProductsCanBeSold
<1>1. IInv => ProductsCanBeSold
  BY DEF IInv, Typed, OnSale, SomethingLives, ProductsCanBeSold
<1> QED
  BY <1>1, CatalogueInvariant, PTL

\* A variant that is created as the default one is, and otherwise the others stay.
LEMMA CreationKeepsDefault ==
  ASSUME IInv, NEW r \in Requests, CreateWrites(r), Default # {}
  PROVE  Default' # {}
<1> DEFINE q == request[r]
<1>1. CASE UNCHANGED variant
  BY <1>1 DEF Default, Live, Having
<1>2. CASE ~UNCHANGED variant
  <2>1. variant' = Created(q)
    BY <1>2 DEF CreateWrites, Writes, Created
  <2>2. q \in Request /\ q.on \in 0 .. Len(value)
    BY DEF IInv, Typed, ReadsHold, InFlight, CreateWrites
  <2> HIDE DEF q
  <2>3. /\ DOMAIN variant' = DOMAIN variant \cup {Len(variant) + 1}
        /\ \A v \in DOMAIN variant : ~q.default => variant'[v] = variant[v]
        /\ variant'[Len(variant) + 1]
             = [status |-> "ACTIVE", default |-> q.default, value |-> q.on]
    BY <2>1, <2>2, Creating DEF IInv
  <2>4. CASE q.default
    BY <2>3, <2>4 DEF Default, Live, Having
  <2>5. CASE ~q.default
    BY <2>3, <2>5 DEF Default, Live, Having
  <2> QED
    BY <2>4, <2>5
<1> QED
  BY <1>1, <1>2

\* A promotion that writes leaves its variant as the default one.
LEMMA PromotionKeepsDefault ==
  ASSUME IInv, NEW r \in Requests, PromoteWrites(r), Default # {}
  PROVE  Default' # {}
<1> DEFINE v == request[r].on
<1>1. CASE UNCHANGED variant
  BY <1>1 DEF Default, Live, Having
<1>2. CASE ~UNCHANGED variant
  <2>1. variant' = Promoted(v) /\ v \in Live
    BY <1>2 DEF PromoteWrites, Writes, Promoted
  <2> HIDE DEF v
  <2>2. /\ DOMAIN variant' = DOMAIN variant
        /\ \A w \in DOMAIN variant : variant'[w].status = variant[w].status
        /\ variant'[v].default
    BY <2>1, Promoting DEF IInv
  <2> QED
    BY <2>1, <2>2 DEF Default, Live, Having
<1> QED
  BY <1>1, <1>2

\* A change of status that leaves no default variant has archived one whose rise it has
\* not seen.
LEMMA StatusOrphans ==
  ASSUME IInv, NEW r \in Requests, NEW target \in VariantStatus, SetStatusWrites(r, target),
         Default # {}, Default' = {}
  PROVE  target = "ARCHIVED" /\ ~request[r].default /\ variant[request[r].on].default
<1> DEFINE v == request[r].on
           vs == Changed(v, target)
<1>1. ~UNCHANGED variant
  BY DEF Default, Live, Having
<1>2. /\ v \in DOMAIN variant
      /\ ~Needed(v, request[r].seen, target)
      /\ DOMAIN variant' = DOMAIN variant
      /\ \A w \in DOMAIN variant \ {v} : variant'[w].status = variant[w].status
      /\ \/ variant' = vs
         \/ \E w \in DOMAIN variant : variant'[w].status # "ARCHIVED" /\ variant'[w].default
      /\ target = "ARCHIVED" /\ request[r].default /\ Successors(vs) # {}
           => \E w \in DOMAIN variant : variant'[w].status # "ARCHIVED" /\ variant'[w].default
  BY <1>1, StatusSet
<1>3. ~\E w \in DOMAIN variant : variant'[w].status # "ARCHIVED" /\ variant'[w].default
  BY <1>2 DEF Default, Live, Having
<1> HIDE DEF v
<1>4. /\ DOMAIN vs = DOMAIN variant
      /\ \A w \in DOMAIN variant \ {v} : vs[w] = variant[w]
      /\ vs[v].status = target
      /\ vs[v].default <=> variant[v].default /\ target # "ARCHIVED"
  BY <1>2, Changing DEF IInv
<1> HIDE DEF vs
<1>5. variant' = vs /\ ~(target = "ARCHIVED" /\ request[r].default /\ Successors(vs) # {})
  BY <1>2, <1>3
<1>6. Default \subseteq {v}
  BY <1>3, <1>4, <1>5 DEF Default, Live, Having
<1>7. v \in DOMAIN variant /\ variant[v].default /\ variant[v].status # "ARCHIVED"
  BY <1>6 DEF Default, Live, Having
<1>8. target = "ARCHIVED"
  BY <1>3, <1>4, <1>5, <1>7
<1>9. ~request[r].default
  <2> SUFFICES ASSUME request[r].default
               PROVE  FALSE
    OBVIOUS
  <2>1. Successors(vs) = {}
    BY <1>5, <1>8
  <2>2. \A w \in DOMAIN vs : vs[w].status \notin {"ACTIVE", "INACTIVE"}
    BY <2>1 DEF Successors
  <2>3. \A w \in DOMAIN variant : variant[w].status \in VariantStatus
    BY RowsAreNumbers DEF IInv, Variant
  <2>4. Live \subseteq {v}
    BY <1>4, <2>2, <2>3 DEF Live, Having, VariantStatus
  <2> QED
    BY <1>2, <1>8, <2>4 DEF Needed
<1> QED
  BY <1>7, <1>8, <1>9 DEF v

\* Whenever a live product loses its default variant, that is the work of an archive that
\* had read the variant before it became the default one (create, update, setStatus).
THEOREM DefaultsAreInherited == Spec => DefaultIsHandedOver
<1> DEFINE Orphan == Default # {} /\ Writable /\ Writable' /\ Default' = {}
           Late(r) == /\ request[r].op = "ARCHIVED" /\ request'[r] = None
                      /\ ~request[r].default /\ variant[request[r].on].default
<1>1. ASSUME IInv, Next, Orphan
      PROVE  \E r \in Requests : Late(r)
  <2>1. ~UNCHANGED variant
    BY <1>1 DEF Default, Live, Having
  <2>2. ~CreateProduct /\ ~Archive
    BY <1>1 DEF CreateProduct, Archive, Exists, Writable, IInv, Typed, TypeOK
  <2>3. PICK r \in Requests :
          \/ CreateWrites(r) \/ PromoteWrites(r)
          \/ \E target \in VariantStatus : SetStatusWrites(r, target)
    BY <1>1, <2>1, <2>2
       DEF Next, Serves, VariantStatus, ArchiveCategory, Deactivate, AddValue, StartAssign,
           AssignWrites, StartActivate, ActivateWrites, StartCreate, StartPromote,
           StartSetStatus, StartDelete, DeleteWrites, Fails
  <2>4. PICK target \in VariantStatus : SetStatusWrites(r, target)
    BY <1>1, <2>3, CreationKeepsDefault, PromotionKeepsDefault
  <2>5. target = "ARCHIVED" /\ ~request[r].default /\ variant[request[r].on].default
    BY <1>1, <2>4, StatusOrphans
  <2>6. request[r].op = target /\ request'[r] = None
    BY <1>1, <2>4, EndsOne DEF SetStatusWrites, IInv
  <2> QED
    BY <2>5, <2>6
<1>2. IInv /\ [Next]_vars
        => [Default # {} /\ Writable /\ Writable' /\ Default' = {}
              => \E r \in Requests :
                   /\ request[r].op = "ARCHIVED" /\ request'[r] = None
                   /\ ~request[r].default /\ variant[request[r].on].default]_vars
  BY <1>1
<1> QED
  BY <1>2, CatalogueInvariant, PTL DEF Spec, DefaultIsHandedOver

\* A value that goes is used by no live variant but those that were created after the
\* deletion had counted (deleteOptionValue, deleteOption).
THEOREM ValuesInUseStay == Spec => UsedValuesStay
<1>1. ASSUME IInv, Next, NEW i \in There, ~value'[i].there
      PROVE  \E r \in Requests :
               /\ request[r].op = "delete" /\ request'[r] = None
               /\ \A v \in Users({i}) : v > request[r].those
  <2>1. ~UNCHANGED value
    BY <1>1 DEF There
  <2>2. ~CreateProduct
    <3>1. ASSUME CreateProduct
          PROVE  FALSE
      <4>1. value = <<>>
        BY <1>1, <3>1 DEF CreateProduct, IInv, NothingYet
      <4> QED
        BY <4>1 DEF There
    <3> QED
      BY <3>1
  <2>3. ASSUME NEW name \in ValueNames, AddValue(name)
        PROVE  FALSE
    <3>1. value \in Seq(Value) /\ [name |-> name, there |-> TRUE] \in Value
      BY <1>1, RowsAreNumbers DEF IInv, Value
    <3>2. value'[i] = value[i]
      BY <2>3, <3>1, Appended DEF AddValue, There
    <3> QED
      BY <1>1, <3>2 DEF There
  <2>4. PICK r \in Requests : DeleteWrites(r)
    BY <1>1, <2>1, <2>2, <2>3
       DEF Next, Serves, ArchiveCategory, Deactivate, Archive, StartAssign,
           AssignWrites, StartActivate, ActivateWrites, StartCreate, CreateWrites, StartPromote,
           PromoteWrites, StartSetStatus, SetStatusWrites, StartDelete, Fails
  <2> DEFINE gone == Gone(request[r].on)
  <2>5. /\ request[r].op = "delete" /\ Ends(r)
        /\ value' = [j \in DOMAIN value |-> [value[j] EXCEPT !.there = @ /\ j \notin gone]]
    BY <2>4 DEF DeleteWrites, Gone
  <2> HIDE DEF gone
  <2>6. i \in gone
    BY <1>1, <2>5, Deleting DEF IInv, There
  <2>7. \A v \in Live : v <= request[r].those => variant[v].value \notin gone
    BY <1>1, <2>5 DEF IInv, ReadsHold, InFlight, gone
  <2>8. request[r].those \in Nat /\ DOMAIN variant \subseteq Nat
    BY <1>1, RowsAreNumbers DEF IInv, Typed, Request
  <2>9. \A v \in Users({i}) : v > request[r].those
    BY <2>6, <2>7, <2>8 DEF Users, Live
  <2>10. request'[r] = None
    BY <1>1, <2>5, EndsOne DEF IInv
  <2> QED
    BY <2>5, <2>9, <2>10
<1>2. IInv /\ [Next]_vars
        => [\A i \in There : ~value'[i].there
              => \E r \in Requests :
                   /\ request[r].op = "delete" /\ request'[r] = None
                   /\ \A v \in Users({i}) : v > request[r].those]_vars
  BY <1>1
<1> QED
  BY <1>2, CatalogueInvariant, PTL DEF Spec, UsedValuesStay
===============================================================================
