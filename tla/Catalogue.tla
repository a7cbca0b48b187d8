------------------------------ MODULE Catalogue ------------------------------
(***************************************************************************)
(* A product of a shop with its variants and its option (ProductsService,  *)
(* VariantsService), and the categories it may be put in                   *)
(* (CategoriesService).                                                    *)
(*                                                                         *)
(* A request reads the product, then writes in one transaction that locks  *)
(* its row (lockProductRow) or asks again for the status it relies on.     *)
(* What the reads told may be out of date by then: members of the shop     *)
(* work at the same time.                                                  *)
(*                                                                         *)
(* Names, prices, codes, images and stock are left out, and so are the     *)
(* requests that change nothing else.  A product has one option at most;   *)
(* two variants have the same combination when they have the same value    *)
(* of it.  The shop is never archived here.                                *)
(***************************************************************************)
EXTENDS Naturals, Sequences, FiniteSets, Functions

CONSTANTS Requests,    \* requests served at the same time
          Categories,  \* categories of the shop
          ValueNames,  \* how a value of the option may be called
          NoCategory,  \* of a product that is in none
          MaxVariants, \* variants that may be created
          MaxValues    \* values that may be created

ASSUME CatalogueAssumption ==
  /\ NoCategory \notin Categories
  /\ MaxVariants \in Nat \ {0}
  /\ MaxValues \in Nat

VARIABLES product,   \* [status, category]; status "none" before it is created
          option,    \* the product has an option
          value,     \* value[i]: [name, there], the values the option has had, by age
          variant,   \* variant[v]: [status, default, value], value 0 for none, by age
          category,  \* category[c]: its status
          request    \* request[r]: what request r has read, and what it will write

vars == <<product, option, value, variant, category, request>>

None == [op |-> "none", on |-> 0, seen |-> "none", default |-> FALSE, category |-> NoCategory,
         those |-> 0]

Init ==
  /\ product = [status |-> "none", category |-> NoCategory]
  /\ option = FALSE
  /\ value = <<>>
  /\ variant = <<>>
  /\ category = [c \in Categories |-> "ACTIVE"]
  /\ request = [r \in Requests |-> None]

Exists == product.status # "none"
Writable == product.status \in {"DRAFT", "ACTIVE", "INACTIVE"}
Having(status) == {v \in DOMAIN variant : variant[v].status = status}
Live == DOMAIN variant \ Having("ARCHIVED")
Default == {v \in Live : variant[v].default}
There == {i \in DOMAIN value : value[i].there}

\* The combination of a variant: the name of its value.
Combination(i) == IF i = 0 THEN <<>> ELSE <<value[i].name>>

Starts(r, q) == request[r] = None /\ request' = [request EXCEPT ![r] = q]
Ends(r) == request' = [request EXCEPT ![r] = None]

-----------------------------------------------------------------------------
(* createFull: the product, its option and its first variants at once, one *)
(* of which is the default.  The category was not archived when it was     *)
(* looked at; it may be by now.                                            *)

CreateProduct ==
  /\ ~Exists
  /\ \E c \in Categories \cup {NoCategory} :
       product' = [status |-> "DRAFT", category |-> c]
  /\ \E n \in 0..MaxValues, m \in 1..MaxVariants :
     \E names \in [1..n -> ValueNames], of \in [1..m -> IF n = 0 THEN {0} ELSE 1..n] :
       /\ IsInjective(names) /\ IsInjective(of)
       /\ option' = (n > 0)
       /\ value' = [i \in 1..n |-> [name |-> names[i], there |-> TRUE]]
       /\ \E default \in 1..m :
            variant' = [v \in 1..m |-> [status |-> "ACTIVE", default |-> v = default, value |-> of[v]]]
  /\ UNCHANGED <<category, request>>

-----------------------------------------------------------------------------
(* Categories.  The update asks for what the request has read, so that one *)
(* step tells it all; ACTIVE stands for INACTIVE too, which makes no       *)
(* difference to products.                                                 *)

ArchiveCategory(c) ==
  /\ category[c] # "ARCHIVED"
  /\ category' = [category EXCEPT ![c] = "ARCHIVED"]
  /\ UNCHANGED <<product, option, value, variant, request>>

-----------------------------------------------------------------------------
(* The product.                                                            *)

\* update: another category, or none.
StartAssign(r, c) ==
  /\ Writable
  /\ c \in Categories => category[c] # "ARCHIVED"
  /\ Starts(r, [None EXCEPT !.op = "assign", !.category = c])
  /\ UNCHANGED <<product, option, value, variant, category>>

AssignWrites(r) ==
  /\ request[r].op = "assign"
  /\ product' = IF Writable THEN [product EXCEPT !.category = request[r].category] ELSE product
  /\ Ends(r)
  /\ UNCHANGED <<option, value, variant, category>>

\* activate remembers the category that it read.
StartActivate(r) ==
  /\ product.status \in {"DRAFT", "INACTIVE"}
  /\ Starts(r, [None EXCEPT !.op = "activate", !.category = product.category])
  /\ UNCHANGED <<product, option, value, variant, category>>

Sellable(c) == Having("ACTIVE") # {} /\ (c \in Categories => category[c] # "ARCHIVED")

ActivateWrites(r) ==
  /\ request[r].op = "activate"
  /\ product' = IF Sellable(request[r].category) /\ product.status \in {"DRAFT", "INACTIVE"}
                THEN [product EXCEPT !.status = "ACTIVE"] ELSE product
  /\ Ends(r)
  /\ UNCHANGED <<option, value, variant, category>>

\* deactivate relies on nothing that it read.
Deactivate ==
  /\ product.status = "ACTIVE"
  /\ product' = [product EXCEPT !.status = "INACTIVE"]
  /\ UNCHANGED <<option, value, variant, category, request>>

\* archive does not either: the product, and with it every variant.
Archive ==
  /\ Writable
  /\ product' = [product EXCEPT !.status = "ARCHIVED"]
  /\ variant' = [v \in DOMAIN variant |->
                   IF v \in Live
                   THEN [variant[v] EXCEPT !.status = "ARCHIVED", !.default = FALSE]
                   ELSE variant[v]]
  /\ UNCHANGED <<option, value, category, request>>

-----------------------------------------------------------------------------
(* Variants.                                                               *)

\* The partial unique indexes: one default, one live variant of a combination.
OneDefault(vs) == Cardinality({v \in DOMAIN vs : vs[v].status # "ARCHIVED" /\ vs[v].default}) <= 1
OneOfEach(vs) ==
  \A v, w \in DOMAIN vs :
    /\ vs[v].status # "ARCHIVED" /\ vs[w].status # "ARCHIVED"
    /\ Combination(vs[v].value) = Combination(vs[w].value)
    => v = w

\* The transaction leaves the variants as vs, unless an index refuses.
Writes(vs) == variant' = IF OneDefault(vs) /\ OneOfEach(vs) THEN vs ELSE variant

Demoted == [v \in DOMAIN variant |-> [variant[v] EXCEPT !.default = FALSE]]

\* create: one of the values that the option has by now must be chosen.
StartCreate(r, i, default) ==
  /\ Writable
  /\ i \in IF option THEN There ELSE {0}
  /\ Starts(r, [None EXCEPT !.op = "create", !.on = i, !.default = default])
  /\ UNCHANGED <<product, option, value, variant, category>>

\* The value must still be there, by the foreign key; nobody looks at the product again.
CreateWrites(r) ==
  /\ request[r].op = "create"
  /\ LET q == request[r] IN
     IF q.on # 0 /\ q.on \notin There
     THEN UNCHANGED variant
     ELSE /\ Len(variant) < MaxVariants
          /\ Writes(Append(IF q.default THEN Demoted ELSE variant,
                           [status |-> "ACTIVE", default |-> q.default, value |-> q.on]))
  /\ Ends(r)
  /\ UNCHANGED <<product, option, value, category>>

\* update with isDefault: a variant that was not the default one takes over.
StartPromote(r, v) ==
  /\ Writable
  /\ v \in Live
  /\ ~variant[v].default
  /\ Starts(r, [None EXCEPT !.op = "promote", !.on = v])
  /\ UNCHANGED <<product, option, value, variant, category>>

\* If it was archived meanwhile, the demotion of the others is undone.  Mutant: it is not.
PromotedAnyway(v) ==
  [Demoted EXCEPT ![v].default = variant[v].status # "ARCHIVED"]
Promoted(v) ==
  IF v \in Live THEN [Demoted EXCEPT ![v].default = TRUE] ELSE variant

PromoteWrites(r) ==
  /\ request[r].op = "promote"
  /\ Writes(Promoted(request[r].on))
  /\ Ends(r)
  /\ UNCHANGED <<product, option, value, category>>

\* activate, deactivate, archive: setStatus, which remembers the status of the variant
\* and whether it was the default one.
StartSetStatus(r, v, target) ==
  /\ Writable
  /\ variant[v].status \notin {"ARCHIVED", target}
  /\ Starts(r, [None EXCEPT !.op = target, !.on = v, !.seen = variant[v].status,
                            !.default = variant[v].default])
  /\ UNCHANGED <<product, option, value, variant, category>>

\* The variant may not be spared, as the product stands under its lock: the last ACTIVE
\* one of an ACTIVE product, the last live one of any.  Mutant: the last live one may.
NeededOnSale(v, seen, target) ==
  /\ target # "ACTIVE" /\ seen = "ACTIVE"
  /\ product.status = "ACTIVE"
  /\ Having("ACTIVE") \subseteq {v}
Needed(v, seen, target) ==
  \/ /\ target # "ACTIVE" /\ seen = "ACTIVE"
     /\ product.status = "ACTIVE"
     /\ Having("ACTIVE") \subseteq {v}
  \/ target = "ARCHIVED" /\ Live \subseteq {v}

\* Who takes over when the default variant is archived: the first ACTIVE one, or else
\* INACTIVE; sortOrder may put any first.
Successors(vs) ==
  LET In(status) == {w \in DOMAIN vs : vs[w].status = status} IN
  IF In("ACTIVE") # {} THEN In("ACTIVE") ELSE In("INACTIVE")

SetStatusWrites(r, target) ==
  /\ request[r].op = target
  /\ LET q == request[r]
         v == q.on
         changed == [variant EXCEPT ![v].status = target,
                                    ![v].default = @ /\ target # "ARCHIVED"]
     IN  IF Needed(v, q.seen, target) \/ variant[v].status # q.seen
         THEN UNCHANGED variant
         ELSE IF target = "ARCHIVED" /\ q.default /\ Successors(changed) # {}
         THEN \E w \in Successors(changed) : Writes([changed EXCEPT ![w].default = TRUE])
         ELSE Writes(changed)
  /\ Ends(r)
  /\ UNCHANGED <<product, option, value, category>>

-----------------------------------------------------------------------------
(* The values of the option.                                               *)

\* addOptionValue: a new value, named as no other by now.
AddValue(name) ==
  /\ Writable /\ option
  /\ Len(value) < MaxValues
  /\ \A i \in There : value[i].name # name
  /\ value' = Append(value, [name |-> name, there |-> TRUE])
  /\ UNCHANGED <<product, option, variant, category, request>>

\* Variants that count as users of the values I.  Mutant: only those on sale do.
UsersOnSale(I) == {v \in Having("ACTIVE") : variant[v].value \in I}
Users(I) == {v \in Live : variant[v].value \in I}

\* deleteOptionValue and deleteOption (i = 0) count the live variants that use what is to
\* go, before their transaction.
StartDelete(r, i) ==
  /\ Writable /\ option
  /\ Users(IF i = 0 THEN There ELSE {i}) = {}
  /\ Starts(r, [None EXCEPT !.op = "delete", !.on = i, !.those = Len(variant)])
  /\ UNCHANGED <<product, option, value, variant, category>>

\* What uses it by now loses its link (ON DELETE CASCADE).
DeleteWrites(r) ==
  /\ request[r].op = "delete"
  /\ LET gone == IF request[r].on = 0 THEN There ELSE {request[r].on} IN
     value' = [i \in DOMAIN value |-> [value[i] EXCEPT !.there = @ /\ i \notin gone]]
  /\ option' = (option /\ request[r].on # 0)
  /\ Ends(r)
  /\ UNCHANGED <<product, variant, category>>

-----------------------------------------------------------------------------
\* A request fails: a deadlock, an error of the audit, the end of the process.
Fails(r) ==
  /\ request[r] # None
  /\ Ends(r)
  /\ UNCHANGED <<product, option, value, variant, category>>

Serves(r) ==
  \/ \E c \in Categories \cup {NoCategory} : StartAssign(r, c)
  \/ AssignWrites(r)
  \/ StartActivate(r) \/ ActivateWrites(r)
  \/ \E i \in 0..Len(value), default \in BOOLEAN : StartCreate(r, i, default)
  \/ CreateWrites(r)
  \/ \E v \in DOMAIN variant :
       \/ StartPromote(r, v)
       \/ \E target \in {"ACTIVE", "INACTIVE", "ARCHIVED"} : StartSetStatus(r, v, target)
  \/ PromoteWrites(r)
  \/ \E target \in {"ACTIVE", "INACTIVE", "ARCHIVED"} : SetStatusWrites(r, target)
  \/ \E i \in {0} \cup There : StartDelete(r, i)
  \/ DeleteWrites(r)
  \/ Fails(r)

Next ==
  \/ CreateProduct
  \/ \E c \in Categories : ArchiveCategory(c)
  \/ Deactivate
  \/ Archive
  \/ \E name \in ValueNames : AddValue(name)
  \/ \E r \in Requests : Serves(r)

Spec == Init /\ [][Next]_vars

-----------------------------------------------------------------------------
(* Properties.                                                             *)

TypeOK ==
  /\ product \in [status : {"none", "DRAFT", "ACTIVE", "INACTIVE", "ARCHIVED"},
                  category : Categories \cup {NoCategory}]
  /\ option \in BOOLEAN
  /\ value \in Seq([name : ValueNames, there : BOOLEAN])
  /\ variant \in Seq([status : {"ACTIVE", "INACTIVE", "ARCHIVED"}, default : BOOLEAN,
                      value : 0..Len(value)])
  /\ category \in [Categories -> {"ACTIVE", "ARCHIVED"}]

\* Every value has its type; and whatever is activated, deactivated and archived at the
\* same time, an ACTIVE product keeps a variant on sale and a live product a live variant
\* ("impossible d'activer pendant que la derniere variante ACTIVE est desactivee en
\* parallele", products.service).
ProductsCanBeSold ==
  /\ TypeOK
  /\ product.status = "ACTIVE" => Having("ACTIVE") # {}
  /\ Writable => Live # {}

\* A live product that has a default variant loses it only to an archive of a variant
\* that has become the default one since the request read it: neither a promotion that
\* fails halfway nor a race of promotions and archives leaves it without (setStatus,
\* update).
DefaultIsHandedOver ==
  [][Default # {} /\ Writable /\ Writable' /\ Default' = {}
       => \E r \in Requests :
            /\ request[r].op = "ARCHIVED" /\ request'[r] = None
            /\ ~request[r].default /\ variant[request[r].on].default]_vars

\* A value goes only when no live variant has it, but those that were created after the
\* request had counted them: no archived variant comes back, and none changes its value
\* ("REFUSEE tant qu'une variante NON ARCHIVEE l'utilise", variants.service).
UsedValuesStay ==
  [][\A i \in There : ~value'[i].there
       => \E r \in Requests :
            /\ request[r].op = "delete" /\ request'[r] = None
            /\ \A v \in Users({i}) : v > request[r].those]_vars
=============================================================================
