-------------------------------- MODULE Shops --------------------------------
(***************************************************************************)
(* The shops of an organization (ShopsService), one of which is primary.   *)
(*                                                                         *)
(* A request reads what it needs, then writes in one transaction whose     *)
(* updates are conditional; the requests of several members interleave.    *)
(* The partial unique index shops_one_primary_per_org has the last word on *)
(* which shop is primary.  A request may also die between its steps.       *)
(*                                                                         *)
(* Shops are numbered by age.  What a shop holds besides (names, slugs,    *)
(* addresses, the fields that activation asks for) is left out: update,    *)
(* which changes only those, and list are no step of this model.           *)
(***************************************************************************)
EXTENDS Naturals, Sequences, FiniteSets

CONSTANTS Requests,  \* requests served at the same time
          MaxShops   \* shops that may be created

ASSUME ShopsAssumption == MaxShops \in Nat \ {0}

VARIABLES shop,     \* shop[s]: [status, primary]
          request   \* request[r]: what request r has read, and where it stands

None == [op |-> "none", at |-> "none", on |-> 0, seen |-> "none", primary |-> FALSE, next |-> 0,
         these |-> {}]

\* ALLOWED_TRANSITIONS; ARCHIVED is terminal.
Allowed(from) ==
  CASE from \in {"DRAFT", "INACTIVE"} -> {"ACTIVE", "ARCHIVED"}
    [] from = "ACTIVE"                -> {"INACTIVE", "ARCHIVED"}
    [] OTHER                          -> {}

Live == {s \in DOMAIN shop : shop[s].status # "ARCHIVED"}
Primary == {s \in Live : shop[s].primary}

\* The partial unique index, for the shops that would be live and primary.  Mutant:
\* the table without it.
NoIndex(primary) == TRUE
IndexAllows(primary) == Cardinality(primary) <= 1

ShopsInit == shop = <<>> /\ request = [r \in Requests |-> None]

At(r, op, at) == request[r].op = op /\ request[r].at = at

Starts(r, q) == request[r] = None /\ request' = [request EXCEPT ![r] = q]

Ends(r) == request' = [request EXCEPT ![r] = None]

\* The row of shop s is locked by an archive that has not committed.
Locked(s) == \E r \in Requests : At(r, "archive", "promote") /\ request[r].on = s

-----------------------------------------------------------------------------
(* create.                                                                 *)

\* The first live shop of the organization wants to be primary.
StartCreate(r) ==
  /\ Len(shop) < MaxShops
  /\ Starts(r, [None EXCEPT !.op = "create", !.at = "write", !.primary = Primary = {}])
  /\ UNCHANGED shop

\* If another creation was faster, it tries again without.
CreateWrites(r) ==
  /\ At(r, "create", "write")
  /\ LET wanted == request[r].primary IN
     IF wanted /\ ~IndexAllows(Primary \cup {Len(shop) + 1})
     THEN request' = [request EXCEPT ![r].primary = FALSE] /\ UNCHANGED shop
     ELSE /\ Len(shop) < MaxShops
          /\ shop' = Append(shop, [status |-> "DRAFT", primary |-> wanted])
          /\ Ends(r)

-----------------------------------------------------------------------------
(* activate, deactivate.                                                   *)

StartTransition(r, s, to) ==
  /\ to \in Allowed(shop[s].status) \ {"ARCHIVED"}
  /\ Starts(r, [None EXCEPT !.op = to, !.at = "write", !.on = s, !.seen = shop[s].status])
  /\ UNCHANGED shop

\* The update asks for the status that was read.
StillHas(s, seen) == shop[s].status = seen

TransitionWrites(r, to) ==
  /\ At(r, to, "write")
  /\ LET s == request[r].on IN
     /\ ~Locked(s)
     /\ shop' = IF StillHas(s, request[r].seen) THEN [shop EXCEPT ![s].status = to] ELSE shop
  /\ Ends(r)

-----------------------------------------------------------------------------
(* setPrimary.                                                             *)

StartSetPrimary(r, s) ==
  /\ shop[s].status # "ARCHIVED"
  /\ ~shop[s].primary
  /\ Starts(r, [None EXCEPT !.op = "setPrimary", !.at = "write", !.on = s])
  /\ UNCHANGED shop

\* Every other shop is demoted and this one promoted.  Mutant: the demotion is kept
\* when there is nothing to promote.
HandOverAnyway(s) ==
  [t \in DOMAIN shop |-> [shop[t] EXCEPT !.primary = t = s /\ shop[s].status # "ARCHIVED"]]
HandOver(s) ==
  IF shop[s].status = "ARCHIVED" THEN shop
  ELSE [t \in DOMAIN shop |-> [shop[t] EXCEPT !.primary = t = s]]

SetPrimaryWrites(r) ==
  /\ At(r, "setPrimary", "write")
  /\ \A s \in {request[r].on} \cup Primary : ~Locked(s)
  /\ shop' = HandOver(request[r].on)
  /\ Ends(r)

-----------------------------------------------------------------------------
(* archive.                                                                *)

StartArchive(r, s) ==
  /\ shop[s].status # "ARCHIVED"
  /\ Starts(r, [None EXCEPT !.op = "archive", !.at = "write", !.on = s,
                            !.primary = shop[s].primary])
  /\ UNCHANGED shop

\* findPromotionCandidate: the oldest ACTIVE shop, or else INACTIVE, or else DRAFT;
\* 0 if there is none.
Candidate(s) ==
  LET Having(status) == {t \in DOMAIN shop \ {s} : shop[t].status = status}
      Oldest(S) == CHOOSE t \in S : \A u \in S : t <= u
  IN  CASE Having("ACTIVE") # {}   -> Oldest(Having("ACTIVE"))
        [] Having("INACTIVE") # {} -> Oldest(Having("INACTIVE"))
        [] Having("DRAFT") # {}    -> Oldest(Having("DRAFT"))
        [] OTHER                   -> 0

\* The shop is archived, which locks its row, and a successor is looked for if the shop
\* was primary when it was read.
ArchiveWrites(r) ==
  /\ At(r, "archive", "write")
  /\ LET s == request[r].on IN
     /\ ~Locked(s)
     /\ IF shop[s].status = "ARCHIVED"
        THEN Ends(r)
        ELSE request' = [request EXCEPT ![r].at = "promote",
                           ![r].next = IF request[r].primary THEN Candidate(s) ELSE 0]
  /\ UNCHANGED shop

\* The successor is promoted, whatever has become of it, and the transaction commits;
\* unless the index refuses.
Archived(s, next) ==
  [t \in DOMAIN shop |->
     [status  |-> IF t = s THEN "ARCHIVED" ELSE shop[t].status,
      primary |-> IF t = s THEN FALSE ELSE shop[t].primary \/ t = next]]

ArchiveCommits(r) ==
  /\ At(r, "archive", "promote")
  /\ LET s == request[r].on
         after == Archived(s, request[r].next)
     IN  /\ request[r].next = 0 \/ ~Locked(request[r].next)
         /\ shop' = IF IndexAllows({t \in Live \ {s} : after[t].primary}) THEN after ELSE shop
  /\ Ends(r)

-----------------------------------------------------------------------------
\* A request fails: a write conflict, an error of the audit, the end of the process.
Fails(r) ==
  /\ request[r] # None
  /\ Ends(r)
  /\ UNCHANGED shop

ShopSteps(r) ==
  \/ StartCreate(r) \/ CreateWrites(r)
  \/ \E s \in DOMAIN shop :
       \/ \E to \in {"ACTIVE", "INACTIVE"} : StartTransition(r, s, to)
       \/ StartSetPrimary(r, s)
       \/ StartArchive(r, s)
  \/ \E to \in {"ACTIVE", "INACTIVE"} : TransitionWrites(r, to)
  \/ SetPrimaryWrites(r)
  \/ ArchiveWrites(r) \/ ArchiveCommits(r)

=============================================================================
