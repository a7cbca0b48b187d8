---------------------------------- MODULE MCShop ----------------------------------
(***************************************************************************)
(* The shops of one organization, the first of which has channels, and a   *)
(* message in the thread that an agent of the shop looks at.  The two do   *)
(* not act on each other, so that a behaviour exercises one of them while  *)
(* the other rests.  The thread takes the statuses of its row in any order *)
(* that the shared table allows.                                           *)
(***************************************************************************)
EXTENDS Channels, Thread, TLC

CONSTANTS r1, r2, fb

VARIABLE part

shopVars == <<vars, threadVars, part>>

\* No shop exists, and the page waits for its thread.
ShopInit ==
  /\ Init /\ ThreadInit
  /\ part \in {"shops", "thread"} /\ (part = "shops" => own)

ShopNext ==
  /\ UNCHANGED part
  /\ \/ part = "shops"  /\ Next       /\ UNCHANGED threadVars
     \/ part = "thread" /\ ThreadNext /\ UNCHANGED vars

ShopSpec == ShopInit /\ [][ShopNext]_shopVars

\* Requests are interchangeable.
Alike == Permutations(Requests)

\* Bound: the more shops, the fewer channels.
Small == Len(shop) + Len(channel) <= 4

\* Bound: events that were told and not heard yet.
FewEvents == Cardinality(events) <= 2
===================================================================================
