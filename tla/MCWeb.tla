---------------------------------- MODULE MCWeb ----------------------------------
(***************************************************************************)
(* The sessions of a browser and its sockets.  The two do not act on each  *)
(* other, so that a behaviour exercises one of them while the other rests. *)
(***************************************************************************)
EXTENDS Browser, Gateway

CONSTANTS a, b, elsewhere

VARIABLE part

webVars == <<vars, gatewayVars, part>>

\* Signed out, with nothing under way.
BrowserRests ==
  /\ ApiInit
  /\ tab = [t \in Tabs |-> [Loading EXCEPT !.status = "unauthenticated", !.callers = {}]]
  /\ cookie = 0 /\ lock = Free /\ channel = [t \in Tabs |-> <<>>] /\ aged = {} /\ faults = 0

\* No page is open.
GatewayRests ==
  access = "LEFT" /\ evicting = FALSE /\ socket = [s \in Sockets |-> "CLOSED"] /\ lapses = 0

WebInit ==
  \/ part = "tabs"    /\ Init         /\ GatewayRests
  \/ part = "sockets" /\ BrowserRests /\ GatewayInit

WebNext ==
  /\ UNCHANGED part
  /\ \/ part = "tabs"    /\ Next        /\ UNCHANGED gatewayVars
     \/ part = "sockets" /\ GatewayNext /\ UNCHANGED vars

\* What rests has no fair step to take.
WebSpec == WebInit /\ [][WebNext]_webVars /\ Fairness /\ GatewayFairness
==================================================================================
