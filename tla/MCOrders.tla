-------------------------------- MODULE MCOrders --------------------------------
\* Model values for TLC.
EXTENDS Orders, TLC

CONSTANTS k1, k2, c1, c2, v1, v2

\* Two carts of different conversations.
Apart == [k \in {k1, k2} |-> IF k = k1 THEN c1 ELSE c2]

OneEach == [k \in {k1, k2} |-> {v1}]

\* One cart with two lines.
Two == [k \in {k1} |-> {v1, v2}]

Alone == [k \in {k1} |-> c1]

\* The two carts may change places if their conversations do.
Alike ==
  {p \in Permutations({k1, k2, c1, c2}) :
     \A k \in {k1, k2} : p[k] \in {k1, k2} /\ p[Apart[k]] = Apart[p[k]]}
=============================================================================
