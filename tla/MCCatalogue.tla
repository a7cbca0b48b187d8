----------------------------- MODULE MCCatalogue -----------------------------
\* Instances of Catalogue: one product.
EXTENDS Catalogue, TLC

CONSTANTS r1, r2, c1, small, large, none

\* Requests are interchangeable, and so are names.
Alike == Permutations(Requests) \cup Permutations(ValueNames)
=============================================================================
