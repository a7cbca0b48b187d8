------------------------------ MODULE MCTenancy ------------------------------
\* Instances of Tenancy: members of one organization.
EXTENDS Tenancy, TLC

CONSTANTS alice, bob, carol, r1, r2

\* Requests are interchangeable.
Alike == Permutations(Requests)

=============================================================================
