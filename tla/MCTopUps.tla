-------------------------------- MODULE MCTopUps --------------------------------
\* Model values for TLC.
EXTENDS TopUps

CONSTANTS t1, t2
=============================================================================
