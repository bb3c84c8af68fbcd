--------------------------- MODULE MCRegistration ---------------------------
\* Instances of Registration for TLC.
EXTENDS Registration

CONSTANTS alpha, beta

RankOf == [o \in Offers |-> IF o = alpha THEN 1 ELSE 2]
=============================================================================
