-------------------------- MODULE MCOfferLifecycle --------------------------
\* Instances of OfferLifecycle for TLC.
EXTENDS OfferLifecycle

CONSTANTS alpha, beta

RankOf == [o \in Offers |-> IF o = alpha THEN 1 ELSE 2]

\* Each offer alone goes through two events, the two together through one.
EventsOf == [used \in SUBSET Offers |->
    CASE used = {} -> 0 [] used = Offers -> 1 [] OTHER -> 2]
=============================================================================
