--------------------------- MODULE MCPaymentGate ---------------------------
(* Instances of PaymentGate for TLC. *)
EXTENDS PaymentGate, TLC

CONSTANTS r1, r2, k1, k2

MCRequests == {r1, r2}
MCKeys == {k1, k2}

\* k1 expires while the run lasts, k2 carries no deadline.
MCDeadline == [k \in MCKeys |-> IF k = k1 THEN 2 ELSE 0]

\* Requests are interchangeable: no action or property names one.
Symmetric == Permutations(MCRequests)
=============================================================================
