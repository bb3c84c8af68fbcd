-------------------------- MODULE MCVoucherSidecar --------------------------
(* Instance of VoucherSidecar for TLC. *)
EXTENDS VoucherSidecar, TLC

CONSTANTS r1, r2, s1, s2

MCRequests == {r1, r2}

\* The signer in use and the one a reload builds beside it.
MCSigners == {s1, s2}

\* Requests and signers are interchangeable: no action or invariant names one.
Symmetric == Permutations(MCRequests) \cup Permutations(MCSigners)
=============================================================================
