------------------------ MODULE MCPurchaseLifecycle ------------------------
\* Instances of PurchaseLifecycle for TLC.
EXTENDS PurchaseLifecycle, TLC

CONSTANTS alpha, beta, qwen

\* Every purchase buys the same model, the case the ownership rules are about.
OneModel == [p \in Purchases |-> qwen]

VoucherSymmetry == Permutations(Vouchers)
PurchaseSymmetry == Permutations(Purchases) \cup VoucherSymmetry
=============================================================================
