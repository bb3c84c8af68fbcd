SPECIFICATION Spec
CONSTANTS
    alpha = alpha
    beta = beta
    qwen = qwen
    Purchases = {alpha, beta}
    Models = {qwen}
    ModelOf <- OneModel
    Vouchers = {v1}
    Workers = 2
    MaxEdits = 0
    MaxFaults = 1
    MaxOutages = 0
    MaxCrashes = 0
SYMMETRY PurchaseSymmetry
INVARIANT TypeOK
INVARIANT OneOwnerPerModel
PROPERTY AliasNeverPulledFromOwner
