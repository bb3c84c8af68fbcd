SPECIFICATION FairSpec
CONSTANTS
    alpha = alpha
    beta = beta
    qwen = qwen
    Purchases = {alpha}
    Models = {qwen}
    ModelOf <- OneModel
    Vouchers = {v1, v2}
    Workers = 1
    MaxEdits = 1
    MaxFaults = 0
    MaxOutages = 1
    MaxCrashes = 1
INVARIANTS
    ConfiguredPoolIsWritten
    
PROPERTY DeletionRunsItsCourse
