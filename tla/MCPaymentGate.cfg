\* Two requests, two authorizations (one with a deadline), one registry slot.
CONSTANTS
    r1 = r1
    r2 = r2
    k1 = k1
    k2 = k2
    Requests <- MCRequests
    Keys <- MCKeys
    Deadline <- MCDeadline
    MaxEntries = 1
    SettledCap = 3
    SweepInterval = 2
    VerifyTimeout = 1
    MineDelay = 0
    MaxTime = 3
    NoKey = NoKey
SPECIFICATION Spec
SYMMETRY Symmetric
INVARIANTS
    TypeOK
    OneRequestPerAuthorization
    NeverChargedForNothing
PROPERTIES
    ReceiptedForwardedOnlyPastDeadline
    ImplementsPaidCalls
