SPECIFICATION MCSpec
CONSTANTS
    Offers = {"o1", "o2"}
    Base <- MCBase
    Order <- MCOrder
    Tables <- MCTables
    Kind <- MCKind
    UnlockOffer = "o2"
    Paths <- MCPaths
    Requests = {"r1", "r2"}
    Wallets = {"w1"}
    Messages = {"m1", "m2"}
    Signer <- MCSigner
    Issued <- MCIssued
    Expires <- MCExpires
    Window = 1
    Skew = 1
    SessionTTL = 1
    DayLength = 2
    NonceCacheMax = 2
    FreeOffer = "o1"
    FreeQuota = 1
    MaxTime = 3
    MaxChanges = 2
    MaxRestarts = 1
    Jobs = {"j1", "j2"}
    JobWallets = {"w1"}
    Visibility <- MCVisibility
    HasCallback <- MCHasCallback
    JobTTL = 1
    Attempts = 2
    MaxJobTime = 2
    MaxJobFaults = 1
INVARIANTS
    LimitsHold
    TableFollowsStore
    UndeclaredIsRefused
    AdvertisedIsEnforced
    
CHECK_DEADLOCK FALSE
