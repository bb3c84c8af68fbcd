\* Safety: two offers, two chains, two origins.
SPECIFICATION Spec
CONSTANTS
    alpha = alpha
    beta = beta
    Offers = {alpha, beta}
    Rank <- RankOf
    ColdPayee = {}
    Chains = {base, main}
    HomeChain = base
    URLs = {u1, u2}
    Enabled = {alpha, beta}
    MaxTokens = 2
    MaxEvents = 2
    LegacyEvents = 2
INVARIANTS RegistrationInv OneMintPerRun
PROPERTIES RecordSurvives
CHECK_DEADLOCK FALSE
