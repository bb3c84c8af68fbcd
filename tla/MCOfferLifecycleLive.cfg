\* Liveness: one worker, no hostnames.
SPECIFICATION FairSpec
CONSTANTS
    alpha = alpha
    beta = beta
    Offers = {alpha, beta}
    AgentOffers = {beta}
    Limited = {}
    Rank <- RankOf
    Paths = {p, api}
    Reserved = {api}
    Hosts = {}
    NoHost = none
    Workers = 1
    Editable = {"drain", "path", "model"}
    MaxEvents <- EventsOf
PROPERTY OffersConverge
CHECK_DEADLOCK FALSE
