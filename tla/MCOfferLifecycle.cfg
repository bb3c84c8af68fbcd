\* Safety: two workers, hostnames, an agent offer, hostnames and limits edited.
SPECIFICATION Spec
CONSTANTS
    alpha = alpha
    beta = beta
    Offers = {alpha, beta}
    AgentOffers = {beta}
    Limited = {alpha, beta}
    Rank <- RankOf
    Paths = {p}
    Reserved = {}
    Hosts = {h}
    NoHost = none
    Workers = 2
    Editable = {"limits"}
    MaxEvents <- EventsOf
INVARIANTS OfferInv ReadyIsRouted
PROPERTIES RichBundleIsKept
CHECK_DEADLOCK FALSE
