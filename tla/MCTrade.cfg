SPECIFICATION TradeSpec
CONSTANTS
    SoldOffers = {1, 2}
    PlainOffers = {1}
    Paths = {1, 2}
    NoOffer = NoOffer
    ByAgent = ByAgent
    MaxSellCmds = 4
    MaxSellFaults = 2
    CloudModel = CloudModel
    LocalModel = LocalModel
    OllamaModel = OllamaModel
    PaidModel = PaidModel
    CatchAll = CatchAll
    NoRoutes = NoRoutes
    MaxModelCmds = 3
    MaxModelFaults = 1
    DocKeys <- MCDocKeys
    NoDoc = NoDoc
    MaxRPCCmds = 4
    MaxRPCFaults = 2
    Buys = {1}
    MaxRecordCmds = 3
    MaxRecordFaults = 1
    PerUnit = 2
    TopPrice = 3
    Catalogs <- MCCatalogs
    MaxAuthCount = 3
    NoPurchase = NoPurchase
    MaxOrders = 2
    MaxRefills = 1
    MaxMoves = 1
INVARIANTS SellInv ModelInv RPCInv RecordsInv 
CHECK_DEADLOCK FALSE
