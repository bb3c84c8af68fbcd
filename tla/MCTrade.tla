--------------------------- MODULE MCTrade ---------------------------
(***************************************************************************)
(* Instance of what the CLI does to sell and to buy: the offers' ledger,   *)
(* the models, the RPC routes, the seller's records and the orders of a    *)
(* buyer.  None reads the state of another, so a behaviour follows one.    *)
(***************************************************************************)
EXTENDS SellLedger, ModelRoutes, RPCRouting, SellerRecords, BuyOrder

VARIABLE focus \* the part a behaviour follows

MCDocKeys == {{"base", "extra"}, {"custom"}}

Listing(t, n, p) == [type |-> t, named |-> n, place |-> p]
MCCatalogs == {{Listing("inference", TRUE, "relative"), Listing("agent", FALSE, "origin")},
               {Listing("inference", TRUE, "public"), Listing("inference", FALSE, "elsewhere")},
               {Listing("agent", TRUE, "origin")}}

TradeInit ==
    /\ focus \in {"sell", "models", "rpc", "records", "buy"}
    /\ SellInit /\ ModelInit /\ RPCInit /\ RecordsInit /\ BuyInit
    \* between a cheaper and a dearer price
    /\ quoted.price = 2
    \* the parts that are not followed start in one state
    /\ focus # "sell" => demos = {} /\ legacy = {}
    /\ focus # "models" => hostKey = 0 /\ ~portUp
    /\ focus # "records" => payRec = 0 /\ brandRec = NoBrand
    /\ focus # "buy" => quoted.unit = "perRequest"

TradeNext ==
    \/ focus = "sell" /\ SellNext /\ UNCHANGED <<focus, modelVars, rpcVars, sellerVars, buyVars>>
    \/ focus = "models" /\ ModelNext /\ UNCHANGED <<focus, sellVars, rpcVars, sellerVars, buyVars>>
    \/ focus = "rpc" /\ RPCNext /\ UNCHANGED <<focus, sellVars, modelVars, sellerVars, buyVars>>
    \/ focus = "records" /\ RecordsNext /\ UNCHANGED <<focus, sellVars, modelVars, rpcVars, buyVars>>
    \/ focus = "buy" /\ BuyNext /\ UNCHANGED <<focus, sellVars, modelVars, rpcVars, sellerVars>>

TradeSpec == TradeInit /\ [][TradeNext]_<<focus, sellVars, modelVars, rpcVars, sellerVars, buyVars>>
=============================================================================
