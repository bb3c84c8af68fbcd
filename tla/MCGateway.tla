----------------------------- MODULE MCGateway -----------------------------
(***************************************************************************)
(* Instance of SellerGateway and JobBroker: what the gateway serves, and   *)
(* the broker behind its async offers.  The two share no state, so a       *)
(* behaviour follows one of them: the route table, the gates or the jobs.  *)
(***************************************************************************)
EXTENDS SellerGateway, JobBroker

Route(segs, wild, gate, methods) == [segs |-> segs, wild |-> wild, gate |-> gate, methods |-> methods]

MCBase == [o \in Offers |-> IF o = "o1" THEN <<"o1">> ELSE <<"o1", "sub">>]
MCOrder == [o \in Offers |-> IF o = "o1" THEN 0 ELSE 1]
MCKind == [o \in Offers |-> IF o = "o1" THEN "http" ELSE "agent"]
MCTables == {
    <<Route(<<>>, TRUE, "paid", {})>>,
    <<Route(<<"a">>, FALSE, "paid", {}), Route(<<"a">>, TRUE, "free", {"GET"})>>,
    <<Route(<<"a">>, FALSE, "free", {"GET"}), Route(<<"a">>, TRUE, "paid", {"POST"}),
      Route(<<"c">>, FALSE, "auth", {}), Route(<<"c">>, FALSE, "paid", {})>>}
MCPaths == {<<"o1">>, <<"o1", "a">>, <<"o1", "auth">>, <<"o1", "c">>, <<"o1", "d">>,
            <<"o1", "sub">>, <<"o1", "sub", "chat">>, <<"o1", "sub", "auth">>, <<"o1", "sub", "c">>, <<"o1", "jobs", "job">>, <<"x">>}
MCSigner == [m \in Messages |-> "w1"]
MCIssued == [m \in Messages |-> IF m = "m2" THEN 2 ELSE 1]
MCExpires == [m \in Messages |-> 9]
MCVisibility == [j \in Jobs |-> IF j = "j1" THEN "payer" ELSE "public"]
MCHasCallback == [j \in Jobs |-> j = "j1"]

MCInit == JobInit /\ GatewayInit
MCNext ==
    \/ GatewayNext /\ UNCHANGED jobVars
    \/ focus = "jobs" /\ JobNext /\ UNCHANGED gatewayVars

MCSpec == MCInit /\ [][MCNext]_<<gatewayVars, jobVars>>
=============================================================================
