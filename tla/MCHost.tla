--------------------------- MODULE MCHost ---------------------------
(***************************************************************************)
(* Instance of what the CLI keeps on the operator's machine and in the     *)
(* cluster: agents, wallets, the defaults tree, the stack and the tunnel.  *)
(* None of these modules reads the state of another, so a behaviour        *)
(* follows one of them.                                                    *)
(***************************************************************************)
EXTENDS AgentLifecycle, WalletVault, DefaultsTree, StackLifecycle, PublicTunnel

VARIABLE focus \* the part a behaviour follows

AgentOf(m, k, o, w) == [model |-> m, skills |-> k, objective |-> o, wallet |-> w]
MCAgentSpecs == {AgentOf("m1", {"a"}, "x", TRUE), AgentOf("m2", {"a", "b"}, "x", TRUE),
                 AgentOf("", {"a"}, "y", FALSE)}

\* The second release no longer ships the file "x".
MCShipped == <<{"hf", "x"}, {"hf"}>>

HostInit ==
    /\ focus \in {"agents", "wallets", "tree", "stack", "tunnel"}
    /\ AgentInit /\ WalletInit /\ TreeInit /\ StackInit /\ TunnelInit
    \* the parts that are not followed start in one state
    /\ focus # "tree" => binary = 1
    /\ focus # "tunnel" => tnl = NoTunnel

HostNext ==
    \/ focus = "agents" /\ AgentNext /\ UNCHANGED <<focus, walletVars, treeVars, stackVars, tunnelVars>>
    \/ focus = "wallets" /\ WalletNext /\ UNCHANGED <<focus, agentVars, treeVars, stackVars, tunnelVars>>
    \/ focus = "tree" /\ TreeNext /\ UNCHANGED <<focus, agentVars, walletVars, stackVars, tunnelVars>>
    \/ focus = "stack" /\ StackNext /\ UNCHANGED <<focus, agentVars, walletVars, treeVars, tunnelVars>>
    \/ focus = "tunnel" /\ TunnelNext /\ UNCHANGED <<focus, agentVars, walletVars, treeVars, stackVars>>

HostSpec == HostInit /\ [][HostNext]_<<focus, agentVars, walletVars, treeVars, stackVars, tunnelVars>>
=============================================================================
