SPECIFICATION HostSpec
CONSTANTS
    AgentSpecs <- MCAgentSpecs
    NoAgent = NoAgent
    Unknown = Unknown
    MaxAgentFaults = 2
    MaxAgentCmds = 3
    MaxWalletCmds = 5
    MaxWalletFaults = 3
    Nothing = Nothing
    TreeFiles = {"hf", "x"}
    Helmfile = "hf"
    Absent = Absent
    Shipped <- MCShipped
    MaxTreeCmds = 4
    MaxTreeEdits = 1
    MaxTreeFaults = 1
    StackIDs = {1, 2}
    Pids = {1, 2}
    None = None
    MaxStackCmds = 5
    MaxStackFaults = 2
    Hosts = {1, 2}
    Tokens = {1, 2}
    NoTunnel = NoTunnel
    MaxTunnelCmds = 4
    MaxTunnelFaults = 1
INVARIANTS AgentInv WalletInv TreeInv  TunnelInv
CHECK_DEADLOCK FALSE
