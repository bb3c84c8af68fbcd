---------------------------- MODULE PublicTunnel ----------------------------
(***************************************************************************)
(* The public tunnel of a stack (internal/tunnel): quick tunnels, whose    *)
(* URL changes with every pod, persistent ones restored from local state,  *)
(* the URL advertised to the agent and the frontend, and the storefront    *)
(* route that must stay off the hostnames offers claim for themselves.     *)
(* Cloudflare, the API server and cloudflared's pods are external.         *)
(***************************************************************************)
EXTENDS Integers, Sequences, SequencesExt

CONSTANTS Hosts,            \* public hostnames, 1..n; quick URLs are above 10
          Tokens,           \* connector tokens, each of one Cloudflare tunnel
          NoTunnel,         \* no tunnel state, no connector pod
          MaxTunnelCmds, MaxTunnelFaults

\* A tunnel's state, and a connector's pod.
TunnelStates == [hosts : Seq(Hosts), kind : {"remote", "local"}, tun : Tokens \cup {0}]
Connectors == [kind : {"none", "quick", "remote", "local"}, tun : Tokens \cup {0}, url : Nat]

ASSUME TunnelAssumption ==
    /\ Hosts \subseteq 1..10 /\ Tokens \subseteq Nat \ {0}
    /\ {MaxTunnelCmds, MaxTunnelFaults} \subseteq Nat
    /\ NoTunnel \notin TunnelStates \cup Connectors

VARIABLES tnl,       \* tunnel.json: [hosts (primary first), kind, tun]
          tokFile,   \* the connector token kept on the host, 0 for none
          token,     \* Secret cloudflared-tunnel-token, 0 for none
          ingress,   \* hosts of the ConfigMap of a local-managed tunnel
          mgmt,      \* management ConfigMap: none, quick, remote, local
          chart,     \* what the rendered Deployment runs: none, quick, remote, local
          pod,       \* the connector: [kind, tun, url]
          agentURL, cmURL,   \* AGENT_BASE_URL, obol-stack-config tunnelURL
          front,     \* hosts of the route tunnel-storefront
          claimed,     \* hosts offers claim (spec.hostname)
          ledgerHosts,       \* ... and those their recorded manifests claim
          ncmd, urls, nfaults, ncmds,
          gaps       \* why the storefront or the URL may be behind

clusterTnlVars == <<token, ingress, mgmt, chart, pod>>
publishVars == <<agentURL, cmURL, front>>
offerHostVars == <<claimed, ledgerHosts>>
tunnelVars == <<tnl, tokFile, clusterTnlVars, publishVars, offerHostVars, ncmd, urls, nfaults, ncmds, gaps>>
fileVars == <<tnl, tokFile>>
nCountVars == <<urls, nfaults, ncmds>>

NIdle == [pc |-> "idle"]
NBegin(c) == ncmd = NIdle /\ ncmds < MaxTunnelCmds /\ ncmds' = ncmds + 1 /\ ncmd' = c
NGoto(pc) == ncmd' = [ncmd EXCEPT !.pc = pc]
NFault == nfaults < MaxTunnelFaults /\ nfaults' = nfaults + 1

----------------------------------------------------------------------------
\* State of the tunnel and what the cluster runs.

\* normalizeTunnelState and IsPersistent: a state with a hostname.
IsPersistent == tnl # NoTunnel
HostnameSet == IF IsPersistent THEN ToSet(tnl.hosts) ELSE {}

\* reconcileHostnameSet: the scalar hostname is the first of the list.
Primary(t) == t.hosts[1]

\* Cloudflared's pod: a quick one gets a URL of its own.
StartPod(kind, n) ==
    [kind |-> kind, tun |-> IF kind = "remote" THEN token ELSE 0, url |-> IF kind = "quick" THEN 10 + n ELSE 0]

\* The chart's mode: the management ConfigMap, else what resources exist.
RenderedKind ==
    CASE mgmt # "none" -> mgmt
      [] mgmt = "none" /\ ingress # {} -> "local"
      [] mgmt = "none" /\ ingress = {} /\ token # 0 -> "remote"
      [] OTHER -> "quick"

\* A quick tunnel renders no replicas; a running pod stays when the template of
\* the Deployment is the same, whatever its Secret now holds.
RolledPod ==
    IF RenderedKind = "quick" THEN NoTunnel
    ELSE IF pod # NoTunnel /\ pod.kind = RenderedKind THEN pod
    ELSE StartPod(RenderedKind, urls)

\* helmUpgradeCloudflared.
HelmUpgrade == chart' = RenderedKind /\ pod' = RolledPod

\* currentTunnelURL: the primary host, or what a quick pod logged; 0 for none.
CurrentURL(p) ==
    IF IsPersistent THEN Primary(tnl) ELSE IF p # NoTunnel /\ p.kind = "quick" THEN p.url ELSE 0

IsQuickTunnelHealthy == ~IsPersistent /\ pod # NoTunnel /\ CurrentURL(pod) # 0

\* offerBoundHostnames: what every ServiceOffer's spec.hostname claims.
OfferBoundHostnames == claimed

\* ensureStorefrontRenderer: the renderer and its local preview always, the
\* public route only for hosts; without any the one there stays.
EnsureStorefrontRenderer(route, hosts) == IF hosts = {} THEN route ELSE hosts

\* DeleteStorefront: the public route goes, the renderer stays.
DeleteStorefront == EnsureStorefrontRenderer({}, {})

\* CreateStorefront: the hosts no offer claims; none left, the route goes.
CreateStorefront(hosts) ==
    IF hosts = {} THEN front
    ELSE EnsureStorefrontRenderer({}, hosts \ OfferBoundHostnames)

\* storefrontHostnames: the tracked set, else the host of the URL.
StorefrontHostnames(url) == IF IsPersistent THEN HostnameSet ELSE {url} \ {0}

\* Every command but stop wants a kubeconfig.
InCluster == chart # "none"

----------------------------------------------------------------------------
\* obol tunnel setup: ProvisionWithToken.

Setup ==
    \E h \in Hosts, t \in Tokens :
        /\ InCluster
        /\ NBegin([pc |-> "token", name |-> "setup", host |-> h, tun |-> t])
        /\ UNCHANGED <<fileVars, clusterTnlVars, publishVars, offerHostVars, urls, nfaults, gaps>>

SaveRemoteTunnelToken ==
    /\ ncmd.pc = "token" /\ tokFile' = ncmd.tun /\ NGoto("secret")
    /\ UNCHANGED <<tnl, clusterTnlVars, publishVars, offerHostVars, nCountVars, gaps>>

\* applyTunnelTokenSecret, deleteLocalManagedK8sResources and the management
\* ConfigMap, of a setup and of a restore of what setup kept.
ApplyRemote ==
    /\ ncmd.pc = "secret" /\ tokFile # 0
    /\ token' = tokFile /\ ingress' = {} /\ mgmt' = "remote" /\ NGoto("helm")
    /\ UNCHANGED <<fileVars, chart, pod, publishVars, offerHostVars, nCountVars, gaps>>

\* Where a helm upgrade goes on.
AfterHelm == CASE ncmd.name = "setup" -> "state" [] ncmd.name = "restart" -> "rollout"
               [] ncmd.name = "up" -> "wait" [] OTHER -> "end"

HelmUpgradeCloudflared ==
    /\ ncmd.pc = "helm" /\ HelmUpgrade /\ NGoto(AfterHelm)
    /\ UNCHANGED <<fileVars, token, ingress, mgmt, publishVars, offerHostVars, nCountVars, gaps>>

SaveTunnelState ==
    /\ ncmd.pc = "state"
    /\ tnl' = [hosts |-> <<ncmd.host>>, kind |-> "remote", tun |-> ncmd.tun]
    /\ ncmd' = [ncmd EXCEPT !.pc = "agent"]
    /\ UNCHANGED <<tokFile, clusterTnlVars, publishVars, offerHostVars, nCountVars, gaps>>

----------------------------------------------------------------------------
\* WaitReady and its dependents.

\* What follows the tunnel part of a command: a registered offer is applied, a
\* stack up replays the offers.
AfterTunnel ==
    CASE ncmd.name = "sell" /\ ncmd.reg -> NGoto("bind")
      [] ncmd.name = "up" -> NGoto("replay")
      [] OTHER -> ncmd' = NIdle

\* The running pod's URL at once, else the Deployment is scaled up first.
WaitReady ==
    /\ ncmd.pc = "wait"
    /\ pod' = IF pod # NoTunnel THEN pod ELSE StartPod(chart, urls + 1)
    /\ urls' = IF pod = NoTunnel /\ chart = "quick" THEN urls + 1 ELSE urls
    /\ IF CurrentURL(pod') = 0 THEN AfterTunnel ELSE NGoto("agent")
    /\ UNCHANGED <<fileVars, token, ingress, mgmt, chart, publishVars, offerHostVars, nfaults, ncmds, gaps>>

\* syncTunnelDependents: each of the three is tried, none fails the command.
InjectBaseURL ==
    /\ ncmd.pc = "agent" /\ NGoto("configmap")
    /\ \/ agentURL' = CurrentURL(pod) /\ UNCHANGED <<nfaults, gaps>>
       \/ NFault /\ gaps' = gaps \cup {"url"} /\ UNCHANGED agentURL
    /\ UNCHANGED <<fileVars, clusterTnlVars, cmURL, front, offerHostVars, urls, ncmds>>

SyncTunnelConfigMap ==
    /\ ncmd.pc = "configmap" /\ NGoto("storefront")
    /\ \/ cmURL' = CurrentURL(pod) /\ UNCHANGED <<nfaults, gaps>>
       \/ NFault /\ gaps' = gaps \cup {"url"} /\ UNCHANGED cmURL
    /\ UNCHANGED <<fileVars, clusterTnlVars, agentURL, front, offerHostVars, urls, ncmds>>

\* CreateStorefront over the tracked hosts, or over the one of the quick URL.
\* A query that fails leaves the route as it is.
SyncStorefront ==
    /\ ncmd.pc = "storefront"
    /\ \/ /\ front' = CreateStorefront(StorefrontHostnames(CurrentURL(pod)))
          /\ gaps' = IF StorefrontHostnames(CurrentURL(pod)) = {} THEN gaps
                     ELSE gaps \ {"cut", "replayed"}
          /\ nfaults' = nfaults
       \/ NFault /\ gaps' = gaps \cup {"cut"} /\ UNCHANGED front
    /\ AfterTunnel
    /\ UNCHANGED <<fileVars, clusterTnlVars, agentURL, cmURL, offerHostVars, urls, ncmds>>

----------------------------------------------------------------------------
\* obol tunnel restart, stop and delete.

Restart ==
    /\ InCluster
    /\ NBegin([pc |-> IF IsPersistent THEN "restore" ELSE "rollout", name |-> "restart"])
    /\ UNCHANGED <<fileVars, clusterTnlVars, publishVars, offerHostVars, urls, nfaults, gaps>>

\* Without the token a restart fails; stack up warns and goes on.
RestoreFails == IF ncmd.name = "up" THEN NGoto("replay") ELSE ncmd' = NIdle

\* RestorePersistentResources: local credentials from the host's cloudflared
\* directory, or the stored token; without one the command ends.
RestorePersistentResources ==
    /\ ncmd.pc = "restore"
    /\ IF tnl.kind = "local"
       THEN /\ ingress' = HostnameSet /\ token' = 0 /\ tokFile' = 0 /\ mgmt' = "local"
            /\ NGoto("helm")
       ELSE /\ UNCHANGED <<ingress, token, tokFile, mgmt>>
            /\ IF tokFile = 0 THEN RestoreFails ELSE NGoto("secret")
    /\ UNCHANGED <<tnl, chart, pod, publishVars, offerHostVars, nCountVars, gaps>>

\* rollout restart: a new pod, whose quick URL is new.
RolloutRestart ==
    /\ ncmd.pc = "rollout"
    /\ pod' = IF pod = NoTunnel THEN NoTunnel ELSE StartPod(chart, urls + 1)
    /\ urls' = IF pod # NoTunnel /\ chart = "quick" THEN urls + 1 ELSE urls
    /\ NGoto("wait")
    /\ UNCHANGED <<fileVars, token, ingress, mgmt, chart, publishVars, offerHostVars, nfaults, ncmds, gaps>>

Stop ==
    /\ NBegin(NIdle) /\ pod' = NoTunnel
    /\ UNCHANGED <<fileVars, token, ingress, mgmt, chart, publishVars, offerHostVars, urls, nfaults, gaps>>

DeleteTunnel ==
    /\ InCluster /\ IsPersistent /\ NBegin([pc |-> "unstate", name |-> "delete"])
    /\ ingress' = {} /\ token' = 0 /\ tokFile' = 0 /\ front' = DeleteStorefront
    /\ UNCHANGED <<tnl, mgmt, chart, pod, agentURL, cmURL, offerHostVars, urls, nfaults, gaps>>

DeleteTunnelState ==
    /\ ncmd.pc = "unstate" /\ tnl' = NoTunnel /\ mgmt' = "quick" /\ NGoto("helm")
    /\ UNCHANGED <<tokFile, token, ingress, chart, pod, publishVars, offerHostVars, nCountVars, gaps>>

DeleteEnds ==
    /\ ncmd.pc = "end" /\ ncmd' = NIdle
    /\ UNCHANGED <<fileVars, clusterTnlVars, publishVars, offerHostVars, nCountVars, gaps>>

----------------------------------------------------------------------------
\* obol tunnel hostname add and remove; obol sell http --hostname.

\* With --offer the offer is bound before the tunnel is told.
AddHostname ==
    \E h \in Hosts, bind \in BOOLEAN :
        /\ InCluster
        /\ claimed' = IF bind THEN claimed \cup {h} ELSE claimed
        /\ IF ~IsPersistent \/ (tnl.kind = "local" /\ h \notin HostnameSet)
           THEN NBegin(NIdle)
           ELSE NBegin([pc |-> "add", name |-> "add", host |-> h])
        /\ UNCHANGED <<fileVars, clusterTnlVars, publishVars, ledgerHosts, urls, nfaults, gaps>>

AddedStorefront ==
    /\ ncmd.pc = "add" /\ NGoto("added")
    /\ front' = CreateStorefront(HostnameSet \cup {ncmd.host}) /\ gaps' = gaps \ {"cut", "replayed"}
    /\ UNCHANGED <<fileVars, clusterTnlVars, agentURL, cmURL, offerHostVars, nCountVars>>

AddedState ==
    /\ ncmd.pc = "added" /\ ncmd' = NIdle
    /\ tnl' = IF ncmd.host \in HostnameSet THEN tnl ELSE [tnl EXCEPT !.hosts = Append(@, ncmd.host)]
    /\ UNCHANGED <<tokFile, clusterTnlVars, publishVars, offerHostVars, nCountVars, gaps>>

\* Never the last one.  A local-managed connector is rolled over what remains.
RemoveHostname ==
    \E h \in HostnameSet :
        /\ InCluster /\ HostnameSet \ {h} # {}
        /\ NBegin([pc |-> "removed", name |-> "remove", host |-> h])
        /\ front' = CreateStorefront(HostnameSet \ {h}) /\ gaps' = gaps \ {"cut", "replayed"}
        /\ ingress' = IF tnl.kind = "local" THEN HostnameSet \ {h} ELSE ingress
        /\ UNCHANGED <<fileVars, token, mgmt, chart, pod, agentURL, cmURL, offerHostVars, urls, nfaults>>

\* The list without a host it has once.
WithoutHost(hosts, h) == RemoveAt(hosts, CHOOSE i \in DOMAIN hosts : hosts[i] = h)

RemovedState ==
    /\ ncmd.pc = "removed" /\ ncmd' = NIdle
    /\ tnl' = [tnl EXCEPT !.hosts = WithoutHost(@, ncmd.host)]
    /\ UNCHANGED <<tokFile, clusterTnlVars, publishVars, offerHostVars, nCountVars, gaps>>

\* sell http: a registered offer waits for the tunnel before it is applied, any
\* other is applied first.  Host 0: no --hostname.
SellHTTP ==
    \E h \in Hosts \cup {0}, reg \in BOOLEAN :
        /\ InCluster
        /\ NBegin([pc |-> IF reg THEN "wait" ELSE "bind", name |-> "sell", host |-> h, reg |-> reg])
        /\ UNCHANGED <<fileVars, clusterTnlVars, publishVars, offerHostVars, urls, nfaults, gaps>>

\* The manifest is applied and recorded, ...
ApplyOffer ==
    /\ ncmd.pc = "bind"
    /\ claimed' = claimed \cup ({ncmd.host} \ {0}) /\ ledgerHosts' = ledgerHosts \cup ({ncmd.host} \ {0})
    /\ CASE ncmd.host # 0 -> NGoto("refresh")
         [] ncmd.host = 0 /\ ~ncmd.reg -> NGoto("wait")
         [] OTHER -> ncmd' = NIdle
    /\ UNCHANGED <<fileVars, clusterTnlVars, publishVars, nCountVars, gaps>>

\* ... then the storefront is taken off the host, if there are tracked hosts.
RefreshStorefront ==
    /\ ncmd.pc = "refresh" /\ IF ncmd.reg THEN ncmd' = NIdle ELSE NGoto("wait")
    /\ \/ /\ front' = CreateStorefront(StorefrontHostnames(0)) /\ UNCHANGED nfaults
          /\ gaps' = IF IsPersistent THEN gaps \ {"cut", "replayed"} ELSE gaps
       \/ NFault /\ gaps' = gaps \cup {"cut"} /\ UNCHANGED front
    /\ UNCHANGED <<fileVars, clusterTnlVars, agentURL, cmURL, offerHostVars, urls, ncmds>>

\* sell delete: with no offer left a quick tunnel is stopped and the storefront
\* goes.
SellDeleteEndsTunnel ==
    \E h \in claimed \cup {0}, last \in BOOLEAN :
        /\ InCluster /\ NBegin(NIdle)
        /\ claimed' = claimed \ {h} /\ ledgerHosts' = ledgerHosts \ {h}
        /\ last => claimed' = {}
        /\ IF last /\ ~IsPersistent THEN pod' = NoTunnel /\ front' = DeleteStorefront ELSE UNCHANGED <<pod, front>>
        /\ UNCHANGED <<fileVars, token, ingress, mgmt, chart, agentURL, cmURL, urls, nfaults, gaps>>

----------------------------------------------------------------------------
\* obol stack up, over a running or a new cluster.

\* syncDefaults leaves the release of a healthy quick tunnel out of the sync.
SkipsCloudflared == IsQuickTunnelHealthy

StackUp ==
    /\ NBegin([pc |-> "version", name |-> "up", was |-> IF IsQuickTunnelHealthy THEN CurrentURL(pod) ELSE 0])
    /\ IF SkipsCloudflared THEN UNCHANGED <<chart, pod>> ELSE HelmUpgrade
    /\ UNCHANGED <<fileVars, token, ingress, mgmt, publishVars, offerHostVars, urls, nfaults, gaps>>

\* Mutant: the version is applied by the manager that owns the URL.
TunnelURLPruned == 0

\* SyncStackConfigVersion applies its keys as a field manager of its own.
TunnelURLKept == cmURL

SyncStackConfigVersion ==
    /\ ncmd.pc = "version" /\ cmURL' = TunnelURLKept
    /\ NGoto(IF IsPersistent THEN "restore" ELSE "replay")
    /\ UNCHANGED <<fileVars, clusterTnlVars, agentURL, front, offerHostVars, nCountVars, gaps>>

\* The offers are replayed last, and no one looks at the storefront again.
ReplayOffers ==
    /\ ncmd.pc = "replay" /\ ncmd' = NIdle
    /\ claimed' = claimed \cup ledgerHosts
    /\ gaps' = IF front \cap (ledgerHosts \ claimed) # {} THEN gaps \cup {"replayed"} ELSE gaps
    /\ UNCHANGED <<fileVars, clusterTnlVars, publishVars, ledgerHosts, nCountVars>>

----------------------------------------------------------------------------
\* The world.

RecreateCluster ==
    /\ ncmd = NIdle /\ NFault
    /\ token' = 0 /\ ingress' = {} /\ mgmt' = "none" /\ chart' = "none" /\ pod' = NoTunnel
    /\ agentURL' = 0 /\ cmURL' = 0 /\ front' = {} /\ claimed' = {} /\ gaps' = {}
    /\ UNCHANGED <<fileVars, ledgerHosts, ncmd, urls, ncmds>>

TunnelCrash ==
    /\ ncmd # NIdle /\ NFault /\ ncmd' = NIdle /\ gaps' = gaps \cup {"cut", "url"}
    /\ UNCHANGED <<fileVars, clusterTnlVars, publishVars, offerHostVars, urls, ncmds>>

\* A pod is replaced: a quick one is at another URL that no command has seen.
ConnectorRestarts ==
    /\ pod # NoTunnel /\ ncmd = NIdle /\ NFault
    /\ pod' = StartPod(pod.kind, urls + 1) /\ urls' = urls + 1 /\ gaps' = gaps \cup {"url"}
    /\ UNCHANGED <<fileVars, token, ingress, mgmt, chart, publishVars, offerHostVars, ncmd, ncmds>>

\* A fresh host, or one whose tunnel an old release made with tunnel login.
TunnelInit ==
    /\ tnl \in {NoTunnel} \cup {[hosts |-> <<h>>, kind |-> "local", tun |-> 0] : h \in Hosts}
    /\ tokFile = 0 /\ token = 0 /\ ingress = {} /\ mgmt = "none" /\ chart = "none" /\ pod = NoTunnel
    /\ agentURL = 0 /\ cmURL = 0 /\ front = {} /\ claimed = {} /\ ledgerHosts = {}
    /\ ncmd = NIdle /\ urls = 0 /\ nfaults = 0 /\ ncmds = 0 /\ gaps = {}

TunnelNext ==
    \/ Setup \/ SaveRemoteTunnelToken \/ ApplyRemote \/ HelmUpgradeCloudflared \/ SaveTunnelState
    \/ WaitReady \/ InjectBaseURL \/ SyncTunnelConfigMap \/ SyncStorefront
    \/ Restart \/ RestorePersistentResources \/ RolloutRestart \/ Stop
    \/ DeleteTunnel \/ DeleteTunnelState \/ DeleteEnds
    \/ AddHostname \/ AddedStorefront \/ AddedState \/ RemoveHostname \/ RemovedState
    \/ SellHTTP \/ ApplyOffer \/ RefreshStorefront \/ SellDeleteEndsTunnel
    \/ StackUp \/ SyncStackConfigVersion \/ ReplayOffers
    \/ RecreateCluster \/ TunnelCrash \/ ConnectorRestarts

TunnelSpec == TunnelInit /\ [][TunnelNext]_tunnelVars

----------------------------------------------------------------------------
TunnelTypeOK ==
    /\ tokFile \in Tokens \cup {0} /\ token \in Tokens \cup {0}
    /\ IsPersistent => tnl.hosts # <<>> /\ HostnameSet \subseteq Hosts
    /\ chart \in {"none", "quick", "remote", "local"} /\ mgmt \in {"none", "quick", "remote", "local"}
    /\ claimed \subseteq Hosts /\ gaps \subseteq {"cut", "replayed", "url"}

(***************************************************************************)
(* "Hostnames claimed by a ServiceOffer belong to that offer's             *)
(* dedicated-origin route -- the storefront catch-all must not contest     *)
(* their root": between commands no hostname is both an offer's and the    *)
(* storefront's, however the offer was bound and whichever command rendered *)
(* the route last, unless a command was cut short or failed at the query,  *)
(* or offers were replayed over a route (tunnel.go:1192-1206, 1506-1536).  *)
(***************************************************************************)
StorefrontYieldsToOffers == ncmd = NIdle /\ gaps \cap {"cut", "replayed"} = {} => front \cap claimed = {}

(***************************************************************************)
(* stack up neither replaces the pod of a healthy quick tunnel nor takes   *)
(* its URL from the ConfigMap the controller and the frontend read         *)
(* (stack.go:534-541, tunnel.go:1108-1119).                                *)
(***************************************************************************)
QuickURLSurvivesUp ==
    ncmd # NIdle /\ ncmd.pc = "replay" /\ ncmd.name = "up" /\ ncmd.was # 0 /\ "url" \notin gaps
        => pod # NoTunnel /\ pod.url = ncmd.was /\ cmURL = ncmd.was

(***************************************************************************)
(* What is checked of the tunnel, the hostnames and the storefront         *)
(* (tunnel.go, hostnames.go, provision.go).                                *)
(***************************************************************************)
TunnelInv ==
    /\ TunnelTypeOK
    /\ StorefrontYieldsToOffers
    /\ QuickURLSurvivesUp
=============================================================================
