-------------------------- MODULE StackLifecycle --------------------------
(***************************************************************************)
(* obol stack init, up, down and purge on one host (internal/stack): the   *)
(* recorded stack ID and backend, the k3d clusters, the k3s server found   *)
(* again by a PID record, the consent gates in front of what destroys a    *)
(* cluster, and the cache of dev images imported into one.                 *)
(***************************************************************************)
EXTENDS Integers

CONSTANTS StackIDs,        \* petnames init can generate, 1..n, each once
          Pids,            \* process IDs of the host
          None,            \* no ID, backend, process, record or kubeconfig
          MaxStackCmds,    \* bound: commands
          MaxStackFaults   \* bound: crashes, failures, exits, reuse, reboots

ASSUME StackAssumption ==
    /\ StackIDs \subseteq Nat \ {0} /\ None \notin StackIDs \cup {0} /\ None \notin {"k3d", "k3s"}
    /\ None \notin [pid : Pids, start : Nat] /\ None \notin [kind : {"ours", "k3s", "other"}, start : Nat]
    /\ {MaxStackCmds, MaxStackFaults} \subseteq Nat

VARIABLES sid, backend,  \* .stack-id, .stack-backend
          conf,          \* backends whose config file is there
          pidRec,        \* .k3s.pid: [pid, start], start 0 in an old record
          kubeconf,      \* the cluster kubeconfig.yaml points at: an ID, Server or None
          k3d,           \* ID -> [st, offers, cid, img]: containers, live offers, server
                         \* container, dev image in its node
          proc,          \* PID -> [kind, start], kind in ours, k3s (another's), other
          k3sOffers,     \* offers in the k3s datastore
          imported,      \* .imported-images.json: ID -> [dig, cid]
          built,         \* digest of the local dev image
          scmd, clock, cids, used, sfaults, scmds,
          orphans,       \* clusters a failed destroy, crash or kill left behind
          harm           \* "consent", "signal": what a command must never do was done

stackVars == <<sid, backend, conf, pidRec, kubeconf, k3d, proc, k3sOffers, imported, built,
               scmd, clock, cids, used, sfaults, scmds, orphans, harm>>
hostVars == <<sid, backend, conf, pidRec, kubeconf>>
worldVars == <<k3d, proc, k3sOffers, clock, cids>>
countVars == <<used, sfaults, scmds>>

\* A command under way: where it is, its flags, what its gate saw and what it
\* is to write or to signal.
SIdle == [pc |-> "idle", name |-> "none", yes |-> FALSE, to |-> "k3d", held |-> FALSE,
          id |-> None, rec |-> None, was |-> FALSE]
SBegin(c) == scmd = SIdle /\ scmds < MaxStackCmds /\ scmds' = scmds + 1 /\ scmd' = c
SGoto(pc) == scmd' = [scmd EXCEPT !.pc = pc]
SFault == sfaults < MaxStackFaults /\ sfaults' = sfaults + 1
Server == 0   \* the k3s server, where a k3d cluster has an ID
NoStackCluster == [st |-> "none", offers |-> FALSE, cid |-> 0, img |-> 0]

\* LoadBackend: without a record the backend is k3d.
LoadBackend == IF backend = None THEN "k3d" ELSE backend

----------------------------------------------------------------------------
\* The k3s server process.

\* Mutant: the start time is not compared.
CheckK3sPidName(rec) ==
    IF proc[rec.pid] = None THEN "gone"
    ELSE IF proc[rec.pid].kind \in {"ours", "k3s"} THEN "verified" ELSE "reused"

\* checkK3sPid: alive, started when the record says, and a k3s server.
CheckK3sPid(rec) ==
    CASE proc[rec.pid] = None -> "gone"
      [] rec.start # 0 /\ proc[rec.pid].start # rec.start -> "reused"
      [] proc[rec.pid].kind \notin {"ours", "k3s"} -> "reused"
      [] OTHER -> "verified"

\* K3sBackend.IsRunning.
K3sIsRunning == pidRec # None /\ CheckK3sPid(pidRec) = "verified"

Ours == {p \in Pids : proc[p] # None /\ proc[p].kind = "ours"}

----------------------------------------------------------------------------
\* The consent gates.

\* discoverLiveOffers through the kubeconfig: offers, none, or an error when
\* there is no kubeconfig or its cluster does not answer.
DiscoverLiveOffers ==
    CASE kubeconf = Server -> IF Ours # {} THEN (IF k3sOffers THEN "live" ELSE "idle") ELSE "error"
      [] kubeconf \in StackIDs ->
            IF k3d[kubeconf].st = "running" THEN (IF k3d[kubeconf].offers THEN "live" ELSE "idle") ELSE "error"
      [] OTHER -> "error"

\* confirmLoss: --yes, or yes at the prompt; no prompt, no answer: refused.
ConfirmLoss(yes) == yes

\* ConfirmClusterDestroy: passes without consent only over a cluster that was
\* checked and found idle, and never when `always`.
ConfirmClusterDestroy(yes, always) == (DiscoverLiveOffers = "idle" /\ ~always) \/ ConfirmLoss(yes)

\* ConfirmRunningServicesLoss: a stop loses nothing, so an error passes.
ConfirmRunningServicesLoss(yes) == DiscoverLiveOffers # "live" \/ ConfirmLoss(yes)

Exists == sid # None /\ k3d[sid].st # "none"

\* The cluster a command is about to lose has live offers when the gate decides
\* (k3s keeps its datastore), and no k3s server that a failed switch left running
\* can answer for it: init removes neither that server nor the kubeconfig, and an
\* up that fails before its own kubeconfig leaves the old one in place.
AtGate == LoadBackend = "k3d" /\ Exists /\ k3d[sid].offers /\ Server \notin orphans

----------------------------------------------------------------------------
\* obol stack init.

HasExistingConfig == sid # None \/ backend # None \/ "k3d" \in conf

\* The recorded ID is preserved, --force included.
InitID == IF sid = None THEN CHOOSE i \in StackIDs \ used : TRUE ELSE sid

\* Up to the gate: tools and prerequisites of the new backend come first.
InitStack ==
    \E force, yes \in BOOLEAN, b \in {"k3d", "k3s"} :
        /\ HasExistingConfig => force
        /\ SBegin([SIdle EXCEPT !.pc = IF HasExistingConfig /\ LoadBackend # b THEN "switch" ELSE "config",
                                !.name = "init", !.yes = yes, !.to = b])
        /\ UNCHANGED <<hostVars, worldVars, imported, built, used, sfaults, orphans, harm>>

\* destroyOldBackendIfSwitching: always asks, then destroys the old cluster.
DestroyOldBackendIfSwitching ==
    /\ scmd.pc = "switch"
    /\ scmd' = IF ConfirmClusterDestroy(scmd.yes, TRUE)
               THEN [scmd EXCEPT !.pc = "destroy", !.held = AtGate] ELSE SIdle
    /\ UNCHANGED <<hostVars, worldVars, imported, built, countVars, orphans, harm>>

\* cleanupStaleBackendConfigs, best effort after the destroy.
CleanupStaleBackendConfigs ==
    /\ scmd.pc = "cleanup"
    /\ conf' = conf \ {LoadBackend}
    /\ pidRec' = IF LoadBackend = "k3s" THEN None ELSE pidRec
    /\ SGoto("config")
    /\ UNCHANGED <<sid, backend, kubeconf, worldVars, imported, built, countVars, orphans, harm>>

\* The new backend's config (and the defaults tree), ...
InitConfig ==
    /\ scmd.pc = "config" /\ (sid = None => StackIDs \ used # {})
    /\ conf' = conf \cup {scmd.to}
    /\ scmd' = [scmd EXCEPT !.pc = "id", !.id = InitID]
    /\ used' = used \cup {InitID}
    /\ UNCHANGED <<sid, backend, pidRec, kubeconf, worldVars, imported, built, sfaults, scmds, orphans, harm>>

\* ... the ID, ...
InitWritesID ==
    /\ scmd.pc = "id" /\ sid' = scmd.id /\ SGoto("backend")
    /\ UNCHANGED <<backend, conf, pidRec, kubeconf, worldVars, imported, built, countVars, orphans, harm>>

\* ... and the backend last.
SaveBackend ==
    /\ scmd.pc = "backend" /\ backend' = scmd.to /\ scmd' = SIdle
    /\ UNCHANGED <<sid, conf, pidRec, kubeconf, worldVars, imported, built, countVars, orphans, harm>>

----------------------------------------------------------------------------
\* obol stack up.

\* The ID must be there, the tools resolve and the images be published.
Up ==
    /\ sid # None
    /\ SBegin([SIdle EXCEPT !.pc = IF LoadBackend = "k3d" THEN "upK3d" ELSE "upK3s", !.name = "up"])
    /\ UNCHANGED <<hostVars, worldVars, imported, built, used, sfaults, orphans, harm>>

\* K3dBackend.Up: an existing cluster is started as it is, a new one created.
UpK3d ==
    /\ scmd.pc = "upK3d" /\ (k3d[sid].st = "none" => "k3d" \in conf)
    /\ k3d' = [k3d EXCEPT ![sid] = IF @.st = "none" THEN [NoStackCluster EXCEPT !.st = "running", !.cid = cids + 1]
                                   ELSE [@ EXCEPT !.st = "running"]]
    /\ cids' = IF k3d[sid].st = "none" THEN cids + 1 ELSE cids
    /\ SGoto("kubeconfig")
    /\ UNCHANGED <<hostVars, proc, k3sOffers, clock, imported, built, countVars, orphans, harm>>

\* K3sBackend.Up: the server of the record is kept ...
UpK3sRunning ==
    /\ scmd.pc = "upK3s" /\ K3sIsRunning
    /\ scmd' = IF kubeconf = None THEN SIdle ELSE [scmd EXCEPT !.pc = "images"]
    /\ UNCHANGED <<hostVars, worldVars, imported, built, countVars, orphans, harm>>

\* ... or the stale record and kubeconfig go (cleanStalePid) and one is started.
UpK3sStarts ==
    \E p \in Pids :
        /\ scmd.pc = "upK3s" /\ ~K3sIsRunning /\ "k3s" \in conf
        /\ proc[p] = None
        /\ proc' = [proc EXCEPT ![p] = [kind |-> "ours", start |-> clock + 1]]
        /\ clock' = clock + 1
        /\ pidRec' = None /\ kubeconf' = None
        /\ scmd' = [scmd EXCEPT !.pc = "record", !.rec = [pid |-> p, start |-> clock + 1]]
        /\ UNCHANGED <<sid, backend, conf, k3d, k3sOffers, cids, imported, built, countVars, orphans, harm>>

\* resolveK3sServerPid: the PID and start time of the server under the sudo
\* wrapper, or after 15s the wrapper's own, which relays signals.
RecordK3sPid ==
    /\ scmd.pc = "record"
    /\ pidRec' = scmd.rec
    /\ SGoto("kubeconfig")
    /\ UNCHANGED <<sid, backend, conf, kubeconf, worldVars, imported, built, countVars, orphans, harm>>

\* The kubeconfig, once the API server answers (a timeout ends the command).
WriteKubeconfig ==
    /\ scmd.pc = "kubeconfig"
    /\ \/ /\ kubeconf' = IF LoadBackend = "k3d" THEN sid ELSE Server
          /\ SGoto("images")
       \/ scmd' = SIdle /\ UNCHANGED kubeconf
    /\ UNCHANGED <<sid, backend, conf, pidRec, worldVars, imported, built, countVars, orphans, harm>>

\* importImageWithCache: a hit needs this digest in this server container.
ImportCacheHit == imported[sid].dig = built /\ imported[sid].cid = k3d[sid].cid

\* buildAndImportLocalImages, then the sync, whose failure leaves the cluster
\* running: imported or cached, and the cache saved at the end.
SyncDefaults ==
    /\ scmd.pc = "images" /\ SGoto("synced")
    /\ IF LoadBackend = "k3d" /\ k3d[sid].st # "none" /\ ~ImportCacheHit
       THEN /\ k3d' = [k3d EXCEPT ![sid].img = built]
            /\ imported' = [imported EXCEPT ![sid] = [dig |-> built, cid |-> k3d[sid].cid]]
       ELSE UNCHANGED <<k3d, imported>>
    /\ UNCHANGED <<hostVars, proc, k3sOffers, clock, cids, built, countVars, orphans, harm>>

UpEnds ==
    /\ scmd.pc = "synced" /\ scmd' = SIdle
    /\ UNCHANGED <<hostVars, worldVars, imported, built, countVars, orphans, harm>>

----------------------------------------------------------------------------
\* obol stack down and purge.

Down ==
    \E yes \in BOOLEAN :
        /\ sid # None /\ ConfirmRunningServicesLoss(yes)
        /\ SBegin([SIdle EXCEPT !.pc = IF LoadBackend = "k3d" THEN "stop" ELSE "check", !.name = "down",
                                !.yes = yes, !.held = AtGate])
        /\ UNCHANGED <<hostVars, worldVars, imported, built, used, sfaults, orphans, harm>>

\* k3d cluster stop; when it fails, deleting takes a yes at a prompt of its own.
StopK3d ==
    /\ scmd.pc = "stop"
    /\ \/ k3d' = [k3d EXCEPT ![sid].st = IF @ = "none" THEN "none" ELSE "stopped"] /\ scmd' = SIdle /\ UNCHANGED sfaults
       \/ SFault /\ k3d' = k3d /\ \E yes \in BOOLEAN :
              scmd' = IF yes THEN [scmd EXCEPT !.pc = "delete", !.yes = TRUE] ELSE SIdle
    /\ UNCHANGED <<hostVars, proc, k3sOffers, clock, cids, imported, built, used, scmds, orphans, harm>>

\* Purge: with an ID the destroy gate, without one there is no cluster to lose.
Purge ==
    \E yes \in BOOLEAN :
        /\ IF sid # None THEN ConfirmClusterDestroy(yes, FALSE) ELSE ConfirmRunningServicesLoss(yes)
        /\ SBegin([SIdle EXCEPT !.pc = IF sid # None THEN "destroy" ELSE "remove", !.name = "purge",
                                !.yes = yes, !.held = AtGate])
        /\ UNCHANGED <<hostVars, worldVars, imported, built, used, sfaults, orphans, harm>>

\* Where a destroy goes on: purge removes the config whatever came of it.
AfterDestroy == CASE scmd.name = "purge" -> "remove" [] scmd.name = "init" -> "cleanup" [] OTHER -> "end"

\* Backend.Destroy: k3d deletes the cluster, k3s only stops its server.
Destroy ==
    /\ scmd.pc \in {"destroy", "delete"}
    /\ IF LoadBackend = "k3d"
       THEN /\ \/ k3d' = [i \in StackIDs |-> IF i = sid THEN NoStackCluster ELSE k3d[i]] /\ UNCHANGED <<orphans, sfaults>>
                  /\ harm' = IF scmd.held /\ ~scmd.yes THEN harm \cup {"consent"} ELSE harm
               \/ SFault /\ k3d' = k3d /\ harm' = harm
                  /\ orphans' = IF Exists /\ scmd.name # "down" THEN orphans \cup {sid} ELSE orphans
            /\ scmd' = IF AfterDestroy = "end" THEN SIdle ELSE [scmd EXCEPT !.pc = AfterDestroy]
       ELSE SGoto("check") /\ UNCHANGED <<k3d, orphans, sfaults, harm>>
    /\ UNCHANGED <<hostVars, proc, k3sOffers, clock, cids, imported, built, used, scmds>>

\* K3sBackend.Down: a PID that cannot be proved ours is never signalled.
K3sDownChecks ==
    /\ scmd.pc = "check"
    /\ scmd' = IF K3sIsRunning
               THEN [scmd EXCEPT !.pc = "signal", !.rec = pidRec, !.was = pidRec.pid \in Ours]
               ELSE [scmd EXCEPT !.pc = "killall"]
    /\ pidRec' = IF pidRec # None /\ CheckK3sPid(pidRec) = "reused" THEN None ELSE pidRec
    /\ UNCHANGED <<sid, backend, conf, kubeconf, worldVars, imported, built, countVars, orphans, harm>>

\* sudo kill -TERM, wait, check again, sudo kill -KILL: the process dies, or the
\* signals fail and it is left without a record.
K3sSignal ==
    LET p == scmd.rec.pid
        foreign == proc[p] # None /\ proc[p].kind # "ours"
    IN  /\ scmd.pc = "signal"
        /\ harm' = IF foreign /\ ~scmd.was /\ scmd.rec.start # 0 THEN harm \cup {"signal"} ELSE harm
        /\ \/ proc' = [proc EXCEPT ![p] = None] /\ UNCHANGED <<sfaults, orphans>>
           \/ SFault /\ proc' = proc /\ orphans' = orphans \cup {Server}
        /\ SGoto("killall")
        /\ UNCHANGED <<hostVars, k3d, k3sOffers, clock, cids, imported, built, used, scmds>>

\* cleanupRuntime and the PID file; a helper that fails keeps the file.
K3sKillall ==
    /\ scmd.pc = "killall"
    /\ pidRec' \in IF sfaults < MaxStackFaults THEN {None, pidRec} ELSE {None}
    /\ scmd' = IF AfterDestroy = "end" THEN SIdle ELSE [scmd EXCEPT !.pc = AfterDestroy]
    /\ UNCHANGED <<sid, backend, conf, kubeconf, worldVars, imported, built, countVars, orphans, harm>>

\* os.RemoveAll of the config directory.
PurgeRemoves ==
    /\ scmd.pc = "remove" /\ scmd' = SIdle
    /\ sid' = None /\ backend' = None /\ conf' = {} /\ pidRec' = None /\ kubeconf' = None
    /\ imported' = [i \in StackIDs |-> [dig |-> 0, cid |-> 0]]
    /\ orphans' = orphans \cup (IF Ours # {} THEN {Server} ELSE {})
    /\ UNCHANGED <<worldVars, built, countVars, harm>>

----------------------------------------------------------------------------
\* The host.

\* The process ends; a server started and not recorded is left behind.
StackCrash ==
    /\ scmd # SIdle /\ SFault /\ scmd' = SIdle
    /\ orphans' = IF scmd.pc = "record" THEN orphans \cup {Server} ELSE orphans
    /\ UNCHANGED <<hostVars, worldVars, imported, built, used, scmds, harm>>

\* A process exits, and another one may get its PID.
ProcessExits ==
    \E p \in Pids, next \in {None, [kind |-> "other", start |-> clock + 1], [kind |-> "k3s", start |-> clock + 1]} :
        /\ SFault /\ proc[p] # None /\ proc' = [proc EXCEPT ![p] = next] /\ clock' = clock + 1
        /\ UNCHANGED <<hostVars, k3d, k3sOffers, cids, imported, built, scmd, used, scmds, orphans, harm>>

\* The host restarts: every process is gone, the clusters' containers stop.
Reboot ==
    /\ SFault /\ scmd = SIdle
    /\ proc' = [p \in Pids |-> None]
    /\ k3d' = [i \in StackIDs |-> IF k3d[i].st = "running" THEN [k3d[i] EXCEPT !.st = "stopped"] ELSE k3d[i]]
    /\ UNCHANGED <<hostVars, k3sOffers, clock, cids, imported, built, scmd, used, scmds, orphans, harm>>

\* An offer goes live where a sync has installed the controller.
OfferGoesLive ==
    \/ /\ \E i \in StackIDs : k3d[i].st = "running" /\ k3d[i].img # 0 /\ ~k3d[i].offers /\ k3d' = [k3d EXCEPT ![i].offers = TRUE]
       /\ UNCHANGED <<hostVars, proc, k3sOffers, clock, cids, imported, built, scmd, countVars, orphans, harm>>
    \/ /\ Ours # {} /\ ~k3sOffers /\ k3sOffers' = TRUE
       /\ UNCHANGED <<hostVars, k3d, proc, clock, cids, imported, built, scmd, countVars, orphans, harm>>

\* A dev image is built anew.
Rebuild ==
    /\ scmd = SIdle /\ built < 2 /\ built' = built + 1
    /\ UNCHANGED <<hostVars, worldVars, imported, scmd, countVars, orphans, harm>>

StackInit ==
    /\ sid = None /\ backend = None /\ conf = {} /\ pidRec = None /\ kubeconf = None
    /\ k3d = [i \in StackIDs |-> NoStackCluster] /\ proc = [p \in Pids |-> None] /\ k3sOffers = FALSE
    /\ imported = [i \in StackIDs |-> [dig |-> 0, cid |-> 0]] /\ built = 1
    /\ scmd = SIdle /\ clock = 0 /\ cids = 0 /\ used = {} /\ sfaults = 0 /\ scmds = 0
    /\ orphans = {} /\ harm = {}

StackNext ==
    \/ InitStack \/ DestroyOldBackendIfSwitching \/ CleanupStaleBackendConfigs \/ InitConfig \/ InitWritesID \/ SaveBackend
    \/ Up \/ UpK3d \/ UpK3sRunning \/ UpK3sStarts \/ RecordK3sPid \/ WriteKubeconfig \/ SyncDefaults \/ UpEnds
    \/ Down \/ StopK3d \/ Purge \/ Destroy \/ K3sDownChecks \/ K3sSignal \/ K3sKillall \/ PurgeRemoves
    \/ StackCrash \/ ProcessExits \/ Reboot \/ OfferGoesLive \/ Rebuild

StackSpec == StackInit /\ [][StackNext]_stackVars

----------------------------------------------------------------------------
StackClusters == [st : {"none", "running", "stopped"}, offers : BOOLEAN, cid : Nat, img : Nat]
Processes == [kind : {"ours", "k3s", "other"}, start : Nat]
PidRecords == [pid : Pids, start : Nat]
StackCommands ==
    [pc : {"idle", "switch", "destroy", "cleanup", "config", "id", "backend", "upK3d", "upK3s", "record",
           "kubeconfig", "images", "synced", "stop", "delete", "check", "signal", "killall", "remove"},
     name : {"none", "init", "up", "down", "purge"}, yes : BOOLEAN, to : {"k3d", "k3s"}, held : BOOLEAN,
     id : StackIDs \cup {None}, rec : PidRecords \cup {None}, was : BOOLEAN]

StackTypeOK ==
    /\ sid \in StackIDs \cup {None} /\ backend \in {None, "k3d", "k3s"} /\ conf \subseteq {"k3d", "k3s"}
    /\ pidRec \in PidRecords \cup {None} /\ kubeconf \in StackIDs \cup {Server, None}
    /\ k3d \in [StackIDs -> StackClusters] /\ proc \in [Pids -> Processes \cup {None}]
    /\ imported \in [StackIDs -> [dig : Nat, cid : Nat]] /\ scmd \in StackCommands
    /\ {built, clock, cids, sfaults, scmds} \subseteq Nat /\ k3sOffers \in BOOLEAN
    /\ used \subseteq StackIDs /\ orphans \subseteq StackIDs \cup {Server} /\ harm \subseteq {"consent", "signal"}

(***************************************************************************)
(* A cluster that held live offers when the gate decided is never deleted  *)
(* without a yes: not by purge, not by a backend switch, not when the      *)
(* cluster could not be asked (safety.go:58-74, backend_k3d.go:238-241).   *)
(* The exception is in AtGate: a k3s server left running by a switch whose *)
(* signal failed may answer for the k3d cluster through the old kubeconfig *)
(* (stack.go:208-225).                                                     *)
(***************************************************************************)
DestroyedOnlyByConsent == "consent" \notin harm

(***************************************************************************)
(* "Never signal a PID we cannot prove is still our k3s server": across    *)
(* reboots, exits and reused PIDs a process that was not our server when   *)
(* it was checked is never signalled (backend_k3s.go:264-266,              *)
(* k3s_proc.go:132-134).  Records of older versions carry no start time.   *)
(***************************************************************************)
SignalledWasOurs == "signal" \notin harm

(***************************************************************************)
(* Between commands every k3d cluster is the recorded stack's and the k3s  *)
(* server alive is the recorded one, so that some obol command can still   *)
(* address it; a failed destroy, a failed signal or a crash before the     *)
(* record is the only way to lose one (stack.go:66-72, 413-425).           *)
(***************************************************************************)
ClusterIsAddressable ==
    scmd = SIdle =>
        /\ \A i \in StackIDs \ orphans : k3d[i].st # "none" => i = sid /\ LoadBackend = "k3d"
        /\ Ours # {} /\ Server \notin orphans => pidRec # None /\ Ours = {pidRec.pid} /\ LoadBackend = "k3s"

(***************************************************************************)
(* An up that got as far as the sync has the current dev image in its      *)
(* cluster, imported now or on an earlier up, although clusters are deleted*)
(* and created again under one name and images are rebuilt under one tag   *)
(* (stack.go:1230-1241, 1278-1307).                                        *)
(***************************************************************************)
SyncedClusterHasImage ==
    scmd.pc = "synced" /\ LoadBackend = "k3d" /\ Exists => k3d[sid].img = built

(***************************************************************************)
(* What is checked of the stack commands over both backends (stack.go,     *)
(* backend_k3d.go, backend_k3s.go).                                        *)
(***************************************************************************)
StackInv ==
    /\ StackTypeOK
    /\ DestroyedOnlyByConsent
    /\ SignalledWasOurs
    /\ ClusterIsAddressable
    /\ SyncedClusterHasImage
=============================================================================
