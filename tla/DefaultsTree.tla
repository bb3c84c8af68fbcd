--------------------------- MODULE DefaultsTree ---------------------------
(***************************************************************************)
(* The rendered defaults tree ($CONFIG/defaults) with the operator's hand  *)
(* edits in it (internal/defaults/preserve.go), the image pins written     *)
(* into it (internal/images) and the commands that rewrite it: stack init, *)
(* stack up, upgrade (internal/update) and stack import.  obol tells an    *)
(* edit from a default by a manifest it writes after the files.            *)
(***************************************************************************)
EXTENDS Integers

CONSTANTS TreeFiles,     \* files of the tree; upgrade bumps chart versions in Helmfile
          Helmfile,
          Absent,        \* no file, no manifest entry, no pin, no archive
          Shipped,       \* release of obol -> files it ships
          MaxTreeCmds,   \* bound: commands
          MaxTreeEdits,  \* bound: hand edits
          MaxTreeFaults  \* bound: crashes, retags

Releases == DOMAIN Shipped

\* A file: the hand edit in it, the release and image digest it was rendered
\* from, and the chart versions upgrade has bumped it to.
TreeContents == [edit : Nat, rel : Releases, dig : 0..2, bump : {0, 1}]
Trees == [TreeFiles -> TreeContents \cup {Absent}]

ASSUME TreeAssumption ==
    /\ Helmfile \in TreeFiles
    /\ Releases \subseteq Nat \ {0}
    /\ \A r \in Releases : Shipped[r] \subseteq TreeFiles
    /\ {MaxTreeCmds, MaxTreeEdits, MaxTreeFaults} \subseteq Nat
    /\ Absent \notin TreeContents /\ Absent \notin Trees
    /\ Absent \notin [disk : Trees, listed : Trees \cup {Absent}, waiting : Trees, stamp : Releases \cup {0}]
    /\ Absent \notin [Releases -> 0..2]

VARIABLES disk,     \* file -> content
          listed,   \* manifest: file -> content obol wrote, or Absent as a whole
          waiting,  \* defaults.obol-new: file -> newer default set aside
          saved,    \* contents in defaults.bak.* directories
          stamp,    \* release the tree was last rendered from
          binary,   \* release of the obol binary
          pins,     \* image-digests.json: release (the tag) -> digest
          served,   \* registry: release -> digest behind its tag
          tarball,  \* stack archive with a tree in it
          appPin,   \* an application instance's helmfile: chart version bumped (1) or not
          live,     \* helmfile content last synced to the cluster
          tcmd, tedits, tfaults, tcmds,
          bound,    \* release -> digest its tag was first bound to
          cut       \* releases whose refresh (or any, a rewrite) was cut short

treeVars == <<disk, listed, waiting, saved, stamp, binary, pins, served, tarball, appPin, live,
              tcmd, tedits, tfaults, tcmds, bound, cut>>
treeWorld == <<binary, served, tedits>>
treeCluster == <<appPin, live>>

Contents == {disk[f] : f \in TreeFiles} \ {Absent}
Default(r, d) == [edit |-> 0, rel |-> r, dig |-> d, bump |-> 0]
\* A command under way: its refresh, and the helmfile before a bump.
TIdle == [pc |-> "idle", reset |-> FALSE, dig |-> 0, left |-> {}, keep |-> {}, then |-> "end", before |-> Absent]
TAt(pc) == [TIdle EXCEPT !.pc = pc]
TBegin(c) == tcmd = TIdle /\ tcmds < MaxTreeCmds /\ tcmds' = tcmds + 1 /\ tcmd' = c
TFault == tfaults < MaxTreeFaults /\ tfaults' = tfaults + 1

----------------------------------------------------------------------------
\* Image pins.

\* loadPersistedDigest: a recorded pin is used as it is, without --refresh.
PinFirst(d) == d # 0 /\ pins # Absent /\ d = pins[binary]

\* resolvePinned: the digest a render writes: the recorded pin, or what the
\* registry serves, or (offline, 0) the bare tag.
ResolvePinned(d) ==
    IF pins # Absent /\ pins[binary] # 0 THEN PinFirst(d) ELSE d \in {0, served[binary]}

\* persistDigest, from the map read at the start of the process: a file that
\* could not be parsed reads as an empty map.
PersistDigest(d) ==
    /\ pins' = IF d = 0 THEN pins
               ELSE [r \in Releases |-> IF r = binary THEN d ELSE IF pins = Absent THEN 0 ELSE pins[r]]
    /\ bound' = IF d # 0 /\ bound[binary] = 0 THEN [bound EXCEPT ![binary] = d] ELSE bound

----------------------------------------------------------------------------
\* RefreshInfrastructure.

\* What each command asks of a refresh: init resets the whole tree, upgrade
\* forces a render and bumps chart versions after it, up does neither.
InitMode == [force |-> TRUE, reset |-> TRUE, then |-> "end"]
UpgradeMode(reset) == [force |-> TRUE, reset |-> reset, then |-> "bump"]
UpMode(reset) == [force |-> FALSE, reset |-> reset, then |-> "sync"]
RefreshModes == {InitMode} \cup UNION {{UpgradeMode(r), UpMode(r)} : r \in BOOLEAN}

\* infrastructureStamp: nothing to do while the stamp is this binary's.
StampCurrent == stamp = binary /\ disk[Helmfile] # Absent

\* renderInfrastructure into a staging directory: the digests the images of
\* this release resolve to.
Rendered == {d \in 0..2 : ResolvePinned(d)}

\* The command up to the first file it writes.
RefreshBegins ==
    \E m \in RefreshModes, d \in Rendered :
        /\ m.then = "bump" => stamp # 0
        /\ m.force \/ m.reset \/ ~StampCurrent
        /\ TBegin([TIdle EXCEPT !.pc = "files", !.reset = m.reset, !.dig = d, !.left = TreeFiles, !.then = m.then])
        /\ PersistDigest(d)
        /\ UNCHANGED <<disk, listed, waiting, saved, stamp, tarball, tfaults, cut, treeCluster, treeWorld>>

\* PendingDefaults on an up with nothing to refresh: a default the operator
\* took by copying it over the file waits no longer.
RefreshSkipped ==
    /\ StampCurrent /\ TBegin(TAt("sync"))
    /\ waiting' = [f \in TreeFiles |-> IF disk[f] = waiting[f] THEN Absent ELSE waiting[f]]
    /\ UNCHANGED <<disk, listed, saved, stamp, pins, bound, tarball, tfaults, cut, treeCluster, treeWorld>>

\* Mutant: without a manifest entry a file counts as obol's own.
EditedTracked(f) == listed # Absent /\ listed[f] # Absent /\ disk[f] # listed[f]

\* A file whose content is not what the manifest says obol wrote.
Edited(f) == listed = Absent \/ listed[f] = Absent \/ disk[f] # listed[f]

\* Whether an edited file's shipped default changed, now or in an earlier
\* refresh the operator has not acted on.
NewerDefault(f, new) == listed = Absent \/ listed[f] # new \/ waiting[f] # Absent

\* The decision for one file the release ships.
RefreshFile(f) ==
    LET new == Default(binary, tcmd.dig)
        kept == disk[f] # Absent /\ disk[f] # new /\ Edited(f) /\ ~tcmd.reset /\ listed # Absent
        news == NewerDefault(f, new)
    IN  /\ f \in Shipped[binary]
        /\ disk' = IF kept THEN disk ELSE [disk EXCEPT ![f] = new]
        /\ saved' = IF ~kept /\ disk[f] \notin {Absent, new} /\ Edited(f) THEN saved \cup {disk[f]} ELSE saved
        /\ waiting' = IF kept /\ news THEN [waiting EXCEPT ![f] = new] ELSE waiting
        /\ tcmd' = [tcmd EXCEPT !.left = @ \ {f}, !.keep = IF kept /\ news THEN @ \cup {f} ELSE @]

\* A file obol shipped before and no longer does: removed unless it was edited.
RefreshGone(f) ==
    LET ours == listed # Absent /\ listed[f] # Absent
        drop == ours /\ disk[f] # Absent /\ (~Edited(f) \/ tcmd.reset)
    IN  /\ f \notin Shipped[binary]
        /\ Shipped[binary] \cap tcmd.left = {}
        /\ disk' = IF drop THEN [disk EXCEPT ![f] = Absent] ELSE disk
        /\ saved' = IF drop /\ Edited(f) THEN saved \cup {disk[f]} ELSE saved
        /\ waiting' = waiting
        /\ tcmd' = [tcmd EXCEPT !.left = @ \ {f}]

RefreshStep ==
    /\ tcmd.pc = "files"
    /\ \E f \in tcmd.left : RefreshFile(f) \/ RefreshGone(f)
    /\ UNCHANGED <<listed, stamp, pins, bound, tarball, tfaults, tcmds, cut, treeCluster, treeWorld>>

\* The stamp comes last, after the manifest.
StampLast == tcmd.pc = "stamp"

\* prunePending, then the manifest of everything the release ships.
RefreshManifest ==
    /\ tcmd.pc = "files" /\ tcmd.left = {}
    /\ waiting' = [f \in TreeFiles |-> IF f \in tcmd.keep THEN waiting[f] ELSE Absent]
    /\ listed' = [f \in TreeFiles |-> IF f \in Shipped[binary] THEN Default(binary, tcmd.dig) ELSE Absent]
    /\ tcmd' = [tcmd EXCEPT !.pc = "stamp"]
    /\ UNCHANGED <<disk, saved, stamp, pins, bound, tarball, tfaults, tcmds, cut, treeCluster, treeWorld>>

RefreshStamp ==
    /\ StampLast /\ stamp # binary
    /\ stamp' = binary
    /\ UNCHANGED <<disk, listed, waiting, saved, tcmd, pins, bound, tarball, tfaults, tcmds, cut, treeCluster, treeWorld>>

RefreshEnds ==
    /\ tcmd.pc = "stamp" /\ stamp = binary
    /\ tcmd' = IF tcmd.then = "end" THEN TIdle ELSE TAt(tcmd.then)
    /\ UNCHANGED <<disk, listed, waiting, saved, stamp, pins, bound, tarball, tfaults, tcmds, cut, treeCluster, treeWorld>>

----------------------------------------------------------------------------
\* ApplyUpgrades after the refresh: chart versions, then the sync.

\* A chart whose newest version is a major one, or that no repository lists,
\* is left alone, and so is the rest of the file.
BumpSkipped ==
    /\ tcmd.pc = "bump" /\ tcmd' = TAt("sync")
    /\ UNCHANGED <<disk, listed, waiting, saved, stamp, pins, bound, tarball, tfaults, tcmds, cut, treeCluster, treeWorld>>

\* upgradeOneHelmfile rewrites the defaults helmfile, edited or not ...
BumpHelmfile ==
    /\ tcmd.pc = "bump" /\ disk[Helmfile] # Absent /\ disk[Helmfile].bump = 0
    /\ disk' = [disk EXCEPT ![Helmfile].bump = 1]
    /\ tcmd' = [TAt("record") EXCEPT !.before = disk[Helmfile]]
    /\ UNCHANGED <<listed, waiting, saved, stamp, pins, bound, tarball, tfaults, tcmds, cut, treeCluster, treeWorld>>

\* ... and RecordRewrite lets only a file that was unedited before stay unedited.
RecordRewrite ==
    /\ tcmd.pc = "record"
    /\ listed' = IF listed # Absent /\ listed[Helmfile] = tcmd.before
                 THEN [listed EXCEPT ![Helmfile] = disk[Helmfile]] ELSE listed
    /\ tcmd' = TAt("sync")
    /\ UNCHANGED <<disk, waiting, saved, stamp, pins, bound, tarball, tfaults, tcmds, cut, treeCluster, treeWorld>>

\* An instance helmfile that pins the same chart is bumped only when the
\* defaults helmfile was not: the chart counts as done once it is reported.
BumpInstance ==
    /\ tcmd.pc = "bump" /\ appPin = 0
    /\ disk[Helmfile] # Absent /\ disk[Helmfile].bump = 1
    /\ appPin' = 1 /\ tcmd' = TAt("sync")
    /\ UNCHANGED <<disk, listed, waiting, saved, stamp, pins, bound, tarball, tfaults, tcmds, cut, live, treeWorld>>

\* helmfile sync, CRDs first, then networks and apps: done, or stopped by the
\* first error with the tree already rewritten.
SyncTree ==
    /\ tcmd.pc = "sync" /\ tcmd' = TIdle
    /\ live' \in {live, disk[Helmfile]}
    /\ UNCHANGED <<disk, listed, waiting, saved, stamp, pins, bound, tarball, tfaults, tcmds, cut, appPin, treeWorld>>

\* The process ends between two writes.
TreeCrash ==
    /\ tcmd # TIdle /\ TFault
    /\ cut' = cut \cup CASE tcmd.pc \in {"files", "stamp"} -> {binary} [] tcmd.pc = "record" -> Releases [] OTHER -> {}
    /\ tcmd' = TIdle
    /\ UNCHANGED <<disk, listed, waiting, saved, stamp, pins, bound, tarball, tcmds, treeCluster, treeWorld>>

----------------------------------------------------------------------------
\* Export and import of the tree.

ExportTree ==
    /\ stamp # 0 /\ TBegin(TIdle)
    /\ tarball' = [disk |-> disk, listed |-> listed, waiting |-> waiting, stamp |-> stamp]
    /\ UNCHANGED <<disk, listed, waiting, saved, stamp, pins, bound, tfaults, cut, treeCluster, treeWorld>>

\* handEdited: without a manifest every file counts.
HandEdited == {f \in TreeFiles : disk[f] # Absent /\ Edited(f)}

\* ClearForRestore: the pending copies go, a tree with edits in it is set aside ...
ClearForRestore ==
    /\ tarball # Absent /\ TBegin(TAt("restore"))
    /\ waiting' = [f \in TreeFiles |-> Absent]
    /\ saved' = IF HandEdited = {} THEN saved ELSE saved \cup Contents
    /\ disk' = [f \in TreeFiles |-> Absent] /\ listed' = Absent /\ stamp' = 0
    /\ UNCHANGED <<pins, bound, tarball, tfaults, cut, treeCluster, treeWorld>>

\* ... and the archive's tree, its manifest included, takes its place.
RestoreTree ==
    /\ tcmd.pc = "restore"
    /\ disk' = tarball.disk /\ listed' = tarball.listed
    /\ waiting' = tarball.waiting /\ stamp' = tarball.stamp
    /\ tcmd' = TIdle
    /\ UNCHANGED <<saved, pins, bound, tarball, tfaults, tcmds, cut, treeCluster, treeWorld>>

----------------------------------------------------------------------------
\* The operator and the world.

HandEdit ==
    \E f \in TreeFiles :
        /\ tcmd = TIdle /\ disk[f] # Absent /\ tedits < MaxTreeEdits
        /\ disk[f].edit = 0   \* the operator does not overwrite an edit of his own
        /\ tedits' = tedits + 1
        /\ disk' = [disk EXCEPT ![f].edit = tedits + 1]
        /\ UNCHANGED <<listed, waiting, saved, stamp, binary, served, pins, tarball, tcmd, tfaults, tcmds, bound, cut, treeCluster>>

\* The operator copies the default that waits for a file over it (the edit is
\* his to give up, and counts as saved).
TakePending ==
    \E f \in TreeFiles :
        /\ tcmd = TIdle /\ waiting[f] # Absent /\ disk[f] \notin {Absent, waiting[f]}
        /\ disk' = [disk EXCEPT ![f] = waiting[f]]
        /\ saved' = saved \cup {disk[f]}
        /\ UNCHANGED <<listed, waiting, stamp, binary, served, pins, tarball, tcmd, tedits, tfaults, tcmds, bound, cut, treeCluster>>

NewBinary ==
    \E r \in Releases \ {binary} :
        /\ TBegin(TIdle) /\ binary' = r
        /\ UNCHANGED <<disk, listed, waiting, saved, stamp, pins, bound, tarball, tfaults, cut, served, tedits, treeCluster>>

\* A published tag is overwritten with another image.
Retag ==
    \E r \in Releases :
        /\ TFault
        /\ served' = [served EXCEPT ![r] = 3 - @]
        /\ UNCHANGED <<disk, listed, waiting, saved, stamp, binary, pins, tarball, tcmd, tedits, tcmds, bound, cut, treeCluster>>

TreeInit ==
    /\ disk = [f \in TreeFiles |-> Absent] /\ listed = Absent /\ waiting = disk /\ saved = {} /\ stamp = 0
    /\ binary \in Releases /\ pins = Absent /\ served = [r \in Releases |-> 1]
    /\ tarball = Absent /\ appPin = 0 /\ live = Absent /\ tcmd = TIdle /\ tedits = 0 /\ tfaults = 0 /\ tcmds = 0
    /\ bound = [r \in Releases |-> 0] /\ cut = {}

TreeNext ==
    \/ RefreshBegins \/ RefreshSkipped \/ RefreshStep \/ RefreshManifest \/ RefreshStamp \/ RefreshEnds
    \/ BumpHelmfile \/ RecordRewrite \/ BumpInstance \/ BumpSkipped \/ SyncTree \/ TreeCrash
    \/ ExportTree \/ ClearForRestore \/ RestoreTree
    \/ HandEdit \/ TakePending \/ NewBinary \/ Retag

TreeSpec == TreeInit /\ [][TreeNext]_treeVars

----------------------------------------------------------------------------
Tarballs == [disk : Trees, listed : Trees \cup {Absent}, waiting : Trees, stamp : Releases \cup {0}]
TreeCommands ==
    [pc : {"idle", "files", "stamp", "bump", "record", "sync", "restore"}, reset : BOOLEAN, dig : 0..2,
     left : SUBSET TreeFiles, keep : SUBSET TreeFiles, then : {"end", "bump", "sync"},
     before : TreeContents \cup {Absent}]

TreeTypeOK ==
    /\ disk \in Trees /\ listed \in Trees \cup {Absent} /\ waiting \in Trees /\ saved \subseteq TreeContents
    /\ stamp \in Releases \cup {0} /\ binary \in Releases /\ cut \subseteq Releases
    /\ pins \in [Releases -> 0..2] \cup {Absent} /\ bound \in [Releases -> 0..2] /\ served \in [Releases -> 1..2]
    /\ tarball \in Tarballs \cup {Absent} /\ tcmd \in TreeCommands
    /\ appPin \in {0, 1} /\ live \in TreeContents \cup {Absent} /\ {tedits, tfaults, tcmds} \subseteq Nat
    /\ \A c \in Contents \cup saved : c.edit \in 0..tedits

(***************************************************************************)
(* A hand edit is never lost: whatever refreshes, resets, upgrades, imports*)
(* and crashes come after it, it is in the tree, in a backup or in the     *)
(* archive an import puts back (preserve.go:23-32, 133-144).               *)
(***************************************************************************)
HandEditsSurvive ==
    \A n \in 1..tedits :
        \E c \in Contents \cup saved : c.edit = n

(***************************************************************************)
(* A tree whose stamp says it is current is current: every file of the     *)
(* release is there, and one that nobody edited is the release's own.  A   *)
(* refresh that was cut is done again, unless another release's was cut    *)
(* (preserve.go:145-160, 287-295).                                         *)
(***************************************************************************)
StampedTreeIsCurrent ==
    tcmd = TIdle /\ stamp # 0 /\ cut \subseteq {stamp} =>
        \A f \in Shipped[stamp] :
            /\ disk[f] # Absent
            /\ disk[f].edit = 0 => disk[f].rel = stamp

(***************************************************************************)
(* An edited file that is behind the release keeps being reported: its new *)
(* default waits in defaults.obol-new until the operator acts on it,       *)
(* unless a refresh was cut in the middle (preserve.go:137-139, 233-242).  *)
(***************************************************************************)
SkippedDefaultIsPending ==
    tcmd = TIdle /\ listed # Absent /\ cut = {} =>
        \A f \in TreeFiles :
            (disk[f] # Absent /\ listed[f] # Absent /\ disk[f].edit # 0 /\ disk[f].rel # listed[f].rel)
                => waiting[f] # Absent

(***************************************************************************)
(* "Prefer a durable local pin": a release's images stay at the digest the *)
(* first render bound, although its tag moves on the registry              *)
(* (images.go:210-243).                                                    *)
(***************************************************************************)
PinnedImagesStay ==
    \A c \in Contents : c.dig # 0 => c.dig = bound[c.rel]

(***************************************************************************)
(* What is checked of the refreshes, upgrades, exports and imports of the  *)
(* defaults tree (preserve.go, images.go).                                 *)
(***************************************************************************)
TreeInv ==
    /\ TreeTypeOK
    /\ HandEditsSurvive
    /\ StampedTreeIsCurrent
    /\ SkippedDefaultIsPending
    /\ PinnedImagesStay
=============================================================================
