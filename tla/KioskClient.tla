---------------------------- MODULE KioskClient -----------------------------
(***************************************************************************)
(* The technician's kiosk (payload_client/backend/main.py): the archives   *)
(* cached on its USB volume, the copy of a node's archive from the         *)
(* orchestrator (run_kiosk_sync, routers/iso.py download_repo) and the     *)
(* restore from either (run_offline_restore), beside the orchestrator's    *)
(* own flash_restore_device.                                               *)
(*                                                                         *)
(* Each node has one archive and stands for it.  The cache of a node is a  *)
(* directory with a repository, "part" while or after it was not copied to *)
(* its end, and the layout file ("meta") that gives its id.                *)
(***************************************************************************)
EXTENDS Restore

CONSTANTS
    Syncs,       \* tasks of run_kiosk_sync
    Fleet,       \* the orchestrator's repository, as a source
    Cached,      \* archives an earlier copy has left whole in the cache
    MaxRequests  \* bound on what technician and operator ask for

ASSUME KioskClientAssumption ==
    /\ Fleet \notin Layouts
    /\ Cached \subseteq Archives
    /\ MaxRequests \in Nat

VARIABLES
    kept,        \* archives the orchestrator's repository holds
    link,        \* the kiosk reaches the orchestrator
    cache,       \* the USB cache of each node
    sync,        \* each copy
    crossed,     \* copies during which another wrote the same cache
    requests

clientVars == <<kept, link, cache, sync, crossed, requests>>
vars == <<restoreVars, clientVars>>

NoCache == [data |-> "none", meta |-> FALSE]

ClientInit ==
    /\ Init
    /\ kept = Archives
    /\ link \in BOOLEAN
    /\ cache = [a \in Archives |-> IF a \in Cached THEN [data |-> "whole", meta |-> TRUE] ELSE NoCache]
    /\ sync = [s \in Syncs |-> [pc |-> "idle", node |-> DefaultLayout, meta |-> FALSE,
                                swept |-> FALSE, told |-> "NONE"]]
    /\ crossed = {}
    /\ requests = 0

\* Where a restore and a copy can be, and what is told of them.
Places == {"idle", "sent", "preflight", "resolve", "check", "done", "dead"} \cup AtWork
Words == {"NONE", "RUNNING", "FAILED", "SUCCESS"}
Content == Archives \cup {"old", "raw", "empty", "part", "mixed"}
Mounts == [disk : Disks, by : Runs]
Names == [list : Layouts \cup {"old", "raw", "none"}, esp : Serials \cup {NoSerial}]
Executions ==
    [pc : Places, via : {"none", "flash", "online", "offline"}, host : Hosts,
     disk : Disks \cup {NoDisk}, arch : Layouts, layout : Plans,
     source : Layouts \cup {Fleet}, readable : BOOLEAN, cwd : Mounts \cup {Nowhere},
     again : BOOLEAN, told : Words]
Copies ==
    [pc : {"idle", "meta", "open", "stream", "done"}, node : Layouts, meta : BOOLEAN,
     swept : BOOLEAN, told : Words]

TypeOK ==
    /\ disk \in [Disks -> [root : Content, sub : Content, table : Names, fstab : Names,
                           boots : BOOLEAN, by : Runs \cup {NoRun}]]
    /\ mounts \in [Hosts -> Seq(Mounts)]
    /\ run \in [Runs -> Executions]
    /\ lapped \subseteq Runs
    /\ kept \subseteq Archives
    /\ link \in BOOLEAN
    /\ cache \in [Archives -> [data : {"none", "part", "whole"}, meta : BOOLEAN]]
    /\ sync \in [Syncs -> Copies]
    /\ crossed \subseteq Syncs
    /\ faults \in 0 .. MaxFaults /\ requests \in 0 .. MaxRequests

Asked == requests < MaxRequests /\ requests' = requests + 1

----------------------------------------------------------------------------
(* The restore, from the request to the source of its data.                *)

\* The orchestrator's operator, and the technician.
TriggerFlash(x, d, a) ==
    /\ Asked
    /\ HostOf[d] = Orchestrator
    /\ Request(x, "flash", d, a, "sent")
    /\ UNCHANGED <<kept, link, cache, sync, crossed>>
TriggerRestore(x, d, a, via) ==
    /\ Asked
    /\ HostOf[d] = Kiosk
    /\ via \in {"online", "offline"}
    /\ Request(x, via, d, a, "preflight")
    /\ UNCHANGED <<kept, link, cache, sync, crossed>>

\* run_offline_restore gives up before format_and_restore is called.
GivesUp(x) == run' = [run EXCEPT ![x].pc = "done", ![x].told = "FAILED"]

\* Only an online restore asks whether its source is there.
Preflight(x) ==
    /\ At(x, "preflight")
    /\ IF run[x].via = "online" /\ ~link THEN GivesUp(x) ELSE Goes(x, "resolve")
    /\ UNCHANGED <<disk, mounts, lapped, faults, clientVars>>

\* get_kiosk_nodes, offline: a directory with a layout file has the node's id,
\* another one an id that depends on its place in the listing, so the id that
\* was asked for may be any such directory's by now, or nobody's.
Listed(a) ==
    IF cache[a].meta THEN {a}
    ELSE {m \in Archives : cache[m].data # "none" /\ ~cache[m].meta}

\* What the kiosk makes of a node whose record, or the copy of it in the layout
\* file, it has read: the list that was collected, or its default one; and
\* beside either the node's efi_uuid, if there is one.
KioskPlan(a) ==
    LET efi == IF EfiUuid[a] = NoSerial THEN DefaultSerial ELSE EfiUuid[a] IN
    IF a \in Recorded THEN [list |-> a, esp |-> EspUuid[a], efi |-> efi]
    ELSE [DefaultPlan EXCEPT !.efi = efi]
CachedPlan(m) == IF cache[m].meta THEN KioskPlan(m) ELSE DefaultPlan

\* The repository and the layout.  Online it is the orchestrator's, be the
\* archive in the cache or not; offline the cache's, be the archive in it or not.
ResolveOnline(x) ==
    /\ run[x].via = "online" /\ link
    /\ \/ /\ run' = [run EXCEPT ![x].pc = "check", ![x].source = Fleet,
                                ![x].layout = KioskPlan(run[x].arch)]
          /\ UNCHANGED faults
       \/ /\ Fault    \* the second request for the nodes fails
          /\ run' = [run EXCEPT ![x].pc = "check", ![x].source = Fleet,
                                ![x].layout = CachedPlan(run[x].arch)]
ResolveOffline(x) ==
    /\ run[x].via = "offline"
    /\ \E m \in Listed(run[x].arch) :
         run' = [run EXCEPT ![x].pc = "check", ![x].source = m, ![x].layout = CachedPlan(m)]
    /\ UNCHANGED faults
NotFound(x) ==
    /\ \/ run[x].via = "online" /\ ~link
       \/ run[x].via = "offline" /\ ~cache[run[x].arch].meta
    /\ GivesUp(x)
    /\ UNCHANGED faults
Resolve(x) ==
    /\ At(x, "resolve")
    /\ ResolveOnline(x) \/ ResolveOffline(x) \/ NotFound(x)
    /\ UNCHANGED <<disk, mounts, lapped, clientVars>>

----------------------------------------------------------------------------
(* The extraction from the source.                                         *)

Remote(x) == run[x].via # "offline"
Readable(x) ==
    IF Remote(x) THEN run[x].arch \in kept /\ (run[x].via = "flash" \/ link)
    ELSE run[x].source = run[x].arch /\ cache[run[x].arch].data = "whole"

Begins(x) ==
    /\ ExtractBegins(x, Readable(x))
    /\ UNCHANGED clientVars

\* Borg checks every chunk it reads.
Ends(x) ==
    /\ run[x].readable
    /\ run[x].via = "online" => link
    /\ ExtractEnds(x)
    /\ UNCHANGED clientVars

\* The archive is not there, the link is lost, the cache is replaced under the
\* extraction, or it fails by itself.
Fails(x) ==
    /\ ExtractFails(x)
    /\ IF Readable(x) /\ run[x].readable THEN Fault ELSE UNCHANGED faults
    /\ UNCHANGED clientVars

----------------------------------------------------------------------------
(* The copy of an archive to the USB volume.                               *)

SyncAt(s, pc) == sync[s].pc = pc
SyncTells(s, word) == sync' = [sync EXCEPT ![s].pc = "done", ![s].told = word]
Streaming(n) == {s \in Syncs : SyncAt(s, "stream") /\ sync[s].node = n}

TriggerSync(s, n) ==
    /\ Asked
    /\ SyncAt(s, "idle")
    /\ sync' = [sync EXCEPT ![s].pc = "meta", ![s].node = n, ![s].told = "RUNNING"]
    /\ UNCHANGED <<restoreVars, kept, link, cache, crossed>>

\* The layout is fetched first; without it the copy goes on.
FetchMeta(s) ==
    /\ SyncAt(s, "meta")
    /\ sync' = [sync EXCEPT ![s].pc = "open", ![s].meta = link]
    /\ UNCHANGED <<restoreVars, kept, link, cache, crossed, requests>>

\* download_repo has built the repository to send, or has answered an error:
\* only then the old cache is removed.
OpenStream(s) ==
    /\ SyncAt(s, "open")
    /\ link /\ sync[s].node \in kept
    /\ cache' = [cache EXCEPT ![sync[s].node] = [data |-> "part", meta |-> FALSE]]
    /\ sync' = [sync EXCEPT ![s].pc = "stream"]
    /\ crossed' = crossed \cup (IF Streaming(sync[s].node) = {} THEN {}
                                ELSE Streaming(sync[s].node) \cup {s})
    /\ UNCHANGED <<restoreVars, kept, link, requests>>
OpenRefused(s) ==
    /\ SyncAt(s, "open")
    /\ IF link /\ sync[s].node \in kept THEN Fault ELSE UNCHANGED faults
    /\ SyncTells(s, "FAILED")
    /\ UNCHANGED <<disk, mounts, run, lapped, kept, link, cache, crossed, requests>>

\* sweep_stale_download_temps takes the repository of a download that has been
\* going on for half a day; its tar ends early, and the stream ends well.
SweepTemps(s) ==
    /\ Fault
    /\ SyncAt(s, "stream") /\ ~sync[s].swept
    /\ sync' = [sync EXCEPT ![s].swept = TRUE]
    /\ UNCHANGED <<disk, mounts, run, lapped, kept, link, cache, crossed, requests>>

\* The stream has ended and the kiosk's tar is content; the layout is written
\* last.  Nobody looks at the exit status of the tar at the other end, so a part
\* may pass for the whole: always when its source was swept, perhaps when two
\* wrote the cache, and whenever that tar has failed for a reason of its own.
Arrives(s, data) ==
    \/ data = "whole" /\ ~sync[s].swept /\ UNCHANGED faults
    \/ data = "part" /\ (IF sync[s].swept \/ s \in crossed THEN UNCHANGED faults ELSE Fault)
SyncEnds(s) ==
    /\ SyncAt(s, "stream")
    /\ link
    /\ \E data \in {"part", "whole"} :
         /\ Arrives(s, data)
         /\ cache' = [cache EXCEPT ![sync[s].node] = [data |-> data, meta |-> sync[s].meta]]
    /\ SyncTells(s, "SUCCESS")
    /\ UNCHANGED <<disk, mounts, run, lapped, kept, link, crossed, requests>>

\* A cut stream, or a tar that fails: the cache stays as far as it got.
SyncCut(s) ==
    /\ SyncAt(s, "stream")
    /\ IF link /\ s \notin crossed THEN Fault ELSE UNCHANGED faults
    /\ SyncTells(s, "FAILED")
    /\ UNCHANGED <<disk, mounts, run, lapped, kept, link, cache, crossed, requests>>

----------------------------------------------------------------------------
(* The environment.                                                        *)

LinkDown ==
    /\ Fault /\ link
    /\ link' = FALSE
    /\ UNCHANGED <<disk, mounts, run, lapped, kept, cache, sync, crossed, requests>>
LinkUp ==
    /\ ~link
    /\ link' = TRUE
    /\ UNCHANGED <<restoreVars, kept, cache, sync, crossed, requests>>

\* A prune takes an archive somebody may have chosen; borg's lock keeps it
\* away from an extraction.
Prune(a) ==
    /\ Fault
    /\ a \in kept
    /\ \A x \in Runs : run[x].pc \in {"extract", "orphan"} /\ Remote(x) => run[x].arch # a
    /\ kept' = kept \ {a}
    /\ UNCHANGED <<disk, mounts, run, lapped, link, cache, sync, crossed, requests>>

\* The kiosk's backend dies with its threads and their borg and tar, and its
\* task dictionaries; the mounts and the cache stay.
BackendDies ==
    /\ Fault
    /\ \/ \E x \in Runs : run[x].host = Kiosk /\ run[x].pc \in AtWork
       \/ \E s \in Syncs : SyncAt(s, "stream")
    /\ run' = [x \in Runs |->
                 IF run[x].host = Kiosk /\ run[x].pc \notin {"idle", "dead"}
                 THEN [run[x] EXCEPT !.pc = "dead", !.told = "NONE"] ELSE run[x]]
    /\ disk' = [d \in Disks |->
                  IF \E x \in Runs : run[x].host = Kiosk /\ At(x, "extract") /\ run[x].cwd.disk = d
                  THEN [disk[d] EXCEPT !.root = "part", !.sub = "part"] ELSE disk[d]]
    /\ sync' = [s \in Syncs |->
                  IF SyncAt(s, "idle") THEN sync[s]
                  ELSE [sync[s] EXCEPT !.pc = "done", !.told = "NONE"]]
    /\ UNCHANGED <<mounts, lapped, kept, link, cache, crossed, requests>>

----------------------------------------------------------------------------
RestoreSteps(x) ==
    \/ ExecuteRestore(x) \/ Check(x) \/ Wipe(x) \/ Format(x)
    \/ Clear(x) \/ RemoveTree(x) \/ MountPartitions(x)
    \/ Configure(x) \/ Bind(x) \/ InstallBootloader(x) \/ Adapt(x)
    \/ AuditFstab(x) \/ InstallCheckin(x)
    \/ Unmount(x) \/ Report(x) \/ Unwind(x)
    \/ Breaks(x) \/ WorkerLost(x) \/ OrphanEnds(x)
    \/ \E y \in Runs : Redeliver(x, y)

Next ==
    \/ \E x \in Runs, d \in Disks, a \in Archives :
         \/ TriggerFlash(x, d, a)
         \/ \E via \in {"online", "offline"} : TriggerRestore(x, d, a, via)
    \/ \E x \in Runs :
         \/ RestoreSteps(x) /\ UNCHANGED clientVars
         \/ Preflight(x) \/ Resolve(x) \/ Begins(x) \/ Ends(x) \/ Fails(x)
    \/ \E s \in Syncs, n \in Archives : TriggerSync(s, n)
    \/ \E s \in Syncs :
         \/ FetchMeta(s) \/ OpenStream(s) \/ OpenRefused(s)
         \/ SweepTemps(s) \/ SyncEnds(s) \/ SyncCut(s)
    \/ LinkDown \/ LinkUp
    \/ \E a \in Archives : Prune(a)
    \/ BackendDies

Spec == ClientInit /\ [][Next]_vars

=============================================================================
