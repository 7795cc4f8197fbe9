------------------------------ MODULE Restore -------------------------------
(***************************************************************************)
(* The bare-metal restore: format_and_restore (core/disk_ops.py,           *)
(* core/guest_config.py), run by the orchestrator's worker for             *)
(* flash_restore_device and by the technician's kiosk in a background      *)
(* thread.  Every restore of a host works under the one mount point        *)
(* /mnt/target, and nothing keeps two of them apart.                       *)
(*                                                                         *)
(* A disk is a root filesystem and the ones mounted below it ("sub"), the  *)
(* names they were made with ("table"), the names its fstab calls them by, *)
(* and a bootloader.  A mount is the disk and the run that mounted it,     *)
(* with whatever of its other filesystems and of the host's /dev is bound  *)
(* below; the last one mounted hides the others.  Where a file lands       *)
(* depends on what is mounted when it is written, except for borg, whose   *)
(* working directory stays where it was.                                   *)
(***************************************************************************)
EXTENDS Naturals, Sequences, FiniteSets

CONSTANTS
    Runs,        \* executions of format_and_restore
    Disks, Archives,
    Kiosk, Orchestrator,   \* the two hosts
    HostOf,      \* the host a disk is plugged into
    RootDisk,    \* the orchestrator's own disk; the kiosk's is not known
    Recorded,    \* archives of nodes whose partition layout was collected
    DefaultLayout,
    EspUuid,     \* what a recorded layout says of its ESP
    EfiUuid,     \* a node's efi_uuid
    Serials, DefaultSerial, NoSerial,
    NoDisk, NoRun,
    MaxFaults    \* bound on failed steps, lost processes and links, prunes

ASSUME RestoreAssumption ==
    /\ Kiosk # Orchestrator
    /\ HostOf \in [Disks -> {Kiosk, Orchestrator}]
    /\ RootDisk \in Disks /\ HostOf[RootDisk] = Orchestrator
    /\ Recorded \subseteq Archives
    /\ DefaultLayout \notin Archives
    /\ DefaultSerial \in Serials /\ NoSerial \notin Serials
    /\ EspUuid \in [Archives -> Serials \cup {NoSerial}]
    /\ EfiUuid \in [Archives -> Serials \cup {NoSerial}]
    /\ NoDisk \notin Disks /\ NoRun \notin Runs
    /\ IsFiniteSet(Runs)
    /\ MaxFaults \in Nat

VARIABLES
    disk,        \* what each disk carries
    mounts,      \* /mnt/target of each host, topmost first
    run,         \* each execution: its request, its place and what was told
    lapped,      \* history: runs during which another was at work on the host
    faults

restoreVars == <<disk, mounts, run, lapped, faults>>

Hosts == {Kiosk, Orchestrator}
Layouts == Archives \cup {DefaultLayout}
Nowhere == [disk |-> NoDisk, by |-> NoRun]

\* What format_and_restore is given to lay the disk out: the list of partitions,
\* the uuid of the ESP in it, and beside the list an efi_uuid.  The kiosk's own
\* list is the same for every node.
Plans == [list : Layouts, esp : Serials \cup {NoSerial}, efi : Serials]
DefaultPlan == [list |-> DefaultLayout, esp |-> DefaultSerial, efi |-> DefaultSerial]

\* The serial mkfs gives the ESP is the list's, or else efi_uuid; fstab and its
\* audit call it efi_uuid.  Every other filesystem has its label or uuid from the
\* list in both places.
Named(list, esp) == [list |-> list, esp |-> esp]
Made(plan) == Named(plan.list, IF plan.esp = NoSerial THEN plan.efi ELSE plan.esp)
Expected(plan) == Named(plan.list, plan.efi)

Idle == [pc |-> "idle", via |-> "none", host |-> Kiosk, disk |-> NoDisk,
         arch |-> DefaultLayout, layout |-> DefaultPlan, source |-> DefaultLayout,
         readable |-> FALSE, cwd |-> Nowhere, again |-> FALSE, told |-> "NONE"]

Init ==
    /\ disk = [d \in Disks |-> [root |-> "old", sub |-> "old",
                                table |-> Named("old", NoSerial), fstab |-> Named("old", NoSerial),
                                boots |-> TRUE, by |-> NoRun]]
    /\ mounts = [h \in Hosts |-> <<>>]
    /\ run = [x \in Runs |-> Idle]
    /\ lapped = {}
    /\ faults = 0

At(x, pc) == run[x].pc = pc
Goes(x, pc) == run' = [run EXCEPT ![x].pc = pc]
Fault == faults < MaxFaults /\ faults' = faults + 1

\* The steps with the target mounted, and all of format_and_restore.
Mounted == {"exclude", "extract", "configure", "bind", "boot", "adapt",
            "audit", "checkin", "unmount"}
AtWork == Mounted \cup {"wipe", "format", "clear", "rmtree", "mount", "unwind",
                        "report", "orphan"}
Working(h) == {x \in Runs : run[x].host = h /\ run[x].pc \in AtWork}

\* Any exception: FAILED is told, then the mounts come down.
Raise(x) == run' = [run EXCEPT ![x].pc = "unwind", ![x].told = "FAILED"]

\* safe_unmount_target: the topmost root goes, with what is mounted below it.
Unmounted(stack) == IF stack = <<>> THEN stack ELSE Tail(stack)
Top(h) == IF mounts[h] = <<>> THEN Nowhere ELSE Head(mounts[h])
On(h, d) == {i \in DOMAIN mounts[h] : mounts[h][i].disk = d}

----------------------------------------------------------------------------
(* The disk.                                                               *)

\* A request: flash_restore_device's, or the kiosk's.
Request(x, via, d, a, pc) ==
    /\ At(x, "idle")
    /\ run' = [run EXCEPT ![x] = [Idle EXCEPT !.via = via, !.host = HostOf[d], !.disk = d,
                                              !.arch = a, !.pc = pc, !.told = "RUNNING"]]
    /\ UNCHANGED <<disk, mounts, lapped, faults>>

\* The orchestrator has the node's list, or writes its efi_uuid into a default one.
FlashPlan(a) ==
    [list |-> IF a \in Recorded THEN a ELSE DefaultLayout,
     esp |-> IF a \in Recorded THEN EspUuid[a] ELSE EfiUuid[a],
     efi |-> EfiUuid[a]]

\* execute_restore reads everything it needs and starts, or refuses a node that
\* is gone or whose EFI UUID was never collected.
ExecuteRestore(x) ==
    /\ At(x, "sent")
    /\ \/ /\ EfiUuid[run[x].arch] # NoSerial
          /\ run' = [run EXCEPT ![x].pc = "check", ![x].layout = FlashPlan(run[x].arch)]
       \/ run' = [run EXCEPT ![x].pc = "done", ![x].told = "FAILED"]
    /\ UNCHANGED <<disk, mounts, lapped, faults>>

\* _guard_host_root_disk: on the kiosk the root is an overlay, no shield.
Shielded(d) == d = RootDisk

\* _release_device_locks: one lazy unmount of /mnt/target for each root of
\* this disk that is mounted there.
Released(h, d) ==
    IF On(h, d) = {} THEN mounts[h]
    ELSE IF \E i, j \in On(h, d) : i # j THEN Unmounted(Unmounted(mounts[h]))
    ELSE Unmounted(mounts[h])

Check(x) ==
    /\ At(x, "check")
    /\ LET h == run[x].host IN
       /\ lapped' = lapped \cup (IF Working(h) = {} THEN {} ELSE Working(h) \cup {x})
       /\ IF Shielded(run[x].disk)
          THEN Raise(x) /\ UNCHANGED mounts
          ELSE /\ mounts' = [mounts EXCEPT ![h] = Released(h, run[x].disk)]
               /\ Goes(x, "wipe")
    /\ UNCHANGED <<disk, faults>>

\* A filesystem that is still mounted, below another one, keeps its disk busy,
\* and so does a borg at work in one that is mounted nowhere.
Held(d, stack) ==
    \/ \E i \in DOMAIN stack : stack[i].disk = d
    \/ \E y \in Runs : run[y].pc \in {"extract", "orphan"} /\ run[y].cwd.disk = d

\* wipefs and parted: refused while the disk is held.
Raw(x) == [disk EXCEPT ![run[x].disk] =
              [root |-> "raw", sub |-> "raw", table |-> Named("raw", NoSerial),
               fstab |-> Named("none", NoSerial), boots |-> FALSE, by |-> x]]
Wipe(x) ==
    /\ At(x, "wipe")
    /\ IF Held(run[x].disk, mounts[run[x].host])
       THEN Raise(x) /\ UNCHANGED disk
       ELSE disk' = Raw(x) /\ Goes(x, "format")
    /\ UNCHANGED <<mounts, lapped, faults>>

\* mkfs on every partition, six attempts at each; the partition is unmounted
\* before each, which fails while another filesystem is mounted over it.
Formatted(x) ==
    [disk EXCEPT ![run[x].disk] =
        [@ EXCEPT !.root = "empty", !.sub = "empty", !.table = Made(run[x].layout)]]
Bared(stack, d) ==
    LET upper == {i \in DOMAIN stack : \A j \in 1 .. i : stack[j].disk = d}
    IN  SubSeq(stack, Cardinality(upper) + 1, Len(stack))
Format(x) ==
    /\ At(x, "format")
    /\ LET left == Bared(mounts[run[x].host], run[x].disk) IN
       /\ mounts' = [mounts EXCEPT ![run[x].host] = left]
       /\ IF Held(run[x].disk, left)
          THEN Raise(x) /\ UNCHANGED disk
          ELSE disk' = Formatted(x) /\ Goes(x, "clear")
    /\ UNCHANGED <<lapped, faults>>

----------------------------------------------------------------------------
(* The mount point.                                                        *)

\* _mount_partitions takes down what an earlier restore left ...
Clear(x) ==
    /\ At(x, "clear")
    /\ mounts' = [mounts EXCEPT ![run[x].host] = Unmounted(@)]
    /\ Goes(x, "rmtree")
    /\ UNCHANGED <<disk, lapped, faults>>

\* ... removes the tree, whatever is mounted there by now ...
RemoveTree(x) ==
    /\ At(x, "rmtree")
    /\ LET d == Top(run[x].host).disk IN
       disk' = IF d = NoDisk THEN disk
               ELSE [disk EXCEPT ![d].root = "part", ![d].sub = "part"]
    /\ Goes(x, "mount")
    /\ UNCHANGED <<mounts, lapped, faults>>

\* ... and mounts the new filesystems, parents first.
Mount(x) == mounts' = [mounts EXCEPT ![run[x].host] = <<[disk |-> run[x].disk, by |-> x]>> \o @]
MountPartitions(x) ==
    /\ At(x, "mount")
    /\ IF disk[run[x].disk].root = "raw"
       THEN Raise(x) /\ UNCHANGED mounts
       ELSE Mount(x) /\ Goes(x, "exclude")
    /\ UNCHANGED <<disk, lapped, faults>>

----------------------------------------------------------------------------
(* The extraction.                                                         *)

\* The exclusions are forced, and borg starts in /mnt/target on its source.
ExtractBegins(x, readable) ==
    /\ At(x, "exclude")
    /\ run' = [run EXCEPT ![x].pc = "extract", ![x].cwd = Top(run[x].host),
                          ![x].readable = readable]
    /\ UNCHANGED <<disk, mounts, lapped, faults>>

\* Files over other files are neither system.
Over(content, a) == IF content = "empty" THEN a ELSE "mixed"

\* What borg leaves: below a root that was detached meanwhile, the files of the
\* other filesystems ended up on the root itself.
Attached(x) == \E i \in DOMAIN mounts[run[x].host] : mounts[run[x].host][i] = run[x].cwd
Extracted(x) ==
    LET d == run[x].cwd.disk IN
    IF d = NoDisk THEN disk
    ELSE [disk EXCEPT ![d].root = Over(@, run[x].arch),
                      ![d].sub = IF Attached(x) THEN Over(@, run[x].arch) ELSE @]
Partial(x) ==
    LET d == run[x].cwd.disk IN
    IF d = NoDisk THEN disk ELSE [disk EXCEPT ![d].root = "part", ![d].sub = "part"]

ExtractEnds(x) ==
    /\ At(x, "extract")
    /\ disk' = Extracted(x)
    /\ Goes(x, "configure")
    /\ UNCHANGED <<mounts, lapped, faults>>

\* A mutant: the exit status of borg is only logged.
ExtractFailsUnnoticed(x) ==
    /\ At(x, "extract")
    /\ disk' = Partial(x)
    /\ Goes(x, "configure")
    /\ UNCHANGED <<mounts, lapped>>

ExtractFails(x) ==
    /\ At(x, "extract")
    /\ disk' = Partial(x)
    /\ Raise(x)
    /\ UNCHANGED <<mounts, lapped>>

----------------------------------------------------------------------------
(* The restored system: guest_config, at whatever is mounted by now.       *)

\* write_fstab replaces the table the archive brought by one of the partitions
\* this run has made, on the disk that is mounted by now.
WithFstab(d, names) == IF d = NoDisk THEN disk ELSE [disk EXCEPT ![d].fstab = names]

\* configure_network and write_fstab make the directories they need.
Configure(x) ==
    /\ At(x, "configure")
    /\ disk' = WithFstab(Top(run[x].host).disk, Expected(run[x].layout))
    /\ Goes(x, "bind")
    /\ UNCHANGED <<mounts, lapped, faults>>

\* There is a system to bind /dev into and to chroot to.
System(h) == Top(h) # Nowhere /\ disk[Top(h).disk].root \notin {"raw", "empty"}
Bind(x) ==
    /\ At(x, "bind")
    /\ IF System(run[x].host) THEN Goes(x, "boot") ELSE Raise(x)
    /\ UNCHANGED <<disk, mounts, lapped, faults>>

\* grub-install in the chroot: on the ESP that is mounted there, or (BIOS) on
\* the boot sector of the disk that was asked for.
InstallBootloader(x) ==
    /\ At(x, "boot")
    /\ IF System(run[x].host)
       THEN /\ LET top == Top(run[x].host).disk IN
               \E d \in {top, run[x].disk} : disk' = [disk EXCEPT ![d].boots = (d = top)]
            /\ Goes(x, "adapt")
       ELSE Raise(x) /\ UNCHANGED disk
    /\ UNCHANGED <<mounts, lapped, faults>>

\* The live-config mask, PostgreSQL's leftovers and the licence runtime: what
\* fails there is a warning, but for the directory of the mask (Breaks).
Adapt(x) ==
    /\ At(x, "adapt")
    /\ Goes(x, "audit")
    /\ UNCHANGED <<disk, mounts, lapped, faults>>

\* audit_fstab reads back what is at the same path now.
AuditFstab(x) ==
    /\ At(x, "audit")
    /\ LET d == Top(run[x].host).disk IN
       IF d # NoDisk /\ disk[d].fstab = Expected(run[x].layout) THEN Goes(x, "checkin") ELSE Raise(x)
    /\ UNCHANGED <<disk, mounts, lapped, faults>>

InstallCheckin(x) ==
    /\ At(x, "checkin")
    /\ Goes(x, "unmount")
    /\ UNCHANGED <<disk, mounts, lapped, faults>>

----------------------------------------------------------------------------
(* The end.                                                                *)

Unmount(x) ==
    /\ At(x, "unmount")
    /\ mounts' = [mounts EXCEPT ![run[x].host] = Unmounted(@)]
    /\ Goes(x, "report")
    /\ UNCHANGED <<disk, lapped, faults>>

Report(x) ==
    /\ At(x, "report")
    /\ run' = [run EXCEPT ![x].pc = "done", ![x].told = "SUCCESS"]
    /\ UNCHANGED <<disk, mounts, lapped, faults>>

\* A mutant: the error path returns without taking the mounts down.
UnwindLeaves(x) ==
    /\ At(x, "unwind")
    /\ Goes(x, "done")
    /\ UNCHANGED <<disk, mounts, lapped, faults>>

Unwind(x) ==
    /\ At(x, "unwind")
    /\ mounts' = [mounts EXCEPT ![run[x].host] = Unmounted(@)]
    /\ Goes(x, "done")
    /\ UNCHANGED <<disk, lapped, faults>>

\* A command fails for a reason of its own: parted may have begun, some of the
\* partitions be mounted (or /dev bound, below a root that is).  A disk that is
\* formatted in part is as good as a raw one.
HalfDone(x) ==
    \/ UNCHANGED <<disk, mounts>>
    \/ /\ At(x, "wipe") /\ ~Held(run[x].disk, mounts[run[x].host])
       /\ disk' = Raw(x)
       /\ UNCHANGED mounts
    \/ /\ At(x, "mount") /\ disk[run[x].disk].root # "raw"
       /\ Mount(x)
       /\ UNCHANGED disk
Breaks(x) ==
    /\ Fault
    /\ run[x].pc \in {"check", "wipe", "format", "mount", "configure", "bind", "boot", "adapt",
                      "audit", "checkin"}
    /\ HalfDone(x)
    /\ Raise(x)
    /\ lapped' = lapped \cup (IF At(x, "check") /\ Working(run[x].host) # {}
                              THEN Working(run[x].host) \cup {x} ELSE {})

\* The worker is lost in the middle; borg may live on without it.
WorkerLost(x) ==
    /\ Fault
    /\ run[x].via = "flash" /\ run[x].pc \in AtWork \ {"orphan"}
    /\ \/ Goes(x, "dead")
       \/ At(x, "extract") /\ Goes(x, "orphan")
    /\ disk' = IF At(x, "extract") THEN Partial(x) ELSE disk
    /\ UNCHANGED <<mounts, lapped>>

OrphanEnds(x) ==
    /\ At(x, "orphan")
    /\ Goes(x, "dead")
    /\ UNCHANGED <<disk, mounts, lapped, faults>>

\* The broker hands the message of a lost worker to another one, and that of a
\* task which has not ended within its visibility timeout too.
Redeliver(x, y) ==
    /\ run[x].via = "flash" /\ ~run[x].again
    /\ run[x].pc \in {"extract", "orphan", "dead"}
    /\ At(y, "idle")
    /\ run' = [run EXCEPT ![x].again = TRUE,
                          ![y] = [Idle EXCEPT !.via = "flash", !.host = run[x].host,
                                     !.disk = run[x].disk, !.arch = run[x].arch,
                                     !.pc = "sent", !.told = "RUNNING"]]
    /\ UNCHANGED <<disk, mounts, lapped, faults>>

----------------------------------------------------------------------------
(* What a restore promises.                                                *)

\* A plan whose ESP has one name.
Agreed(plan) == plan.esp \in {plan.efi, NoSerial}

\* The system that was asked for, bootable, on the filesystems its fstab names.
Whole(x) ==
    LET d == disk[run[x].disk] IN
    /\ d.root = run[x].arch /\ d.sub = run[x].arch
    /\ d.boots
    /\ d.fstab.list = d.table.list
    /\ Agreed(run[x].layout) => d.fstab = d.table

\* A restore that told SUCCESS left the disk whole, until another is started on
\* that disk -- unless another restore was at work on the same host meanwhile:
\* they share /mnt/target (disk_ops.py:716).  Its fstab names every filesystem,
\* the ESP as long as list and efi_uuid agree: a kiosk's default list beside a
\* node's own efi_uuid (main.py:423,445) do not (disk_ops.py:449,
\* guest_config.py:256), and SUCCESS is told all the same.
RestoredIsWhole ==
    \A x \in Runs : run[x].told = "SUCCESS" /\ x \notin lapped /\ disk[run[x].disk].by = x
                    => Whole(x)

\* However restores of a host overlap, when the last one has ended nothing of
\* their disks is mounted any more, so a disk can be pulled: what stays mounted
\* is a run's that lost its process (safe_unmount_target, disk_ops.py:149-217).
NothingLeftMounted ==
    \A h \in Hosts : mounts[h] # <<>> =>
        \/ \E x \in Runs : run[x].host = h /\ run[x].pc \in Mounted \cup {"unwind"}
        \/ \E i \in DOMAIN mounts[h] : run[mounts[h][i].by].pc \in {"dead", "orphan"}
        \/ \E x \in lapped : run[x].host = h /\ run[x].pc \in {"dead", "orphan"}
=============================================================================
