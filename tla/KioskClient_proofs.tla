------------------------- MODULE KioskClient_proofs -------------------------
(***************************************************************************)
(* What the restores promise beside the copies, for any number of runs,    *)
(* disks and copies, failed steps and requests.                            *)
(*                                                                         *)
(* First what one step may change -- of the executions (Turn), the mounts  *)
(* (Carries), the disks (Writes) and the record of overlaps (Laps); then   *)
(* the invariants from these four, never from the actions again.           *)
(***************************************************************************)
EXTENDS KioskClient, FiniteSetTheorems, SequenceTheorems, TLAPS

\* A restore past its request, and a copy past its own, know what they are for.
RequestInv ==
    /\ \A x \in Runs : run[x].pc # "idle" =>
           run[x].disk \in Disks /\ run[x].host = HostOf[run[x].disk] /\ run[x].arch \in Archives
    /\ \A s \in Syncs : sync[s].pc # "idle" => sync[s].node \in Archives

\* Nobody hears of success before the end.
ToldInv ==
    /\ \A x \in Runs : run[x].told = "SUCCESS" => run[x].pc = "done"
    /\ \A s \in Syncs : sync[s].told = "SUCCESS" => sync[s].pc = "done"

\* What is mounted on a host, and what its borgs work in, is of its own disks.
PlaceInv ==
    /\ \A h \in Hosts : \A i \in DOMAIN mounts[h] : HostOf[mounts[h][i].disk] = h
    /\ \A x \in Runs : run[x].pc \in {"extract", "orphan"} /\ run[x].cwd.disk # NoDisk =>
           HostOf[run[x].cwd.disk] = run[x].host

\* Two restores at work on one host have lapped.
LapInv ==
    \A x \in Runs, y \in Runs :
        x # y /\ run[x].host = run[y].host /\ run[x].pc \in AtWork /\ run[y].pc \in AtWork
        => x \in lapped

----------------------------------------------------------------------------
LEMMA Stacks ==
  ASSUME NEW S, NEW s \in Seq(S), NEW d
  PROVE  /\ Unmounted(s) \in Seq(S)
         /\ Len(Unmounted(s)) = IF s = <<>> THEN 0 ELSE Len(s) - 1
         /\ \A i \in DOMAIN Unmounted(s) : i + 1 \in DOMAIN s /\ Unmounted(s)[i] = s[i + 1]
<1>1. CASE s = <<>>
  BY <1>1 DEF Unmounted
<1>2. CASE s # <<>>
  BY <1>2 DEF Unmounted
<1>3. QED
  BY <1>1, <1>2

LEMMA BaredStack ==
  ASSUME NEW S, NEW s \in Seq(S), NEW d
  PROVE  /\ Bared(s, d) \in Seq(S)
         /\ Len(Bared(s, d)) \in 0 .. Len(s)
         /\ Len(Bared(s, d)) = Len(s) => Bared(s, d) = s
         /\ \A i \in DOMAIN Bared(s, d) : \E j \in DOMAIN s : Bared(s, d)[i] = s[j]
<1> DEFINE upper == {i \in DOMAIN s : \A j \in 1 .. i : s[j].disk = d}
           n == Cardinality(upper)
<1>1. n \in 0 .. Len(s)
  <2>0. Len(s) \in Nat
    OBVIOUS
  <2>1. IsFiniteSet(1 .. Len(s)) /\ Cardinality(1 .. Len(s)) = Len(s)
    <3> DEFINE k == Len(s)
    <3>1. k \in Nat
      BY <2>0
    <3> HIDE DEF k
    <3>2. IsFiniteSet(1 .. k) /\ Cardinality(1 .. k) = k
      BY <3>1, FS_Interval
    <3>3. QED
      BY <3>2 DEF k
  <2>2. upper \subseteq 1 .. Len(s)
    OBVIOUS
  <2>3. IsFiniteSet(upper) /\ Cardinality(upper) <= Cardinality(1 .. Len(s))
    BY <2>1, <2>2, FS_Subset
  <2>4. Cardinality(upper) \in Nat
    BY <2>3, FS_CardinalityType
  <2> HIDE DEF upper
  <2>5. QED
    BY <2>0, <2>1, <2>3, <2>4
<1>2. Bared(s, d) = SubSeq(s, n + 1, Len(s))
  BY DEF Bared
<1> HIDE DEF n
<1>3. /\ SubSeq(s, n + 1, Len(s)) \in Seq(S)
      /\ Len(SubSeq(s, n + 1, Len(s))) = Len(s) - n
      /\ \A i \in 1 .. Len(s) - n : SubSeq(s, n + 1, Len(s))[i] = s[i + n]
  BY <1>1
<1>4. n = 0 => SubSeq(s, n + 1, Len(s)) = s
  BY <1>3
<1>5. QED
  BY <1>1, <1>2, <1>3, <1>4

LEMMA PushedStack ==
  ASSUME NEW S, NEW s \in Seq(S), NEW e \in S
  PROVE  /\ <<e>> \o s \in Seq(S)
         /\ Len(<<e>> \o s) = Len(s) + 1
         /\ (<<e>> \o s)[1] = e
         /\ \A i \in 2 .. Len(s) + 1 : (<<e>> \o s)[i] = s[i - 1]
<1>1. <<e>> \in Seq(S) /\ Len(<<e>>) = 1 /\ <<e>>[1] = e
  OBVIOUS
<1>2. QED
  BY <1>1, ConcatProperties

----------------------------------------------------------------------------
\* What the steps write into an execution and into a copy.
LEMMA ExecutionTypes ==
  ASSUME KioskClientAssumption, NEW r \in Executions, NEW pc \in Places
  PROVE  /\ [r EXCEPT !.pc = pc] \in Executions
         /\ \A word \in Words : [r EXCEPT !.pc = pc, !.told = word] \in Executions
         /\ \A layout \in Plans : [r EXCEPT !.pc = pc, !.layout = layout] \in Executions
         /\ \A layout \in Plans, source \in Layouts \cup {Fleet} :
                [r EXCEPT !.pc = pc, !.source = source, !.layout = layout] \in Executions
         /\ \A cwd \in Mounts \cup {Nowhere}, readable \in BOOLEAN :
                [r EXCEPT !.pc = pc, !.cwd = cwd, !.readable = readable] \in Executions
         /\ [r EXCEPT !.again = TRUE] \in Executions
  BY DEF Executions

LEMMA PlanTypes ==
  ASSUME RestoreAssumption
  PROVE  /\ DefaultPlan \in Plans
         /\ \A a \in Archives : /\ KioskPlan(a) \in Plans /\ CachedPlan(a) \in Plans
                                /\ (EfiUuid[a] # NoSerial => FlashPlan(a) \in Plans)
         /\ \A plan \in Plans : Made(plan) \in Names /\ Expected(plan) \in Names
         /\ \A word \in {"old", "raw", "none"} : Named(word, NoSerial) \in Names
<1>1. DefaultPlan \in Plans
  BY DEF RestoreAssumption, DefaultPlan, Plans, Layouts
<1>2. ASSUME NEW a \in Archives
      PROVE  /\ EspUuid[a] \in Serials \cup {NoSerial} /\ EfiUuid[a] \in Serials \cup {NoSerial}
             /\ DefaultSerial \in Serials /\ a \in Layouts /\ DefaultLayout \in Layouts
  BY DEF RestoreAssumption, Layouts
<1>3. ASSUME NEW a \in Archives PROVE KioskPlan(a) \in Plans
  BY <1>1, <1>2 DEF KioskPlan, Plans
<1>4. ASSUME NEW a \in Archives, EfiUuid[a] # NoSerial PROVE FlashPlan(a) \in Plans
  BY <1>2, <1>4 DEF FlashPlan, Plans
<1>5. \A plan \in Plans : Made(plan) \in Names /\ Expected(plan) \in Names
  BY DEF Made, Expected, Named, Names, Plans
<1>6. \A word \in {"old", "raw", "none"} : Named(word, NoSerial) \in Names
  BY DEF Named, Names
<1>7. QED
  BY <1>1, <1>3, <1>4, <1>5, <1>6 DEF CachedPlan

LEMMA IdleType ==
  ASSUME RestoreAssumption
  PROVE  Idle \in Executions
<1>1. DefaultPlan \in Plans
  BY PlanTypes
<1>2. QED
  BY <1>1 DEF Idle, Executions, Places, Words, Hosts, Layouts, Nowhere

LEMMA RequestTypes ==
  ASSUME RestoreAssumption, NEW via \in {"flash", "online", "offline"}, NEW h \in Hosts,
         NEW d \in Disks, NEW a \in Archives, NEW pc \in Places
  PROVE  [Idle EXCEPT !.via = via, !.host = h, !.disk = d,
                      !.arch = a, !.pc = pc, !.told = "RUNNING"] \in Executions
  BY IdleType DEF Executions, Hosts, Layouts, Words, Idle

\* The forms in which a step changes one execution.
LEMMA RunTypes ==
  ASSUME KioskClientAssumption, run \in [Runs -> Executions], NEW x \in Runs
  PROVE  /\ \A pc \in Places : [run EXCEPT ![x].pc = pc] \in [Runs -> Executions]
         /\ \A pc \in Places, word \in Words :
                [run EXCEPT ![x].pc = pc, ![x].told = word] \in [Runs -> Executions]
         /\ \A pc \in Places, layout \in Plans :
                [run EXCEPT ![x].pc = pc, ![x].layout = layout] \in [Runs -> Executions]
         /\ \A pc \in Places, layout \in Plans, source \in Layouts \cup {Fleet} :
                [run EXCEPT ![x].pc = pc, ![x].source = source, ![x].layout = layout]
                  \in [Runs -> Executions]
         /\ \A pc \in Places, cwd \in Mounts \cup {Nowhere}, readable \in BOOLEAN :
                [run EXCEPT ![x].pc = pc, ![x].cwd = cwd, ![x].readable = readable]
                  \in [Runs -> Executions]
<1>1. run[x] \in Executions
  OBVIOUS
<1>2. \A r \in Executions : [run EXCEPT ![x] = r] \in [Runs -> Executions]
  OBVIOUS
<1>3. \A pc \in Places, word \in Words :
         [run EXCEPT ![x].pc = pc, ![x].told = word] \in [Runs -> Executions]
  <2>1. \A pc \in Places, word \in Words :
           [run EXCEPT ![x].pc = pc, ![x].told = word]
             = [run EXCEPT ![x] = [run[x] EXCEPT !.pc = pc, !.told = word]]
    OBVIOUS
  <2>2. QED
    BY <1>1, <1>2, <2>1, ExecutionTypes
<1>4. \A pc \in Places : [run EXCEPT ![x].pc = pc] \in [Runs -> Executions]
  BY <1>1, <1>2, ExecutionTypes
<1>5. \A pc \in Places, layout \in Plans :
         [run EXCEPT ![x].pc = pc, ![x].layout = layout] \in [Runs -> Executions]
  <2>1. \A pc \in Places, layout \in Plans :
           [run EXCEPT ![x].pc = pc, ![x].layout = layout]
             = [run EXCEPT ![x] = [run[x] EXCEPT !.pc = pc, !.layout = layout]]
    OBVIOUS
  <2>2. QED
    BY <1>1, <1>2, <2>1, ExecutionTypes
<1>6. ASSUME NEW pc \in Places, NEW layout \in Plans, NEW source \in Layouts \cup {Fleet}
      PROVE  [run EXCEPT ![x].pc = pc, ![x].source = source, ![x].layout = layout]
               \in [Runs -> Executions]
  <2>1. [run EXCEPT ![x].pc = pc, ![x].source = source, ![x].layout = layout]
          = [run EXCEPT ![x] = [run[x] EXCEPT !.pc = pc, !.source = source, !.layout = layout]]
    OBVIOUS
  <2>2. [run[x] EXCEPT !.pc = pc, !.source = source, !.layout = layout] \in Executions
    BY <1>1, ExecutionTypes
  <2>3. QED
    BY <1>2, <2>1, <2>2
<1>7. ASSUME NEW pc \in Places, NEW cwd \in Mounts \cup {Nowhere}, NEW readable \in BOOLEAN
      PROVE  [run EXCEPT ![x].pc = pc, ![x].cwd = cwd, ![x].readable = readable]
               \in [Runs -> Executions]
  <2>1. [run EXCEPT ![x].pc = pc, ![x].cwd = cwd, ![x].readable = readable]
          = [run EXCEPT ![x] = [run[x] EXCEPT !.pc = pc, !.cwd = cwd, !.readable = readable]]
    OBVIOUS
  <2>2. [run[x] EXCEPT !.pc = pc, !.cwd = cwd, !.readable = readable] \in Executions
    BY <1>1, ExecutionTypes
  <2>3. QED
    BY <1>2, <2>1, <2>2
<1>8. QED
  BY <1>3, <1>4, <1>5, <1>6, <1>7

LEMMA StepTypes ==
  ASSUME KioskClientAssumption, run \in [Runs -> Executions], NEW x \in Runs
  PROVE  /\ \A pc \in Places : Goes(x, pc) => run' \in [Runs -> Executions]
         /\ Raise(x) \/ GivesUp(x) => run' \in [Runs -> Executions]
<1>1. {"unwind", "done"} \subseteq Places /\ "FAILED" \in Words
  BY DEF Places, AtWork, Words
<1>2. /\ [run EXCEPT ![x].pc = "unwind", ![x].told = "FAILED"] \in [Runs -> Executions]
      /\ [run EXCEPT ![x].pc = "done", ![x].told = "FAILED"] \in [Runs -> Executions]
  BY <1>1, RunTypes
<1>3. \A pc \in Places : [run EXCEPT ![x].pc = pc] \in [Runs -> Executions]
  BY RunTypes
<1>4. \A pc \in Places : Goes(x, pc) => run' \in [Runs -> Executions]
  BY <1>3 DEF Goes
<1>5. Raise(x) \/ GivesUp(x) => run' \in [Runs -> Executions]
  BY <1>2 DEF Raise, GivesUp
<1>6. QED
  BY <1>4, <1>5

\* A disk's fields, and what a step may write into them.
Disked == [root : Content, sub : Content, table : Names, fstab : Names,
           boots : BOOLEAN, by : Runs \cup {NoRun}]
Caches == [data : {"none", "part", "whole"}, meta : BOOLEAN]

LEMMA DiskTypes ==
  ASSUME disk \in [Disks -> Disked], NEW d
  PROVE  /\ \A r \in Content, s \in Content :
                [disk EXCEPT ![d].root = r, ![d].sub = s] \in [Disks -> Disked]
         /\ \A names \in Names : [disk EXCEPT ![d].fstab = names] \in [Disks -> Disked]
         /\ \A boots \in BOOLEAN : [disk EXCEPT ![d].boots = boots] \in [Disks -> Disked]
         /\ \A r \in Disked : [disk EXCEPT ![d] = r] \in [Disks -> Disked]
<1>1. CASE d \notin Disks
  BY <1>1
<1>2. CASE d \in Disks
  <2>1. disk[d] \in Disked
    BY <1>2
  <2>2. \A r \in Disked : [disk EXCEPT ![d] = r] \in [Disks -> Disked]
    OBVIOUS
  <2>3. ASSUME NEW r \in Content, NEW s \in Content
        PROVE  [disk EXCEPT ![d].root = r, ![d].sub = s] \in [Disks -> Disked]
    <3>1. [disk EXCEPT ![d].root = r, ![d].sub = s]
            = [disk EXCEPT ![d] = [disk[d] EXCEPT !.root = r, !.sub = s]]
      BY <1>2
    <3>2. [disk[d] EXCEPT !.root = r, !.sub = s] \in Disked
      BY <2>1 DEF Disked
    <3>3. QED
      BY <2>2, <3>1, <3>2
  <2>4. \A names \in Names : [disk EXCEPT ![d].fstab = names] \in [Disks -> Disked]
    BY <2>1 DEF Disked
  <2>5. \A boots \in BOOLEAN : [disk EXCEPT ![d].boots = boots] \in [Disks -> Disked]
    BY <2>1 DEF Disked
  <2>6. QED
    BY <2>2, <2>3, <2>4, <2>5
<1>3. QED
  BY <1>1, <1>2

\* Types, and that whatever is under way has been asked for.
LEMMA RestoreStepTypes ==
  ASSUME KioskClientAssumption, RestoreAssumption, TypeOK, RequestInv,
         NEW x \in Runs, RestoreSteps(x), UNCHANGED clientVars
  PROVE  TypeOK'
<1> USE DEF TypeOK, clientVars
<1>1. disk \in [Disks -> Disked] /\ mounts \in [Hosts -> Seq(Mounts)]
  BY DEF Disked
<1>2. SUFFICES /\ disk' \in [Disks -> Disked] /\ mounts' \in [Hosts -> Seq(Mounts)]
               /\ run' \in [Runs -> Executions] /\ lapped' \subseteq Runs
               /\ faults' \in 0 .. MaxFaults
  BY DEF Disked
<1>3. AtWork \cup {"sent", "check", "done", "dead"} \subseteq Places /\ Words = {"NONE", "RUNNING", "FAILED", "SUCCESS"}
  BY DEF Places, Words
<1>4. \A stack \in Seq(Mounts) : Unmounted(stack) \in Seq(Mounts)
  BY Stacks
<1>5. Fault => faults' \in 0 .. MaxFaults
  BY RestoreAssumption DEF Fault
<1>6. \A h \in Hosts : Working(h) \subseteq Runs
  BY DEF Working
<1>7. /\ run[x] \in Executions /\ run[x].host \in Hosts /\ run[x].layout \in Plans
      /\ Made(run[x].layout) \in Names /\ Expected(run[x].layout) \in Names
  <2>1. run[x] \in Executions /\ run[x].host \in Hosts /\ run[x].layout \in Plans
    BY DEF Executions
  <2>2. QED
    BY <2>1, PlanTypes
<1>8. /\ \A pc \in AtWork \cup {"sent", "check", "done", "dead"} :
            Goes(x, pc) => run' \in [Runs -> Executions]
      /\ Raise(x) => run' \in [Runs -> Executions]
  BY <1>3, StepTypes
<1>9. \A d : \A names \in Names : WithFstab(d, names) \in [Disks -> Disked]
  BY <1>1, DiskTypes DEF WithFstab
<1>10. \A d : \A r \in Content : [disk EXCEPT ![d].root = r, ![d].sub = r] \in [Disks -> Disked]
  BY <1>1, DiskTypes
<1>11. {"raw", "empty", "part", "mixed"} \subseteq Content
  BY DEF Content
<1>12. Partial(x) \in [Disks -> Disked]
  BY <1>1, <1>10, <1>11 DEF Partial
<1>13. Raw(x) \in [Disks -> Disked]
  <2>1. Named("raw", NoSerial) \in Names /\ Named("none", NoSerial) \in Names
    BY PlanTypes
  <2>2. [root |-> "raw", sub |-> "raw", table |-> Named("raw", NoSerial),
         fstab |-> Named("none", NoSerial), boots |-> FALSE, by |-> x] \in Disked
    BY <1>11, <2>1 DEF Disked
  <2>3. QED
    BY <1>1, <2>2, DiskTypes DEF Raw
<1> HIDE DEF TypeOK
<1>14. CASE ExecuteRestore(x)
  <2>1. EfiUuid[run[x].arch] # NoSerial => FlashPlan(run[x].arch) \in Plans
    <3>1. run[x].arch \in Archives
      BY <1>14 DEF ExecuteRestore, At, RequestInv
    <3>2. QED
      BY <3>1, PlanTypes
  <2>2. /\ EfiUuid[run[x].arch] # NoSerial =>
             [run EXCEPT ![x].pc = "check", ![x].layout = FlashPlan(run[x].arch)] \in [Runs -> Executions]
        /\ [run EXCEPT ![x].pc = "done", ![x].told = "FAILED"] \in [Runs -> Executions]
    BY <1>3, <2>1, RunTypes DEF TypeOK
  <2>3. QED
    BY <1>1, <1>14, <2>2 DEF ExecuteRestore, TypeOK
<1>15. CASE Check(x)
  <2>1. Released(run[x].host, run[x].disk) \in Seq(Mounts)
    BY <1>1, <1>4, <1>7 DEF Released
  <2>2. [mounts EXCEPT ![run[x].host] = Released(run[x].host, run[x].disk)] \in [Hosts -> Seq(Mounts)]
    BY <1>1, <2>1
  <2>3. run' \in [Runs -> Executions]
    BY <1>8, <1>15 DEF Check, AtWork
  <2>4. QED
    BY <1>1, <1>6, <1>7, <1>15, <2>2, <2>3 DEF Check, TypeOK
<1>16. CASE Wipe(x)
  BY <1>1, <1>8, <1>13, <1>16 DEF Wipe, TypeOK, AtWork
<1>17. CASE Format(x)
  <2>1. Bared(mounts[run[x].host], run[x].disk) \in Seq(Mounts)
    BY <1>1, <1>7, BaredStack
  <2>2. mounts' \in [Hosts -> Seq(Mounts)]
    BY <1>1, <1>17, <2>1 DEF Format
  <2>3. disk' \in [Disks -> Disked]
    <3>1. \A q \in Disked, names \in Names :
             [q EXCEPT !.root = "empty", !.sub = "empty", !.table = names] \in Disked
      BY <1>11 DEF Disked
    <3>2. Formatted(x) \in [Disks -> Disked]
      BY <1>1, <1>7, <3>1 DEF Formatted
    <3>3. QED
      BY <1>1, <1>17, <3>2, Zenon DEF Format
  <2>4. run' \in [Runs -> Executions]
    BY <1>8, <1>17 DEF Format, AtWork
  <2>5. QED
    BY <1>17, <2>2, <2>3, <2>4 DEF Format, TypeOK
<1>18. CASE Clear(x) \/ Unmount(x) \/ Unwind(x)
  <2>1. Unmounted(mounts[run[x].host]) \in Seq(Mounts)
    BY <1>1, <1>4, <1>7
  <2>2. mounts' \in [Hosts -> Seq(Mounts)]
    BY <1>1, <1>18, <2>1 DEF Clear, Unmount, Unwind
  <2>3. run' \in [Runs -> Executions]
    BY <1>8, <1>18 DEF Clear, Unmount, Unwind, AtWork
  <2>4. QED
    BY <1>1, <1>18, <2>2, <2>3 DEF Clear, Unmount, Unwind, TypeOK
<1>19. CASE RemoveTree(x) \/ Configure(x)
  <2>1. run' \in [Runs -> Executions]
    BY <1>8, <1>19 DEF RemoveTree, Configure, AtWork, Mounted
  <2>2. disk' \in [Disks -> Disked]
    <3> DEFINE d == Top(run[x].host).disk
    <3>1. /\ [disk EXCEPT ![d].root = "part", ![d].sub = "part"] \in [Disks -> Disked]
          /\ WithFstab(d, Expected(run[x].layout)) \in [Disks -> Disked]
      BY <1>7, <1>9, <1>10, <1>11
    <3>2. QED
      BY <1>1, <1>19, <3>1, Zenon DEF RemoveTree, Configure
  <2>3. QED
    BY <1>1, <1>19, <2>1, <2>2 DEF RemoveTree, Configure, TypeOK
<1>0. At(x, "mount") /\ Mount(x) => mounts' \in [Hosts -> Seq(Mounts)]
  <2>1. SUFFICES ASSUME At(x, "mount"), Mount(x) PROVE mounts' \in [Hosts -> Seq(Mounts)]
    OBVIOUS
  <2>2. [disk |-> run[x].disk, by |-> x] \in Mounts
    BY <2>1 DEF At, RequestInv, Mounts
  <2>3. <<[disk |-> run[x].disk, by |-> x]>> \o mounts[run[x].host] \in Seq(Mounts)
    BY <1>1, <1>7, <2>2, PushedStack
  <2>4. QED
    BY <1>1, <2>1, <2>3 DEF Mount
<1>20. CASE MountPartitions(x)
  <2>3. mounts' \in [Hosts -> Seq(Mounts)]
    BY <1>0, <1>1, <1>20 DEF MountPartitions
  <2>4. run' \in [Runs -> Executions]
    BY <1>8, <1>20 DEF MountPartitions, AtWork, Mounted
  <2>5. QED
    BY <1>1, <1>20, <2>3, <2>4 DEF MountPartitions, TypeOK
<1>21. CASE Bind(x) \/ Adapt(x) \/ AuditFstab(x) \/ InstallCheckin(x) \/ OrphanEnds(x)
  BY <1>1, <1>8, <1>21
  DEF Bind, Adapt, AuditFstab, InstallCheckin, OrphanEnds, AtWork, Mounted, TypeOK
<1>22. CASE InstallBootloader(x)
  <2>1. disk' \in [Disks -> Disked]
    BY <1>1, <1>22, DiskTypes DEF InstallBootloader
  <2>2. QED
    BY <1>1, <1>8, <1>22, <2>1 DEF InstallBootloader, AtWork, Mounted, TypeOK
<1>23. CASE Report(x)
  <2>1. [run EXCEPT ![x].pc = "done", ![x].told = "SUCCESS"] \in [Runs -> Executions]
    BY <1>3, RunTypes DEF TypeOK
  <2>2. QED
    BY <1>1, <1>23, <2>1 DEF Report, TypeOK
<1>24. CASE Breaks(x)
  <2>1. disk' \in [Disks -> Disked] /\ mounts' \in [Hosts -> Seq(Mounts)]
    BY <1>0, <1>1, <1>13, <1>24 DEF Breaks, HalfDone
  <2>2. QED
    BY <1>5, <1>6, <1>7, <1>8, <1>24, <2>1 DEF Breaks, TypeOK
<1>25. CASE WorkerLost(x)
  BY <1>1, <1>5, <1>8, <1>12, <1>25 DEF WorkerLost, AtWork, TypeOK
<1>26. CASE \E y \in Runs : Redeliver(x, y)
  <2>0. PICK y \in Runs : Redeliver(x, y)
    BY <1>26
  <2>1. run[x].disk \in Disks /\ run[x].arch \in Archives
    BY <2>0 DEF Redeliver, RequestInv
  <2>2. [Idle EXCEPT !.via = "flash", !.host = run[x].host, !.disk = run[x].disk,
                     !.arch = run[x].arch, !.pc = "sent", !.told = "RUNNING"] \in Executions
    BY <1>3, <1>7, <2>1, RequestTypes
  <2>3. [run[x] EXCEPT !.again = TRUE] \in Executions
    <3>1. \A r \in Executions : [r EXCEPT !.again = TRUE] \in Executions
      BY DEF Executions
    <3>2. QED
      BY <1>7, <3>1
  <2>4. run' \in [Runs -> Executions]
    BY <2>0, <2>2, <2>3 DEF Redeliver, TypeOK
  <2>5. QED
    BY <1>1, <2>0, <2>4 DEF Redeliver, TypeOK
<1>27. QED
  BY <1>2, <1>14, <1>15, <1>16, <1>17, <1>18, <1>19, <1>20, <1>21, <1>22, <1>23, <1>24,
     <1>25, <1>26 DEF RestoreSteps

\* The forms in which a step changes one copy.
LEMMA CopyTypes ==
  ASSUME sync \in [Syncs -> Copies], NEW s \in Syncs
  PROVE  /\ \A word \in Words : SyncTells(s, word) => sync' \in [Syncs -> Copies]
         /\ [sync EXCEPT ![s].pc = "stream"] \in [Syncs -> Copies]
         /\ [sync EXCEPT ![s].swept = TRUE] \in [Syncs -> Copies]
         /\ \A meta \in BOOLEAN : [sync EXCEPT ![s].pc = "open", ![s].meta = meta] \in [Syncs -> Copies]
         /\ \A n \in Layouts :
               [sync EXCEPT ![s].pc = "meta", ![s].node = n, ![s].told = "RUNNING"]
                 \in [Syncs -> Copies]
<1>1. \A c \in Copies : [sync EXCEPT ![s] = c] \in [Syncs -> Copies]
  OBVIOUS
<1>2. sync[s] \in Copies
  OBVIOUS
<1>3. ASSUME NEW word \in Words, SyncTells(s, word) PROVE sync' \in [Syncs -> Copies]
  <2>1. sync' = [sync EXCEPT ![s] = [sync[s] EXCEPT !.pc = "done", !.told = word]]
    BY <1>3 DEF SyncTells
  <2>2. [sync[s] EXCEPT !.pc = "done", !.told = word] \in Copies
    BY <1>2 DEF Copies
  <2>3. QED
    BY <1>1, <2>1, <2>2
<1>4. ASSUME NEW meta \in BOOLEAN
      PROVE  [sync EXCEPT ![s].pc = "open", ![s].meta = meta] \in [Syncs -> Copies]
  <2>1. [sync EXCEPT ![s].pc = "open", ![s].meta = meta]
          = [sync EXCEPT ![s] = [sync[s] EXCEPT !.pc = "open", !.meta = meta]]
    OBVIOUS
  <2>2. [sync[s] EXCEPT !.pc = "open", !.meta = meta] \in Copies
    BY <1>2 DEF Copies
  <2>3. QED
    BY <1>1, <2>1, <2>2
<1>5. ASSUME NEW n \in Layouts
      PROVE  [sync EXCEPT ![s].pc = "meta", ![s].node = n, ![s].told = "RUNNING"]
               \in [Syncs -> Copies]
  <2>1. [sync EXCEPT ![s].pc = "meta", ![s].node = n, ![s].told = "RUNNING"]
          = [sync EXCEPT ![s] = [sync[s] EXCEPT !.pc = "meta", !.node = n, !.told = "RUNNING"]]
    OBVIOUS
  <2>2. [sync[s] EXCEPT !.pc = "meta", !.node = n, !.told = "RUNNING"] \in Copies
    BY <1>2 DEF Copies, Words
  <2>3. QED
    BY <1>1, <2>1, <2>2
<1>6. /\ [sync EXCEPT ![s].pc = "stream"] \in [Syncs -> Copies]
      /\ [sync EXCEPT ![s].swept = TRUE] \in [Syncs -> Copies]
  BY <1>1, <1>2 DEF Copies
<1>7. QED
  BY <1>3, <1>4, <1>5, <1>6

LEMMA TypesKept ==
  ASSUME KioskClientAssumption, RestoreAssumption, TypeOK, RequestInv, [Next]_vars
  PROVE  TypeOK'
<1>1. /\ disk \in [Disks -> Disked] /\ mounts \in [Hosts -> Seq(Mounts)]
      /\ run \in [Runs -> Executions] /\ cache \in [Archives -> Caches]
      /\ sync \in [Syncs -> Copies] /\ MaxFaults \in Nat /\ MaxRequests \in Nat
  BY RestoreAssumption, KioskClientAssumption DEF TypeOK, Disked, Caches
<1>2. Fault => faults' \in 0 .. MaxFaults
  BY <1>1 DEF Fault, TypeOK
<1>3. Asked => requests' \in 0 .. MaxRequests
  BY <1>1 DEF Asked, TypeOK
<1>4. AtWork \cup {"idle", "sent", "preflight", "resolve", "check", "done", "dead"} = Places
  BY DEF Places
<1>5. Words = {"NONE", "RUNNING", "FAILED", "SUCCESS"}
  BY DEF Words
<1>6. \A m \in Archives : CachedPlan(m) \in Plans /\ KioskPlan(m) \in Plans
  BY PlanTypes
<1>7. CASE UNCHANGED vars
  BY <1>7 DEF vars, restoreVars, clientVars, TypeOK
<1>8. ASSUME NEW x \in Runs, NEW d \in Disks, NEW a \in Archives,
             TriggerFlash(x, d, a) \/ \E via \in {"online", "offline"} : TriggerRestore(x, d, a, via)
      PROVE  TypeOK'
  <2>1. PICK via \in {"flash", "online", "offline"}, pc \in Places : Request(x, via, d, a, pc)
    BY <1>4, <1>8 DEF TriggerFlash, TriggerRestore
  <2>2. HostOf[d] \in Hosts
    BY RestoreAssumption DEF Hosts
  <2>3. [Idle EXCEPT !.via = via, !.host = HostOf[d], !.disk = d,
                     !.arch = a, !.pc = pc, !.told = "RUNNING"] \in Executions
    BY <2>2, RequestTypes
  <2>4. run' \in [Runs -> Executions]
    BY <1>1, <2>1, <2>3 DEF Request
  <2>5. QED
    BY <1>3, <1>8, <2>1, <2>4 DEF TriggerFlash, TriggerRestore, Request, TypeOK
<1>9. ASSUME NEW x \in Runs, RestoreSteps(x), UNCHANGED clientVars PROVE TypeOK'
  BY <1>9, RestoreStepTypes
<1>10. ASSUME NEW x \in Runs, Preflight(x) PROVE TypeOK'
  <2>1. run' \in [Runs -> Executions]
    BY <1>1, <1>4, <1>10, StepTypes DEF Preflight
  <2>2. QED
    BY <1>10, <2>1 DEF Preflight, clientVars, TypeOK
<1>11. ASSUME NEW x \in Runs, Resolve(x) PROVE TypeOK'
  <2>1. run[x].arch \in Archives
    BY <1>11 DEF Resolve, At, RequestInv
  <2>2. CASE ResolveOnline(x)
    <3>1. PICK layout \in Plans :
             run' = [run EXCEPT ![x].pc = "check", ![x].source = Fleet, ![x].layout = layout]
      BY <1>6, <2>1, <2>2, Zenon DEF ResolveOnline
    <3>2. run' \in [Runs -> Executions]
      BY <1>1, <1>4, <3>1, RunTypes
    <3>3. QED
      BY <1>2, <1>11, <2>2, <3>2 DEF Resolve, ResolveOnline, clientVars, TypeOK
  <2>3. CASE ResolveOffline(x)
    <3>1. PICK m \in Archives :
             run' = [run EXCEPT ![x].pc = "check", ![x].source = m, ![x].layout = CachedPlan(m)]
      BY <2>1, <2>3 DEF ResolveOffline, Listed
    <3>2. run' \in [Runs -> Executions]
      BY <1>1, <1>4, <1>6, <3>1, RunTypes DEF Layouts
    <3>3. QED
      BY <1>11, <2>3, <3>2 DEF Resolve, ResolveOffline, clientVars, TypeOK
  <2>4. CASE NotFound(x)
    BY <1>1, <1>11, <2>4, StepTypes DEF Resolve, NotFound, clientVars, TypeOK
  <2>5. QED
    BY <1>11, <2>2, <2>3, <2>4 DEF Resolve
<1>12. ASSUME NEW x \in Runs, Begins(x) PROVE TypeOK'
  <2>1. Top(run[x].host) \in Mounts \cup {Nowhere}
    <3>1. mounts[run[x].host] \in Seq(Mounts)
      BY <1>1 DEF Executions
    <3>2. QED
      BY <3>1 DEF Top
  <2>2. Readable(x) \in BOOLEAN
    BY <1>1 DEF Readable, Caches, TypeOK
  <2>3. [run EXCEPT ![x].pc = "extract", ![x].cwd = Top(run[x].host),
                    ![x].readable = Readable(x)] \in [Runs -> Executions]
    BY <1>1, <1>4, <2>1, <2>2, RunTypes DEF AtWork, Mounted
  <2>4. QED
    BY <1>12, <2>3 DEF Begins, ExtractBegins, clientVars, TypeOK
<1>13. ASSUME NEW x \in Runs, Ends(x) \/ Fails(x) PROVE TypeOK'
  <2>1. run' \in [Runs -> Executions]
    BY <1>1, <1>4, <1>13, StepTypes DEF Ends, Fails, ExtractEnds, ExtractFails, AtWork, Mounted
  <2>2. /\ \A content \in Content : Over(content, run[x].arch) \in Content
        /\ Partial(x) \in [Disks -> Disked]
    <3>1. run[x].arch \in Archives
      BY <1>13 DEF Ends, Fails, ExtractEnds, ExtractFails, At, RequestInv
    <3>2. \A d : [disk EXCEPT ![d].root = "part", ![d].sub = "part"] \in [Disks -> Disked]
      BY <1>1, DiskTypes DEF Content
    <3>3. QED
      BY <1>1, <3>1, <3>2 DEF Over, Content, Partial
  <2>3. Extracted(x) \in [Disks -> Disked]
    <3> DEFINE d == run[x].cwd.disk
    <3>1. CASE d \in Disks
      <4> DEFINE r == Over(disk[d].root, run[x].arch)
                 t == IF Attached(x) THEN Over(disk[d].sub, run[x].arch) ELSE disk[d].sub
      <4>1. disk[d] \in Disked
        BY <1>1, <3>1
      <4>2. r \in Content /\ t \in Content
        BY <2>2, <4>1 DEF Disked
      <4>3. Extracted(x) \in {disk, [disk EXCEPT ![d].root = r, ![d].sub = t]}
        BY <1>1, <3>1 DEF Extracted
      <4> HIDE DEF r, t, d
      <4>4. [disk EXCEPT ![d].root = r, ![d].sub = t] \in [Disks -> Disked]
        BY <1>1, <4>2, DiskTypes
      <4>5. QED
        BY <1>1, <4>3, <4>4
    <3>2. CASE d \notin Disks
      BY <1>1, <3>2 DEF Extracted
    <3>3. QED
      BY <3>1, <3>2
  <2>4. QED
    BY <1>2, <1>13, <2>1, <2>2, <2>3
    DEF Ends, Fails, ExtractEnds, ExtractFails, clientVars, TypeOK, Disked
<1>14. ASSUME NEW s \in Syncs, NEW n \in Archives, TriggerSync(s, n) PROVE TypeOK'
  <2>1. sync' \in [Syncs -> Copies]
    BY <1>1, <1>14, CopyTypes DEF TriggerSync, Layouts
  <2>2. QED
    BY <1>3, <1>14, <2>1 DEF TriggerSync, restoreVars, TypeOK
<1>15. ASSUME NEW s \in Syncs, FetchMeta(s) \/ OpenStream(s) \/ OpenRefused(s)
                                \/ SweepTemps(s) \/ SyncEnds(s) \/ SyncCut(s)
       PROVE  TypeOK'
  <2>1. sync' \in [Syncs -> Copies]
    <3>1. link \in BOOLEAN
      BY DEF TypeOK
    <3>2. CASE FetchMeta(s)
      BY <1>1, <3>1, <3>2, CopyTypes DEF FetchMeta
    <3>3. CASE OpenStream(s) \/ SweepTemps(s)
      <4>1. /\ [sync EXCEPT ![s].pc = "stream"] \in [Syncs -> Copies]
            /\ [sync EXCEPT ![s].swept = TRUE] \in [Syncs -> Copies]
        BY <1>1, CopyTypes
      <4>2. QED
        BY <3>3, <4>1, Zenon DEF OpenStream, SweepTemps
    <3>4. CASE OpenRefused(s) \/ SyncEnds(s) \/ SyncCut(s)
      <4>1. SyncTells(s, "FAILED") \/ SyncTells(s, "SUCCESS")
        BY <3>4 DEF OpenRefused, SyncEnds, SyncCut
      <4>2. QED
        BY <1>1, <1>5, <4>1, CopyTypes
    <3>5. QED
      BY <1>15, <3>2, <3>3, <3>4
  <2>2. cache' \in [Archives -> Caches]
    <3>1. CASE OpenStream(s)
      BY <1>1, <3>1 DEF OpenStream, Caches
    <3>2. CASE SyncEnds(s)
      <4>1. PICK data \in {"part", "whole"} :
               cache' = [cache EXCEPT ![sync[s].node] = [data |-> data, meta |-> sync[s].meta]]
        BY <3>2 DEF SyncEnds
      <4>2. sync[s].meta \in BOOLEAN
        BY <1>1 DEF Copies
      <4>3. [data |-> data, meta |-> sync[s].meta] \in Caches
        BY <4>2 DEF Caches
      <4>4. QED
        BY <1>1, <4>1, <4>3
    <3>3. QED
      BY <1>1, <1>15, <3>1, <3>2 DEF FetchMeta, OpenRefused, SweepTemps, SyncCut
  <2>3. crossed' \subseteq Syncs
    BY <1>15 DEF FetchMeta, OpenStream, OpenRefused, SweepTemps, SyncEnds, SyncCut, Streaming, TypeOK
  <2>4. faults' \in 0 .. MaxFaults
    BY <1>2, <1>15
    DEF FetchMeta, OpenStream, OpenRefused, SweepTemps, SyncEnds, SyncCut, Arrives, restoreVars, TypeOK
  <2>5. QED
    BY <1>15, <2>1, <2>2, <2>3, <2>4
    DEF FetchMeta, OpenStream, OpenRefused, SweepTemps, SyncEnds, SyncCut, restoreVars, TypeOK, Caches
<1>16. CASE LinkDown \/ LinkUp \/ \E a \in Archives : Prune(a)
  BY <1>2, <1>16 DEF LinkDown, LinkUp, Prune, restoreVars, TypeOK
<1>17. CASE BackendDies
  <2>1. \A x \in Runs : [run[x] EXCEPT !.pc = "dead", !.told = "NONE"] \in Executions
    BY <1>1, <1>4, <1>5, ExecutionTypes
  <2>2. \A d \in Disks : [disk[d] EXCEPT !.root = "part", !.sub = "part"] \in Disked
    <3>1. \A r \in Disked : [r EXCEPT !.root = "part", !.sub = "part"] \in Disked
      BY DEF Disked, Content
    <3>2. QED
      BY <1>1, <3>1
  <2>3. \A s \in Syncs : [sync[s] EXCEPT !.pc = "done", !.told = "NONE"] \in Copies
    <3>1. \A c \in Copies : [c EXCEPT !.pc = "done", !.told = "NONE"] \in Copies
      BY DEF Copies, Words
    <3>2. QED
      BY <1>1, <3>1
  <2>4. run' \in [Runs -> Executions]
    BY <1>1, <1>17, <2>1 DEF BackendDies
  <2>5. disk' \in [Disks -> Disked]
    BY <1>1, <1>17, <2>2 DEF BackendDies
  <2>6. sync' \in [Syncs -> Copies]
    BY <1>1, <1>17, <2>3 DEF BackendDies
  <2>7. QED
    BY <1>2, <1>17, <2>4, <2>5, <2>6 DEF BackendDies, TypeOK, Disked
<1>18. QED
  BY <1>7, <1>8, <1>9, <1>10, <1>11, <1>12, <1>13, <1>14, <1>15, <1>16, <1>17 DEF Next

----------------------------------------------------------------------------
\* What a step of a run changes of the executions.
SamePlan(z) ==
    /\ run'[z].host = run[z].host /\ run'[z].disk = run[z].disk /\ run'[z].arch = run[z].arch
Keeps(z) == SamePlan(z) /\ run'[z].layout = run[z].layout /\ run'[z].cwd = run[z].cwd

LEMMA GoesEffect ==
  ASSUME run \in [Runs -> Executions], NEW x \in Runs, NEW pc, Goes(x, pc)
  PROVE  /\ \A z \in Runs \ {x} : run'[z] = run[z]
         /\ run'[x].pc = pc /\ Keeps(x) /\ run'[x].told = run[x].told
  BY DEF Goes, Keeps, SamePlan, Executions

LEMMA RaiseEffect ==
  ASSUME run \in [Runs -> Executions], NEW x \in Runs, Raise(x)
  PROVE  /\ \A z \in Runs \ {x} : run'[z] = run[z]
         /\ run'[x].pc = "unwind" /\ Keeps(x) /\ run'[x].told = "FAILED"
  BY DEF Raise, Keeps, SamePlan, Executions

LEMMA GivesUpEffect ==
  ASSUME run \in [Runs -> Executions], NEW x \in Runs, GivesUp(x)
  PROVE  /\ \A z \in Runs \ {x} : run'[z] = run[z]
         /\ run'[x].pc = "done" /\ Keeps(x) /\ run'[x].told = "FAILED"
  BY DEF GivesUp, Keeps, SamePlan, Executions

LEMMA LayoutEffect ==
  ASSUME run \in [Runs -> Executions], NEW x \in Runs, NEW layout, NEW source,
         \/ run' = [run EXCEPT ![x].pc = "check", ![x].layout = layout]
         \/ run' = [run EXCEPT ![x].pc = "check", ![x].source = source, ![x].layout = layout]
  PROVE  /\ \A z \in Runs \ {x} : run'[z] = run[z]
         /\ run'[x].pc = "check" /\ SamePlan(x) /\ run'[x].told = run[x].told
<1>1. CASE run' = [run EXCEPT ![x].pc = "check", ![x].layout = layout]
  BY <1>1 DEF SamePlan, Executions
<1>2. CASE run' = [run EXCEPT ![x].pc = "check", ![x].source = source, ![x].layout = layout]
  BY <1>2 DEF SamePlan, Executions
<1>3. QED
  BY <1>1, <1>2

(* The copies.                                                             *)

CopySteps(s) ==
    \/ \E n \in Archives : TriggerSync(s, n)
    \/ FetchMeta(s) \/ OpenStream(s) \/ OpenRefused(s)
    \/ SweepTemps(s) \/ SyncEnds(s) \/ SyncCut(s)

LEMMA CopyKinds ==
  ASSUME [Next]_vars
  PROVE  UNCHANGED sync \/ (\E s \in Syncs : CopySteps(s)) \/ BackendDies
<1>1. ASSUME NEW x \in Runs, NEW d \in Disks, NEW a \in Archives,
             TriggerFlash(x, d, a) \/ \E via \in {"online", "offline"} : TriggerRestore(x, d, a, via)
      PROVE  UNCHANGED sync
  BY <1>1 DEF TriggerFlash, TriggerRestore
<1>2. ASSUME NEW x \in Runs,
             \/ RestoreSteps(x) /\ UNCHANGED clientVars
             \/ Preflight(x) \/ Resolve(x) \/ Begins(x) \/ Ends(x) \/ Fails(x)
      PROVE  UNCHANGED sync
  BY <1>2 DEF Preflight, Resolve, Begins, Ends, Fails, clientVars
<1>3. ASSUME NEW a \in Archives, Prune(a) PROVE UNCHANGED sync
  BY <1>3 DEF Prune
<1>4. LinkDown \/ LinkUp \/ UNCHANGED vars => UNCHANGED sync
  BY DEF LinkDown, LinkUp, vars, clientVars
<1>5. QED
  BY <1>1, <1>2, <1>3, <1>4 DEF Next, CopySteps

\* What a step of a copy changes of the copies.
LEMMA CopyEffect ==
  ASSUME sync \in [Syncs -> Copies], NEW s \in Syncs,
         sync[s].pc # "idle" => sync[s].node \in Archives,
         sync[s].told = "SUCCESS" => sync[s].pc = "done",
         CopySteps(s)
  PROVE  /\ \A t \in Syncs \ {s} : sync'[t] = sync[t]
         /\ sync'[s].node \in Archives
         /\ sync'[s].told = "SUCCESS" => sync'[s].pc = "done"
<1>1. sync[s] \in Copies /\ sync[s].pc # "done"
  BY DEF CopySteps, TriggerSync, FetchMeta, OpenStream, OpenRefused, SweepTemps, SyncEnds,
         SyncCut, SyncAt
<1>2. CASE OpenRefused(s) \/ SyncEnds(s) \/ SyncCut(s)
  <2>1. sync[s].pc # "idle" /\ \E word : SyncTells(s, word)
    BY <1>2 DEF OpenRefused, SyncEnds, SyncCut, SyncAt
  <2>2. QED
    BY <1>1, <2>1 DEF SyncTells, Copies
<1>3. CASE \E n \in Archives : TriggerSync(s, n)
  BY <1>1, <1>3 DEF TriggerSync, SyncAt, Copies
<1>4. CASE FetchMeta(s)
  BY <1>1, <1>4 DEF FetchMeta, SyncAt, Copies
<1>5. CASE OpenStream(s)
  BY <1>1, <1>5 DEF OpenStream, SyncAt, Copies
<1>6. CASE SweepTemps(s)
  BY <1>1, <1>6 DEF SweepTemps, SyncAt, Copies
<1>7. QED
  BY <1>2, <1>3, <1>4, <1>5, <1>6 DEF CopySteps

LEMMA CopiesKept ==
  ASSUME KioskClientAssumption, TypeOK, RequestInv, ToldInv, [Next]_vars
  PROVE  /\ \A s \in Syncs : sync'[s].pc # "idle" => sync'[s].node \in Archives
         /\ \A s \in Syncs : sync'[s].told = "SUCCESS" => sync'[s].pc = "done"
<1>1. /\ sync \in [Syncs -> Copies]
      /\ \A s \in Syncs : sync[s].pc # "idle" => sync[s].node \in Archives
      /\ \A s \in Syncs : sync[s].told = "SUCCESS" => sync[s].pc = "done"
  BY DEF TypeOK, RequestInv, ToldInv
<1>2. CASE UNCHANGED sync
  BY <1>1, <1>2
<1>3. CASE BackendDies
  <2>1. \A s \in Syncs : \/ sync'[s] = sync[s] /\ sync[s].pc = "idle"
                         \/ /\ sync'[s].pc = "done" /\ sync'[s].told = "NONE"
                            /\ sync'[s].node = sync[s].node /\ sync[s].pc # "idle"
    BY <1>1, <1>3 DEF BackendDies, SyncAt, Copies
  <2>2. QED
    BY <1>1, <2>1
<1>4. ASSUME NEW u \in Syncs, CopySteps(u)
      PROVE  /\ \A s \in Syncs : sync'[s].pc # "idle" => sync'[s].node \in Archives
             /\ \A s \in Syncs : sync'[s].told = "SUCCESS" => sync'[s].pc = "done"
  BY <1>1, <1>4, CopyEffect
<1>5. QED
  BY <1>2, <1>3, <1>4, CopyKinds

----------------------------------------------------------------------------
(* Three kinds of steps: those that no disk and no mount notices, those of a
   restore at work, and the death of the kiosk's backend.                  *)

Early == {"idle", "sent", "preflight", "resolve", "check", "done"}

SameRun(z) ==
    /\ run'[z].pc = run[z].pc /\ run'[z].host = run[z].host /\ run'[z].disk = run[z].disk
    /\ run'[z].arch = run[z].arch /\ run'[z].layout = run[z].layout
    /\ run'[z].cwd = run[z].cwd /\ run'[z].told = run[z].told

\* A request, a refusal or an answer before the first command.
Prepares(z) ==
    /\ run[z].pc \in Early \ {"check", "done"} /\ run'[z].pc \in Early \ {"idle"}
    /\ run'[z].told # "SUCCESS"
    /\ \/ run[z].pc = "idle"
       \/ /\ run'[z].host = run[z].host /\ run'[z].disk = run[z].disk
          /\ run'[z].arch = run[z].arch
    /\ run'[z].disk \in Disks /\ run'[z].host = HostOf[run'[z].disk] /\ run'[z].arch \in Archives

Quietly ==
    /\ UNCHANGED <<disk, mounts, lapped>>
    /\ \A z \in Runs : SameRun(z) \/ Prepares(z)

WorkSteps(x) ==
    \/ Check(x) \/ Wipe(x) \/ Format(x)
    \/ Clear(x) \/ RemoveTree(x) \/ MountPartitions(x)
    \/ Configure(x) \/ Bind(x) \/ InstallBootloader(x) \/ Adapt(x)
    \/ AuditFstab(x) \/ InstallCheckin(x)
    \/ Unmount(x) \/ Report(x) \/ Unwind(x)
    \/ Breaks(x) \/ WorkerLost(x) \/ OrphanEnds(x)
    \/ Begins(x) \/ Ends(x) \/ Fails(x)

\* What does not set out to work on a disk leaves disks and mounts alone.
LEMMA StepKinds ==
  ASSUME KioskClientAssumption, RestoreAssumption, TypeOK, RequestInv, ToldInv, [Next]_vars
  PROVE  Quietly \/ (\E x \in Runs : WorkSteps(x)) \/ BackendDies
<1>1. run \in [Runs -> Executions]
  BY DEF TypeOK
<1> USE DEF SameRun, Quietly
<1>2. CASE UNCHANGED restoreVars
  BY <1>2 DEF restoreVars
<1>3. ASSUME NEW x \in Runs, NEW d \in Disks, NEW a \in Archives,
             TriggerFlash(x, d, a) \/ \E via \in {"online", "offline"} : TriggerRestore(x, d, a, via)
      PROVE  Quietly
  <2>1. PICK via \in {"flash", "online", "offline"}, pc \in {"sent", "preflight"} :
           Request(x, via, d, a, pc)
    BY <1>3 DEF TriggerFlash, TriggerRestore
  <2>2. \A z \in Runs \ {x} : SameRun(z)
    BY <1>1, <2>1 DEF Request
  <2>3. Prepares(x)
    BY <1>1, <2>1 DEF Request, Prepares, At, Early, Idle
  <2>4. QED
    BY <2>1, <2>2, <2>3 DEF Request
<1>4. ASSUME NEW x \in Runs, ExecuteRestore(x) \/ Preflight(x) \/ Resolve(x) PROVE Quietly
  <2>1. run[x].pc \in {"sent", "preflight", "resolve"} /\ run[x].told # "SUCCESS"
    BY <1>4 DEF ExecuteRestore, Preflight, Resolve, At, ToldInv
  <2>2. /\ \A z \in Runs \ {x} : run'[z] = run[z]
        /\ run'[x].pc \in {"resolve", "check", "done"} /\ SamePlan(x)
        /\ run'[x].told # "SUCCESS"
    <3>1. CASE GivesUp(x)
      BY <1>1, <3>1, GivesUpEffect DEF Keeps
    <3>2. CASE Goes(x, "resolve")
      BY <1>1, <2>1, <3>2, GoesEffect DEF Keeps
    <3>3. ASSUME NEW layout, NEW source,
                 \/ run' = [run EXCEPT ![x].pc = "check", ![x].layout = layout]
                 \/ run' = [run EXCEPT ![x].pc = "check", ![x].source = source, ![x].layout = layout]
          PROVE  /\ \A z \in Runs \ {x} : run'[z] = run[z]
                 /\ run'[x].pc = "check" /\ SamePlan(x) /\ run'[x].told # "SUCCESS"
      <4>1. /\ \A z \in Runs \ {x} : run'[z] = run[z]
            /\ run'[x].pc = "check" /\ SamePlan(x) /\ run'[x].told = run[x].told
        BY <1>1, <3>3, LayoutEffect
      <4>2. QED
        BY <2>1, <4>1
    <3>4. CASE ExecuteRestore(x)
      <4>1. CASE run' = [run EXCEPT ![x].pc = "check", ![x].layout = FlashPlan(run[x].arch)]
        BY <3>3, <4>1
      <4>2. QED
        BY <3>1, <3>4, <4>1 DEF ExecuteRestore, GivesUp
    <3>5. CASE Preflight(x)
      BY <3>1, <3>2, <3>5 DEF Preflight
    <3>6. CASE Resolve(x)
      <4>1. CASE ResolveOnline(x)
        BY <3>3, <4>1 DEF ResolveOnline
      <4>2. CASE ResolveOffline(x)
        BY <3>3, <4>2 DEF ResolveOffline
      <4>3. QED
        BY <3>1, <3>6, <4>1, <4>2 DEF Resolve, NotFound
    <3>7. QED
      BY <1>4, <3>4, <3>5, <3>6
  <2>3. \A z \in Runs \ {x} : SameRun(z)
    BY <2>2
  <2>4. Prepares(x)
    BY <2>1, <2>2 DEF Prepares, Early, SamePlan, RequestInv
  <2>5. UNCHANGED <<disk, mounts, lapped>>
    BY <1>4 DEF ExecuteRestore, Preflight, Resolve
  <2>6. QED
    BY <2>3, <2>4, <2>5
<1>5. ASSUME NEW x \in Runs, NEW y \in Runs, Redeliver(x, y) PROVE Quietly
  <2>1. x # y /\ run[x].pc # "idle" /\ run[y].pc = "idle"
    BY <1>5 DEF Redeliver, At
  <2>2. \A z \in Runs \ {y} : SameRun(z)
    <3>1. \A z \in Runs \ {y} : run'[z] = IF z = x THEN [run[x] EXCEPT !.again = TRUE] ELSE run[z]
      BY <1>1, <1>5, <2>1 DEF Redeliver
    <3>2. /\ [run[x] EXCEPT !.again = TRUE].pc = run[x].pc
          /\ [run[x] EXCEPT !.again = TRUE].host = run[x].host
          /\ [run[x] EXCEPT !.again = TRUE].disk = run[x].disk
          /\ [run[x] EXCEPT !.again = TRUE].arch = run[x].arch
          /\ [run[x] EXCEPT !.again = TRUE].layout = run[x].layout
          /\ [run[x] EXCEPT !.again = TRUE].cwd = run[x].cwd
          /\ [run[x] EXCEPT !.again = TRUE].told = run[x].told
      BY <1>1 DEF Executions
    <3>3. QED
      BY <3>1, <3>2
  <2>3. run'[y] = [Idle EXCEPT !.via = "flash", !.host = run[x].host, !.disk = run[x].disk,
                               !.arch = run[x].arch, !.pc = "sent", !.told = "RUNNING"]
    BY <1>1, <1>5 DEF Redeliver
  <2>4. /\ run'[y].pc = "sent" /\ run'[y].told = "RUNNING" /\ run'[y].host = run[x].host
        /\ run'[y].disk = run[x].disk /\ run'[y].arch = run[x].arch
    BY <2>3 DEF Idle
  <2>5. Prepares(y)
    BY <2>1, <2>4 DEF Prepares, Early, RequestInv
  <2>6. QED
    BY <1>5, <2>2, <2>5 DEF Redeliver
<1>6. CASE UNCHANGED vars \/ LinkDown \/ LinkUp \/ \E a \in Archives : Prune(a)
  BY <1>6 DEF vars, restoreVars, LinkDown, LinkUp, Prune
<1>7. ASSUME NEW s \in Syncs,
             \/ \E n \in Archives : TriggerSync(s, n)
             \/ FetchMeta(s) \/ OpenStream(s) \/ OpenRefused(s)
             \/ SweepTemps(s) \/ SyncEnds(s) \/ SyncCut(s)
      PROVE  Quietly
  BY <1>7 DEF TriggerSync, FetchMeta, OpenStream, OpenRefused, SweepTemps, SyncEnds, SyncCut,
              restoreVars
<1>8. QED
  BY <1>3, <1>4, <1>5, <1>6, <1>7 DEF Next, RestoreSteps, WorkSteps

\* Where a restore has the target mounted to take it down, and where it is about
\* to mount it or at it.
Inside == Mounted \cup {"unwind"}
Adding == Mounted \cup {"rmtree", "mount"}

\* What a step of a restore at work changes of the executions.
Turn(x) ==
    /\ \A z \in Runs \ {x} : run'[z] = run[z]
    /\ SamePlan(x) /\ run'[x].layout = run[x].layout
    /\ run[x].pc \in AtWork \cup {"check"} /\ run'[x].pc \in AtWork \cup {"done", "dead"}
    /\ run'[x].told = "SUCCESS" =>
           run[x].told = "SUCCESS" \/ (run[x].pc = "report" /\ run'[x].pc = "done")
    /\ run'[x].cwd = run[x].cwd \/ run'[x].pc = "extract"
    /\ run'[x].pc = "extract" => run[x].pc = "exclude" /\ run'[x].cwd = Top(run[x].host)
    /\ run'[x].pc = "orphan" => run[x].pc = "extract"
    /\ run[x].pc = "orphan" => run'[x].pc = "dead"
    /\ run[x].pc \in Inside \ {"unmount", "unwind"} => run'[x].pc \in Inside \cup {"dead", "orphan"}
    /\ run'[x].pc \in Adding => run[x].pc \in Adding \cup {"clear"}

LEMMA WorkTurns ==
  ASSUME run \in [Runs -> Executions], NEW x \in Runs, WorkSteps(x)
  PROVE  Turn(x)
<1>1. ASSUME NEW pc \in (AtWork \ {"extract", "orphan"}) \cup {"dead", "done"}, Goes(x, pc),
             run[x].pc \in (AtWork \ {"orphan"}) \cup {"check"},
             run[x].pc \in Inside \ {"unmount", "unwind"} => pc \in Inside \cup {"dead"},
             pc \in Adding => run[x].pc \in Adding \cup {"clear"}
      PROVE  Turn(x)
  BY <1>1, GoesEffect DEF Turn, Keeps
<1>2. ASSUME Raise(x), run[x].pc \in (AtWork \ {"orphan"}) \cup {"check"}
      PROVE  Turn(x)
  BY <1>2, RaiseEffect DEF Turn, Keeps, AtWork, Inside, Adding, Mounted
<1>3. CASE Check(x) \/ Breaks(x)
  BY <1>1, <1>2, <1>3 DEF Check, Breaks, At, AtWork, Inside, Adding, Mounted
<1>4. CASE Wipe(x) \/ Format(x) \/ Clear(x) \/ RemoveTree(x) \/ MountPartitions(x)
  BY <1>1, <1>2, <1>4
  DEF Wipe, Format, Clear, RemoveTree, MountPartitions, At, AtWork, Inside, Adding, Mounted
<1>5. CASE Configure(x) \/ Bind(x) \/ InstallBootloader(x) \/ Adapt(x)
  BY <1>1, <1>2, <1>5 DEF Configure, Bind, InstallBootloader, Adapt, At, AtWork, Inside, Adding, Mounted
<1>6. CASE AuditFstab(x) \/ InstallCheckin(x) \/ Unmount(x) \/ Unwind(x)
  BY <1>1, <1>2, <1>6 DEF AuditFstab, InstallCheckin, Unmount, Unwind, At, AtWork, Inside, Adding, Mounted
<1>7. CASE Ends(x) \/ Fails(x)
  BY <1>1, <1>2, <1>7 DEF Ends, Fails, ExtractEnds, ExtractFails, At, AtWork, Inside, Adding, Mounted
<1>8. CASE Begins(x)
  <2>1. At(x, "exclude") /\ run' = [run EXCEPT ![x].pc = "extract", ![x].cwd = Top(run[x].host),
                                               ![x].readable = Readable(x)]
    BY <1>8 DEF Begins, ExtractBegins
  <2>2. /\ \A z \in Runs \ {x} : run'[z] = run[z]
        /\ SamePlan(x) /\ run'[x].layout = run[x].layout /\ run'[x].told = run[x].told
        /\ run'[x].pc = "extract" /\ run'[x].cwd = Top(run[x].host)
    BY <2>1 DEF SamePlan, Executions
  <2>3. QED
    BY <2>1, <2>2 DEF Turn, At, AtWork, Inside, Adding, Mounted
<1>9. CASE Report(x)
  <2>1. /\ \A z \in Runs \ {x} : run'[z] = run[z]
        /\ Keeps(x) /\ run[x].pc = "report" /\ run'[x].pc = "done"
    BY <1>9 DEF Report, At, Keeps, SamePlan, Executions
  <2>2. QED
    BY <2>1 DEF Turn, Keeps, AtWork, Inside, Adding, Mounted
<1>10. CASE WorkerLost(x) \/ OrphanEnds(x)
  <2>1. CASE Goes(x, "dead") /\ run[x].pc \in AtWork
    BY <2>1, GoesEffect DEF Turn, Keeps, Inside, Adding, Mounted
  <2>2. CASE Goes(x, "orphan") /\ run[x].pc = "extract"
    BY <2>2, GoesEffect DEF Turn, Keeps, AtWork, Inside, Adding, Mounted
  <2>3. QED
    BY <1>10, <2>1, <2>2 DEF WorkerLost, OrphanEnds, At, AtWork
<1>11. QED
  BY <1>3, <1>4, <1>5, <1>6, <1>7, <1>8, <1>9, <1>10 DEF WorkSteps

\* What it changes of the mounts: those of its own host, and of these it takes
\* some away or adds its own disk.
Sheds(h) ==
    /\ Len(mounts'[h]) <= Len(mounts[h])
    /\ Len(mounts'[h]) = Len(mounts[h]) => mounts'[h] = mounts[h]
    /\ \A i \in DOMAIN mounts'[h] : \E j \in DOMAIN mounts[h] : mounts'[h][i] = mounts[h][j]
Pops(x) == run[x].pc \in {"clear", "unmount", "unwind"} /\ run'[x].pc # "dead"
Pushes(x) ==
    /\ run[x].pc = "mount" /\ run'[x].pc \in {"exclude", "unwind"}
    /\ mounts'[run[x].host] = <<[disk |-> run[x].disk, by |-> x]>> \o mounts[run[x].host]

Carries(x) ==
    LET h == run[x].host IN
    /\ \A g \in Hosts \ {h} : mounts'[g] = mounts[g]
    /\ ~Pushes(x) => Sheds(h)
    /\ run[x].pc \notin {"check", "format"} /\ ~Pops(x) /\ ~Pushes(x) => mounts'[h] = mounts[h]
    /\ Pops(x) => mounts'[h] = Unmounted(mounts[h])
    /\ run[x].pc = "mount" /\ run'[x].pc = "exclude" => Pushes(x)

LEMMA StackSheds ==
  ASSUME NEW S, NEW s \in Seq(S), NEW d, NEW h, mounts[h] = s,
         mounts'[h] \in {s, Unmounted(s), Unmounted(Unmounted(s)), Bared(s, d)}
  PROVE  Sheds(h)
<1>1. Sheds(h) <=> /\ Len(mounts'[h]) <= Len(s)
                   /\ Len(mounts'[h]) = Len(s) => mounts'[h] = s
                   /\ \A i \in DOMAIN mounts'[h] : \E j \in DOMAIN s : mounts'[h][i] = s[j]
  BY DEF Sheds
<1>2. Len(s) \in Nat
  OBVIOUS
<1>3. CASE mounts'[h] = s
  BY <1>1, <1>2, <1>3
<1>4. CASE mounts'[h] = Bared(s, d)
  BY <1>1, <1>2, <1>4, BaredStack
<1>5. /\ Unmounted(s) \in Seq(S)
      /\ Len(Unmounted(s)) = IF s = <<>> THEN 0 ELSE Len(s) - 1
      /\ \A i \in DOMAIN Unmounted(s) : i + 1 \in DOMAIN s /\ Unmounted(s)[i] = s[i + 1]
  BY Stacks
<1>6. s = <<>> => Unmounted(s) = s
  BY DEF Unmounted
<1>7. s # <<>> => Len(s) > 0
  OBVIOUS
<1>8. CASE mounts'[h] = Unmounted(s)
  BY <1>1, <1>2, <1>5, <1>6, <1>7, <1>8
<1>9. CASE mounts'[h] = Unmounted(Unmounted(s))
  <2> DEFINE t == Unmounted(s)
  <2>1. /\ Len(Unmounted(t)) = IF t = <<>> THEN 0 ELSE Len(t) - 1
        /\ \A i \in DOMAIN Unmounted(t) : i + 1 \in DOMAIN t /\ Unmounted(t)[i] = t[i + 1]
    BY <1>5, Stacks
  <2>2. \A i \in DOMAIN Unmounted(t) : \E j \in DOMAIN s : Unmounted(t)[i] = s[j]
    BY <1>5, <2>1
  <2>3. Len(t) \in Nat /\ (t # <<>> => Len(t) > 0)
    BY <1>5
  <2>4. Len(Unmounted(t)) <= Len(s)
    BY <1>2, <1>5, <1>7, <2>1, <2>3
  <2>5. Len(Unmounted(t)) = Len(s) => Unmounted(t) = s
    <3>1. s = <<>> => Unmounted(t) = s
      BY <1>6
    <3>2. s # <<>> => Len(Unmounted(t)) < Len(s)
      BY <1>2, <1>5, <1>7, <2>1, <2>3
    <3>3. QED
      BY <1>2, <3>1, <3>2
  <2>6. QED
    BY <1>1, <1>9, <2>2, <2>4, <2>5
<1>10. QED
  BY <1>3, <1>4, <1>8, <1>9

LEMMA WorkCarries ==
  ASSUME KioskClientAssumption, RestoreAssumption, TypeOK, NEW x \in Runs, WorkSteps(x)
  PROVE  Carries(x)
<1> DEFINE h == run[x].host
           s == mounts[h]
<1>1. /\ run \in [Runs -> Executions] /\ mounts \in [Hosts -> Seq(Mounts)]
      /\ h \in Hosts /\ s \in Seq(Mounts)
  BY DEF TypeOK, Executions
<1>2. Turn(x)
  BY <1>1, WorkTurns
<1>3. \A pc : Goes(x, pc) => run'[x].pc = pc
  BY <1>1, GoesEffect
<1>4. Raise(x) => run'[x].pc = "unwind"
  BY <1>1, RaiseEffect
<1>5. ASSUME mounts' = mounts, ~Pops(x), run[x].pc # "mount" \/ run'[x].pc # "exclude"
      PROVE  Carries(x)
  BY <1>1, <1>5, StackSheds DEF Carries
<1>0. ASSUME run[x].pc = "mount", run'[x].pc \in {"exclude", "unwind"}, Mount(x)
      PROVE  Carries(x)
  BY <1>0, <1>1 DEF Mount, Carries, Pops, Pushes
<1>6. ASSUME NEW new \in {s, Unmounted(s), Unmounted(Unmounted(s)), Bared(s, run[x].disk)},
             mounts' = [mounts EXCEPT ![h] = new], run[x].pc \in {"check", "format"}
      PROVE  Carries(x)
  BY <1>1, <1>6, StackSheds DEF Carries, Pops, Pushes
<1>7. CASE Check(x)
  <2>1. Released(h, run[x].disk) \in {s, Unmounted(s), Unmounted(Unmounted(s))}
    BY DEF Released
  <2>2. CASE mounts' = mounts
    BY <1>5, <1>7, <2>2 DEF Check, At, Pops
  <2>3. CASE mounts' = [mounts EXCEPT ![h] = Released(h, run[x].disk)]
    BY <1>6, <1>7, <2>1, <2>3 DEF Check, At
  <2>4. QED
    BY <1>7, <2>2, <2>3 DEF Check
<1>8. CASE Format(x)
  BY <1>6, <1>8 DEF Format, At
<1>9. CASE Clear(x) \/ Unmount(x) \/ Unwind(x)
  <2>1. /\ run[x].pc \in {"clear", "unmount", "unwind"} /\ run'[x].pc # "dead"
        /\ mounts' = [mounts EXCEPT ![h] = Unmounted(s)]
    BY <1>3, <1>9 DEF Clear, Unmount, Unwind, At
  <2>2. QED
    BY <1>1, <2>1, StackSheds DEF Carries, Pops, Pushes
<1>10. CASE MountPartitions(x)
  <2>1. CASE Raise(x) /\ UNCHANGED mounts
    BY <1>4, <1>5, <1>10, <2>1 DEF MountPartitions, At, Pops
  <2>2. CASE Mount(x) /\ Goes(x, "exclude")
    BY <1>0, <1>3, <1>10, <2>2 DEF MountPartitions, At
  <2>3. QED
    BY <1>10, <2>1, <2>2 DEF MountPartitions
<1>11. CASE Breaks(x)
  BY <1>0, <1>4, <1>5, <1>11 DEF Breaks, HalfDone, At, Pops
<1>12. CASE WorkerLost(x) \/ OrphanEnds(x)
  BY <1>2, <1>3, <1>5, <1>12 DEF WorkerLost, OrphanEnds, At, Pops, Turn
<1>13. CASE Wipe(x) \/ RemoveTree(x) \/ Configure(x) \/ Bind(x) \/ InstallBootloader(x)
            \/ Adapt(x) \/ AuditFstab(x) \/ InstallCheckin(x) \/ Report(x)
  BY <1>5, <1>13
  DEF Wipe, RemoveTree, Configure, Bind, InstallBootloader, Adapt, AuditFstab, InstallCheckin,
      Report, At, Pops
<1>14. CASE Begins(x) \/ Ends(x) \/ Fails(x)
  BY <1>5, <1>14
  DEF Begins, Ends, Fails, ExtractBegins, ExtractEnds, ExtractFails, At, Pops
<1>15. QED
  BY <1>7, <1>8, <1>9, <1>10, <1>11, <1>12, <1>13, <1>14 DEF WorkSteps

LEMMA Pushed ==
  ASSUME TypeOK, NEW x \in Runs, run[x].disk \in Disks, Pushes(x)
  PROVE  LET h == run[x].host IN
         /\ Len(mounts'[h]) = Len(mounts[h]) + 1
         /\ mounts'[h][1] = [disk |-> run[x].disk, by |-> x]
         /\ \A i \in DOMAIN mounts'[h] :
                i = 1 \/ (i - 1 \in DOMAIN mounts[h] /\ mounts'[h][i] = mounts[h][i - 1])
<1> DEFINE stack == mounts[run[x].host]
           new == mounts'[run[x].host]
           e == [disk |-> run[x].disk, by |-> x]
<1>1. new = <<e>> \o stack /\ stack \in Seq(Mounts) /\ e \in Mounts
  BY DEF TypeOK, Executions, Pushes, Mounts
<1> HIDE DEF stack, new, e
<1>2. /\ new \in Seq(Mounts) /\ Len(new) = Len(stack) + 1 /\ new[1] = e
      /\ \A i \in 2 .. Len(stack) + 1 : new[i] = stack[i - 1]
  BY <1>1, PushedStack
<1>3. \A i \in DOMAIN new : i = 1 \/ (i - 1 \in DOMAIN stack /\ new[i] = stack[i - 1])
  BY <1>1, <1>2
<1>4. QED
  BY <1>2, <1>3 DEF stack, new, e

\* What it changes of the disks: the one that was asked for, the one that is
\* mounted on top and the one its borg works in.  Only a wipe makes a disk its own.
Writes(x) ==
    \A d \in Disks :
        \/ disk'[d] = disk[d]
        \/ run[x].pc = "wipe" /\ d = run[x].disk /\ disk'[d].by = x
        \/ /\ disk'[d].by = disk[d].by
           /\ \/ run[x].pc \in {"format", "boot"} /\ d = run[x].disk
              \/ run[x].pc \in {"rmtree", "configure", "boot"} /\ d = Top(run[x].host).disk
              \/ run[x].pc = "extract" /\ d = run[x].cwd.disk

LEMMA DiskEffect ==
  ASSUME disk \in [Disks -> Disked], NEW d, NEW e \in Disks
  PROVE  /\ \A r, s : /\ e # d => [disk EXCEPT ![d].root = r, ![d].sub = s][e] = disk[e]
                      /\ [disk EXCEPT ![d].root = r, ![d].sub = s][e].by = disk[e].by
         /\ \A names : /\ e # d => [disk EXCEPT ![d].fstab = names][e] = disk[e]
                       /\ [disk EXCEPT ![d].fstab = names][e].by = disk[e].by
         /\ \A boots : /\ e # d => [disk EXCEPT ![d].boots = boots][e] = disk[e]
                       /\ [disk EXCEPT ![d].boots = boots][e].by = disk[e].by
  BY DEF Disked

LEMMA WorkWrites ==
  ASSUME KioskClientAssumption, RestoreAssumption, TypeOK, NEW x \in Runs, WorkSteps(x)
  PROVE  Writes(x)
<1>1. disk \in [Disks -> Disked]
  BY DEF TypeOK, Disked
<1>2. disk' = disk => Writes(x)
  BY DEF Writes
<1>3. ASSUME NEW d, NEW r, NEW s, disk' = [disk EXCEPT ![d].root = r, ![d].sub = s],
             \/ run[x].pc = "rmtree" /\ d = Top(run[x].host).disk
             \/ run[x].pc = "extract" /\ d = run[x].cwd.disk
      PROVE  Writes(x)
  <2>1. \A e \in Disks : (e # d => disk'[e] = disk[e]) /\ disk'[e].by = disk[e].by
    BY <1>1, <1>3, DiskEffect
  <2>2. QED
    BY <1>3, <2>1 DEF Writes
<1>4. ASSUME run[x].pc = "wipe", disk' \in {disk, Raw(x)} PROVE Writes(x)
  BY <1>1, <1>4 DEF Writes, Raw
<1>5. CASE Wipe(x) \/ Breaks(x)
  BY <1>2, <1>4, <1>5 DEF Wipe, Breaks, HalfDone, At
<1>6. CASE Format(x)
  <2>1. ASSUME disk' = Formatted(x)
        PROVE  \A e \in Disks : (e # run[x].disk => disk'[e] = disk[e]) /\ disk'[e].by = disk[e].by
    BY <1>1, <2>1 DEF Formatted, Disked
  <2>2. QED
    BY <1>2, <1>6, <2>1 DEF Format, At, Writes
<1>7. CASE RemoveTree(x)
  BY <1>2, <1>3, <1>7 DEF RemoveTree, At
<1>8. CASE Configure(x)
  <2> DEFINE d == Top(run[x].host).disk
  <2>1. disk' = disk \/ disk' = [disk EXCEPT ![d].fstab = Expected(run[x].layout)]
    BY <1>8 DEF Configure, WithFstab
  <2> HIDE DEF d
  <2>2. \A e \in Disks : (e # d => disk'[e] = disk[e]) /\ disk'[e].by = disk[e].by
    BY <1>1, <2>1 DEF Disked
  <2>3. QED
    BY <1>8, <2>2 DEF Writes, Configure, At, d
<1>9. CASE InstallBootloader(x)
  <2>1. CASE disk' = disk
    BY <1>2, <2>1
  <2>2. CASE disk' # disk
    <3>1. PICK d \in {Top(run[x].host).disk, run[x].disk} :
             disk' = [disk EXCEPT ![d].boots = (d = Top(run[x].host).disk)]
      BY <1>9, <2>2 DEF InstallBootloader
    <3>2. \A e \in Disks : (e # d => disk'[e] = disk[e]) /\ disk'[e].by = disk[e].by
      BY <1>1, <3>1, DiskEffect
    <3>3. QED
      BY <1>9, <3>2 DEF Writes, InstallBootloader, At
  <2>3. QED
    BY <2>1, <2>2
<1>10. CASE Ends(x) \/ Fails(x) \/ WorkerLost(x)
  <2> DEFINE d == run[x].cwd.disk
  <2>1. disk' = disk \/ (run[x].pc = "extract" /\ disk' \in {Extracted(x), Partial(x)})
    BY <1>10 DEF Ends, Fails, ExtractEnds, ExtractFails, WorkerLost, At
  <2>2. CASE run[x].pc = "extract" /\ disk' = Partial(x)
    BY <1>2, <1>3, <2>2 DEF Partial
  <2>3. CASE run[x].pc = "extract" /\ disk' = Extracted(x)
    <3>1. CASE d \in Disks
      <4>1. disk' = disk \/ \E r, s : disk' = [disk EXCEPT ![d].root = r, ![d].sub = s]
        BY <2>3, <3>1 DEF Extracted
      <4>2. QED
        BY <1>2, <1>3, <2>3, <4>1
    <3>2. CASE d \notin Disks
      BY <1>1, <1>2, <2>3, <3>2 DEF Extracted
    <3>3. QED
      BY <3>1, <3>2
  <2>4. QED
    BY <1>2, <2>1, <2>2, <2>3
<1>11. CASE \/ Check(x) \/ Clear(x) \/ MountPartitions(x) \/ Bind(x) \/ Adapt(x) \/ AuditFstab(x)
            \/ InstallCheckin(x) \/ Unmount(x) \/ Report(x) \/ Unwind(x) \/ OrphanEnds(x)
            \/ Begins(x)
  BY <1>2, <1>11
  DEF Check, Clear, MountPartitions, Bind, Adapt, AuditFstab, InstallCheckin, Unmount, Report,
      Unwind, OrphanEnds, Begins, ExtractBegins
<1>12. QED
  BY <1>5, <1>6, <1>7, <1>8, <1>9, <1>10, <1>11 DEF WorkSteps

\* What it changes of the record of who has lapped whom.
Laps(x) ==
    /\ lapped \subseteq lapped'
    /\ run[x].pc = "check" /\ Working(run[x].host) # {} =>
           Working(run[x].host) \cup {x} \subseteq lapped'

LEMMA WorkLaps ==
  ASSUME NEW x \in Runs, WorkSteps(x)
  PROVE  Laps(x) /\ (run[x].pc # "check" => lapped' = lapped)
<1>1. CASE Check(x) \/ Breaks(x)
  BY <1>1 DEF Check, Breaks, At, Laps
<1>2. CASE \/ Wipe(x) \/ Format(x) \/ Clear(x) \/ RemoveTree(x) \/ MountPartitions(x)
           \/ Configure(x) \/ Bind(x) \/ InstallBootloader(x) \/ Adapt(x)
  BY <1>2
  DEF Laps, Wipe, Format, Clear, RemoveTree, MountPartitions, Configure, Bind,
      InstallBootloader, Adapt, At
<1>3. CASE \/ AuditFstab(x) \/ InstallCheckin(x) \/ Unmount(x) \/ Report(x) \/ Unwind(x)
           \/ WorkerLost(x) \/ OrphanEnds(x) \/ Begins(x) \/ Ends(x) \/ Fails(x)
  BY <1>3
  DEF Laps, AuditFstab, InstallCheckin, Unmount, Report, Unwind, WorkerLost, OrphanEnds, Begins,
      Ends, Fails, ExtractBegins, ExtractEnds, ExtractFails, At, AtWork, Mounted
<1>4. QED
  BY <1>1, <1>2, <1>3 DEF WorkSteps

\* The death of the kiosk's backend.
Dies(z) == run[z].host = Kiosk /\ run[z].pc \notin {"idle", "dead"}

LEMMA DeathEffect ==
  ASSUME KioskClientAssumption, RestoreAssumption, TypeOK, BackendDies
  PROVE  /\ UNCHANGED <<mounts, lapped>>
         /\ \A z \in Runs : /\ ~Dies(z) => run'[z] = run[z]
                            /\ Dies(z) => /\ run'[z].pc = "dead" /\ run'[z].told = "NONE"
                                          /\ SamePlan(z)
         /\ \A d \in Disks : \/ disk'[d] = disk[d]
                             \/ /\ disk'[d].by = disk[d].by
                                /\ \E z \in Runs : /\ run[z].host = Kiosk /\ run[z].pc = "extract"
                                                   /\ run[z].cwd.disk = d
<1>1. run \in [Runs -> Executions] /\ disk \in [Disks -> Disked]
  BY DEF TypeOK, Disked
<1>2. \A z \in Runs : run'[z] = IF Dies(z) THEN [run[z] EXCEPT !.pc = "dead", !.told = "NONE"]
                                ELSE run[z]
  BY DEF BackendDies, Dies
<1>3. \A r \in Executions : LET q == [r EXCEPT !.pc = "dead", !.told = "NONE"] IN
          q.pc = "dead" /\ q.told = "NONE" /\ q.host = r.host /\ q.disk = r.disk /\ q.arch = r.arch
  BY DEF Executions
<1>4. ASSUME NEW z \in Runs, Dies(z)
      PROVE  run'[z].pc = "dead" /\ run'[z].told = "NONE" /\ SamePlan(z)
  <2>1. run[z] \in Executions /\ run'[z] = [run[z] EXCEPT !.pc = "dead", !.told = "NONE"]
    BY <1>1, <1>2, <1>4
  <2>2. QED
    BY <1>3, <2>1 DEF SamePlan
<1>5. \A r \in Disked : [r EXCEPT !.root = "part", !.sub = "part"].by = r.by
  BY DEF Disked
<1>6. \A d \in Disks : \/ disk'[d] = disk[d]
                       \/ /\ disk'[d].by = disk[d].by
                          /\ \E z \in Runs : /\ run[z].host = Kiosk /\ run[z].pc = "extract"
                                             /\ run[z].cwd.disk = d
  BY <1>1, <1>5 DEF BackendDies, At
<1>7. QED
  BY <1>2, <1>4, <1>6 DEF BackendDies

----------------------------------------------------------------------------
(* The invariants.                                                         *)

Gone(x) == run[x].pc \in {"dead", "orphan"}
Basics == TypeOK /\ RequestInv /\ ToldInv /\ PlaceInv /\ LapInv

LEMMA RunsKept ==
  ASSUME KioskClientAssumption, RestoreAssumption, Basics, [Next]_vars
  PROVE  /\ \A x \in Runs : run'[x].pc # "idle" =>
                run'[x].disk \in Disks /\ run'[x].host = HostOf[run'[x].disk]
                /\ run'[x].arch \in Archives
         /\ \A x \in Runs : run'[x].told = "SUCCESS" => run'[x].pc = "done"
         /\ \A x \in Runs : Gone(x) => Gone(x)' /\ run'[x].host = run[x].host
         /\ lapped \subseteq lapped'
<1>1. /\ \A x \in Runs : run[x].pc # "idle" =>
             run[x].disk \in Disks /\ run[x].host = HostOf[run[x].disk] /\ run[x].arch \in Archives
      /\ \A x \in Runs : run[x].told = "SUCCESS" => run[x].pc = "done"
      /\ run \in [Runs -> Executions]
  BY DEF Basics, RequestInv, ToldInv, TypeOK
<1>2. CASE Quietly
  BY <1>1, <1>2 DEF Quietly, SameRun, Prepares, Early, Gone
<1>3. CASE \E x \in Runs : WorkSteps(x)
  <2>1. PICK x \in Runs : WorkSteps(x)
    BY <1>3
  <2>2. Turn(x) /\ Laps(x)
    BY <1>1, <2>1, WorkTurns, WorkLaps
  <2>3. "idle" \notin AtWork \cup {"check"} /\ "done" \notin AtWork \cup {"check"}
        /\ "dead" \notin AtWork \cup {"check"}
    BY DEF AtWork, Mounted
  <2>4. QED
    BY <1>1, <2>2, <2>3 DEF Turn, Laps, SamePlan, Gone
<1>4. CASE BackendDies
  <2>1. /\ lapped' = lapped
        /\ \A z \in Runs : /\ ~Dies(z) => run'[z] = run[z]
                           /\ Dies(z) => /\ run'[z].pc = "dead" /\ run'[z].told = "NONE"
                                         /\ SamePlan(z)
    BY <1>4, DeathEffect DEF Basics
  <2>2. QED
    BY <1>1, <2>1 DEF Dies, SamePlan, Gone
<1>5. QED
  BY <1>2, <1>3, <1>4, StepKinds DEF Basics

LEMMA PlacesKept ==
  ASSUME KioskClientAssumption, RestoreAssumption, Basics, [Next]_vars
  PROVE  PlaceInv' /\ LapInv'
<1>1. /\ \A x \in Runs : run[x].pc # "idle" =>
             run[x].disk \in Disks /\ run[x].host = HostOf[run[x].disk] /\ run[x].arch \in Archives
      /\ run \in [Runs -> Executions] /\ mounts \in [Hosts -> Seq(Mounts)]
      /\ PlaceInv /\ LapInv
  BY DEF Basics, RequestInv, TypeOK
<1>2. CASE Quietly
  <2>1. \A z \in Runs : run'[z].pc \in AtWork => SameRun(z)
    BY <1>2 DEF Quietly, Prepares, Early, AtWork, Mounted
  <2>2. PlaceInv'
    BY <1>1, <1>2, <2>1 DEF Quietly, SameRun, PlaceInv, AtWork, Mounted
  <2>3. LapInv'
    BY <1>1, <1>2, <2>1 DEF Quietly, SameRun, LapInv
  <2>4. QED
    BY <2>2, <2>3
<1>3. CASE \E x \in Runs : WorkSteps(x)
  <2>1. PICK x \in Runs : WorkSteps(x)
    BY <1>3
  <2> DEFINE h == run[x].host
  <2>2. Turn(x) /\ Laps(x) /\ (run[x].pc # "check" => lapped' = lapped)
    BY <1>1, <2>1, WorkTurns, WorkLaps
  <2>3. Carries(x)
    BY <2>1, WorkCarries DEF Basics
  <2>4. h \in Hosts /\ run[x].pc # "idle" /\ HostOf[run[x].disk] = h
    BY <1>1, <2>2 DEF Turn, AtWork, Mounted, Executions
  <2>5. ASSUME NEW g \in Hosts, NEW i \in DOMAIN mounts'[g]
        PROVE  HostOf[mounts'[g][i].disk] = g
    <3>1. CASE mounts'[g] = mounts[g] \/ (g = h /\ Sheds(h))
      BY <1>1, <2>5, <3>1 DEF PlaceInv, Sheds
    <3>2. CASE g = h /\ Pushes(x)
      <4>1. /\ mounts'[h][1].disk = run[x].disk
            /\ i = 1 \/ (i - 1 \in DOMAIN mounts[h] /\ mounts'[h][i] = mounts[h][i - 1])
        <5>1. /\ mounts'[h][1] = [disk |-> run[x].disk, by |-> x]
              /\ \A k \in DOMAIN mounts'[h] :
                     k = 1 \/ (k - 1 \in DOMAIN mounts[h] /\ mounts'[h][k] = mounts[h][k - 1])
          BY <1>1, <2>3, <2>4, <3>2, Pushed DEF Basics
        <5>2. QED
          BY <2>5, <3>2, <5>1
      <4>2. QED
        BY <1>1, <2>4, <3>2, <4>1 DEF PlaceInv
    <3>3. QED
      BY <2>3, <3>1, <3>2 DEF Carries
  <2>6. ASSUME NEW z \in Runs, run'[z].pc \in {"extract", "orphan"}, run'[z].cwd.disk # NoDisk
        PROVE  HostOf[run'[z].cwd.disk] = run'[z].host
    <3>1. CASE z # x \/ run'[z].pc = "orphan"
      BY <1>1, <2>2, <2>6, <3>1 DEF Turn, SamePlan, PlaceInv
    <3>2. CASE z = x /\ run'[x].pc = "extract"
      <4>1. run'[x].cwd = Top(h) /\ run'[x].host = h
        BY <2>2, <3>2 DEF Turn, SamePlan
      <4>2. mounts[h] # <<>> /\ Top(h) = mounts[h][1]
        BY <2>6, <3>2, <4>1 DEF Top, Nowhere
      <4>3. 1 \in DOMAIN mounts[h]
        <5> DEFINE stack == mounts[h]
        <5>1. stack \in Seq(Mounts) /\ stack # <<>>
          BY <1>1, <2>4, <4>2
        <5> HIDE DEF stack
        <5>2. 1 \in DOMAIN stack
          BY <5>1
        <5>3. QED
          BY <5>2 DEF stack
      <4>4. QED
        BY <1>1, <2>4, <3>2, <4>1, <4>2, <4>3 DEF PlaceInv
    <3>3. QED
      BY <2>6, <3>1, <3>2
  <2>7. ASSUME NEW y \in Runs, NEW z \in Runs, y # z, run'[y].host = run'[z].host,
               run'[y].pc \in AtWork, run'[z].pc \in AtWork
        PROVE  y \in lapped'
    <3>1. \A w \in Runs : run'[w].host = run[w].host /\ (w # x => run'[w].pc = run[w].pc)
      BY <2>2 DEF Turn, SamePlan
    <3>2. CASE run[x].pc \in AtWork \/ (y # x /\ z # x)
      BY <1>1, <2>2, <2>7, <3>1, <3>2 DEF LapInv, Laps
    <3>3. CASE run[x].pc = "check" /\ (y = x \/ z = x)
      BY <2>2, <2>7, <3>1, <3>3 DEF Laps, Working
    <3>4. QED
      BY <2>2, <3>2, <3>3 DEF Turn
  <2>8. QED
    BY <2>5, <2>6, <2>7 DEF PlaceInv, LapInv
<1>4. CASE BackendDies
  <2>1. /\ lapped' = lapped /\ mounts' = mounts
        /\ \A z \in Runs : /\ ~Dies(z) => run'[z] = run[z]
                           /\ Dies(z) => run'[z].pc = "dead"
    BY <1>4, DeathEffect DEF Basics
  <2>2. \A z \in Runs : run'[z].pc \in AtWork => run'[z] = run[z]
    BY <2>1 DEF AtWork, Mounted
  <2>3. QED
    BY <1>1, <2>1, <2>2 DEF PlaceInv, LapInv, AtWork, Mounted
<1>5. QED
  BY <1>2, <1>3, <1>4, StepKinds DEF Basics

LEMMA BasicsKept ==
  ASSUME KioskClientAssumption, RestoreAssumption, Basics, [Next]_vars
  PROVE  Basics'
<1>1. TypeOK'
  BY TypesKept DEF Basics
<1>2. /\ \A s \in Syncs : sync'[s].pc # "idle" => sync'[s].node \in Archives
      /\ \A s \in Syncs : sync'[s].told = "SUCCESS" => sync'[s].pc = "done"
  BY CopiesKept DEF Basics
<1>3. RequestInv' /\ ToldInv'
  BY <1>2, RunsKept DEF RequestInv, ToldInv
<1>4. QED
  BY <1>1, <1>2, <1>3, PlacesKept DEF Basics

----------------------------------------------------------------------------
(* What stays mounted.                                                     *)

Live(h) == {x \in Runs : run[x].host = h /\ run[x].pc \in Inside}
LostLapped(h) == \E x \in lapped : run[x].host = h /\ Gone(x)

\* What a lost run left mounted, with nobody there who mounts more.
LeftAlone(h) ==
    /\ Len(mounts[h]) = 1 /\ Gone(mounts[h][1].by)
    /\ \A x \in Runs : run[x].host = h => run[x].pc \notin Adding

\* Every mount is some live run's to take down ...
Count(h) == LostLapped(h) \/ LeftAlone(h) \/ Len(mounts[h]) <= Cardinality(Live(h))

\* ... and a run that is alone on its host finds its own, or those of lost ones.
Own(h) ==
    \/ LostLapped(h)
    \/ \A y \in Live(h) \ lapped, i \in DOMAIN mounts[h] :
           mounts[h][i].by = y \/ Gone(mounts[h][i].by)

CountInv == \A h \in Hosts : Count(h) /\ Own(h)

LEMMA LiveCounts ==
  ASSUME RestoreAssumption, NEW h
  PROVE  /\ IsFiniteSet(Live(h)) /\ Cardinality(Live(h)) \in Nat
         /\ \A S \in SUBSET Runs : /\ IsFiniteSet(S) /\ Cardinality(S) \in Nat
                                   /\ Live(h) \subseteq S => Cardinality(Live(h)) <= Cardinality(S)
         /\ Live(h) = {} => Cardinality(Live(h)) = 0
         /\ \A y : Live(h) = {y} => Cardinality(Live(h)) = 1
         /\ \A y \in Live(h) : Cardinality(Live(h) \ {y}) = Cardinality(Live(h)) - 1
         /\ \A y \in Runs \ Live(h) : Cardinality(Live(h) \cup {y}) = Cardinality(Live(h)) + 1
<1>1. IsFiniteSet(Runs) /\ Live(h) \subseteq Runs
  BY DEF RestoreAssumption, Live
<1>2. \A S \in SUBSET Runs : IsFiniteSet(S) /\ Cardinality(S) \in Nat
  BY <1>1, FS_Subset, FS_CardinalityType
<1>3. \A S \in SUBSET Runs : Live(h) \subseteq S => Cardinality(Live(h)) <= Cardinality(S)
  BY <1>2, FS_Subset
<1>4. QED
  BY <1>1, <1>2, <1>3, FS_EmptySet, FS_Singleton, FS_AddElement, FS_RemoveElement

\* Nobody who is not among the lapped shares a host with a live run.
LEMMA LiveAlone ==
  ASSUME LapInv, NEW x \in Runs \ lapped, run[x].pc \in AtWork
  PROVE  \A y \in Runs : y # x /\ run[y].host = run[x].host => run[y].pc \notin AtWork
  BY DEF LapInv

\* What happens on a host: the gone stay gone, and one of two things.
Onward == /\ lapped \subseteq lapped'
          /\ \A z \in Runs : Gone(z) => Gone(z)' /\ run'[z].host = run[z].host

LEMMA StackFacts ==
  ASSUME NEW s \in Seq(Mounts)
  PROVE  /\ Len(s) \in Nat /\ DOMAIN s = 1 .. Len(s)
         /\ \A i \in DOMAIN s : s[i].by \in Runs /\ s[i].disk \in Disks
<1>1. \A i \in DOMAIN s : s[i] \in Mounts
  OBVIOUS
<1>2. QED
  BY <1>1 DEF Mounts

LEMMA LostStays ==
  ASSUME TypeOK, Onward, NEW h, LostLapped(h)
  PROVE  LostLapped(h)'
<1>1. PICK x \in lapped : run[x].host = h /\ Gone(x)
  BY DEF LostLapped
<1>2. x \in Runs /\ x \in lapped' /\ Gone(x)' /\ run'[x].host = h
  BY <1>1 DEF Onward, TypeOK
<1>3. QED
  BY <1>2 DEF LostLapped, Gone

\* Nobody leaves, and nothing is mounted.
LEMMA HostKeeps ==
  ASSUME RestoreAssumption, TypeOK, TypeOK', Onward, NEW h \in Hosts, Count(h), Own(h),
         Sheds(h), Live(h) \subseteq Live(h)',
         LeftAlone(h) /\ Len(mounts'[h]) # 0 =>
             \A z \in Runs : run'[z].host = h => run'[z].pc \notin Adding,
         \A y \in Live(h)' \ lapped' : y \in Live(h) \/ Live(h) = {}
  PROVE  Count(h)' /\ Own(h)'
<1>1. LostLapped(h) => LostLapped(h)'
  BY LostStays
<1>2. /\ Len(mounts[h]) \in Nat /\ DOMAIN mounts[h] = 1 .. Len(mounts[h])
      /\ \A i \in DOMAIN mounts[h] : mounts[h][i].by \in Runs
  BY StackFacts DEF TypeOK
<1>3. /\ Len(mounts'[h]) \in Nat /\ DOMAIN mounts'[h] = 1 .. Len(mounts'[h])
  BY StackFacts DEF TypeOK
<1>4. Cardinality(Live(h)) \in Nat /\ Cardinality(Live(h)') \in Nat
      /\ Cardinality(Live(h)) <= Cardinality(Live(h)')
  <2>1. Live(h)' \in SUBSET Runs
    BY DEF Live
  <2>2. QED
    BY <2>1, LiveCounts
<1>5. CASE LostLapped(h)
  BY <1>1, <1>5 DEF Count, Own
<1>6. CASE LeftAlone(h)
  <2>1. Len(mounts'[h]) = 0 \/ (Len(mounts'[h]) = 1 /\ mounts'[h] = mounts[h])
    <3> DEFINE m == Len(mounts[h])
               n == Len(mounts'[h])
    <3>1. m = 1 /\ n \in Nat /\ n <= m /\ (n = m => mounts'[h] = mounts[h])
      BY <1>2, <1>3, <1>6 DEF LeftAlone, Sheds
    <3> HIDE DEF m, n
    <3>2. n = 0 \/ (n = 1 /\ mounts'[h] = mounts[h])
      BY <3>1
    <3>3. QED
      BY <3>2 DEF n
  <2>2. /\ mounts[h][1].by \in Runs
        /\ run[mounts[h][1].by].pc \in {"dead", "orphan"}
        /\ run'[mounts[h][1].by].pc \in {"dead", "orphan"}
    BY <1>2, <1>6 DEF LeftAlone, Onward, Gone
  <2>3. Len(mounts'[h]) = 1 => LeftAlone(h)'
    BY <1>6, <2>1, <2>2 DEF LeftAlone, Gone
  <2>4. Count(h)'
    BY <1>4, <2>1, <2>3 DEF Count
  <2>5. Own(h)'
    BY <1>3, <2>1, <2>2 DEF Own, Gone
  <2>6. QED
    BY <2>4, <2>5
<1>7. CASE ~LostLapped(h) /\ ~LeftAlone(h)
  <2>1. Len(mounts[h]) <= Cardinality(Live(h))
    BY <1>7 DEF Count
  <2>2. Count(h)'
    BY <1>2, <1>3, <1>4, <2>1 DEF Count, Sheds
  <2>3. ASSUME NEW y \in Live(h)' \ lapped', NEW i \in DOMAIN mounts'[h]
        PROVE  mounts'[h][i].by = y \/ run'[mounts'[h][i].by].pc \in {"dead", "orphan"}
    <3>1. PICK j \in DOMAIN mounts[h] : mounts'[h][i] = mounts[h][j]
      BY DEF Sheds
    <3>2. CASE y \in Live(h)
      <4>1. mounts[h][j].by = y \/ Gone(mounts[h][j].by)
        BY <1>7, <2>3, <3>2 DEF Own, Onward
      <4>2. QED
        BY <1>2, <3>1, <4>1 DEF Onward, Gone
    <3>3. CASE Live(h) = {}
      <4>1. Len(mounts[h]) <= 0
        BY <2>1, <3>3, LiveCounts
      <4>2. QED
        BY <1>2, <3>1, <4>1
    <3>4. QED
      BY <3>2, <3>3
  <2>4. QED
    BY <2>2, <2>3 DEF Own, Gone
<1>8. QED
  BY <1>5, <1>6, <1>7

\* The only live run is lost.
LEMMA HostLoses ==
  ASSUME RestoreAssumption, TypeOK, TypeOK', Onward, NEW h \in Hosts, Count(h), Own(h),
         mounts'[h] = mounts[h], Live(h)' = {},
         \A z \in Runs : run'[z].host = h => run'[z].pc \notin Adding,
         NEW y \in Runs \ lapped, Live(h) = {y}, Gone(y)'
  PROVE  Count(h)' /\ Own(h)'
<1>1. LostLapped(h) => LostLapped(h)'
  BY LostStays
<1>2. /\ Len(mounts[h]) \in Nat /\ DOMAIN mounts[h] = 1 .. Len(mounts[h])
      /\ \A i \in DOMAIN mounts[h] : mounts[h][i].by \in Runs
  BY StackFacts DEF TypeOK
<1>3. Own(h)'
  BY DEF Own
<1>4. Cardinality(Live(h)) = 1 /\ Cardinality(Live(h)') = 0
  BY LiveCounts, FS_EmptySet
<1>5. CASE LostLapped(h)
  BY <1>1, <1>3, <1>5 DEF Count
<1>6. CASE LeftAlone(h)
  <2>1. run'[mounts[h][1].by].pc \in {"dead", "orphan"}
    BY <1>2, <1>6 DEF LeftAlone, Onward, Gone
  <2>2. LeftAlone(h)'
    BY <1>6, <2>1 DEF LeftAlone, Gone
  <2>3. QED
    BY <1>3, <2>2 DEF Count
<1>7. CASE ~LostLapped(h) /\ ~LeftAlone(h)
  <2>1. Len(mounts[h]) \in {0, 1}
    <3> DEFINE n == Len(mounts[h])
    <3>1. n \in Nat /\ n <= 1
      BY <1>2, <1>4, <1>7 DEF Count
    <3> HIDE DEF n
    <3>2. n \in {0, 1}
      BY <3>1
    <3>3. QED
      BY <3>2 DEF n
  <2>2. CASE Len(mounts[h]) = 0
    BY <1>3, <1>4, <2>2 DEF Count
  <2>3. CASE Len(mounts[h]) = 1
    <3>1. mounts[h][1].by = y \/ Gone(mounts[h][1].by)
      BY <1>2, <1>7, <2>3 DEF Own
    <3>2. run'[mounts[h][1].by].pc \in {"dead", "orphan"}
      BY <1>2, <2>3, <3>1 DEF Onward, Gone
    <3>3. LeftAlone(h)'
      BY <2>3, <3>2 DEF LeftAlone, Gone
    <3>4. QED
      BY <1>3, <3>3 DEF Count
  <2>4. QED
    BY <2>1, <2>2, <2>3
<1>8. QED
  BY <1>5, <1>6, <1>7

LEMMA OnwardKept ==
  ASSUME KioskClientAssumption, RestoreAssumption, Basics, [Next]_vars
  PROVE  Onward
  BY RunsKept DEF Onward

\* A step that touches neither the mounts of a host nor who is where on it.
LEMMA HostUntouched ==
  ASSUME RestoreAssumption, TypeOK, TypeOK', Onward, NEW h \in Hosts, Count(h), Own(h),
         mounts'[h] = mounts[h],
         \A z \in Runs : \/ run'[z].host = run[z].host /\ run'[z].pc = run[z].pc
                         \/ /\ ~(run[z].host = h /\ run[z].pc \in Inside)
                            /\ ~(run'[z].host = h /\ run'[z].pc \in Inside \cup Adding)
  PROVE  Count(h)' /\ Own(h)'
<1>1. Live(h)' = Live(h)
  BY DEF Live
<1>2. Sheds(h)
  BY StackFacts DEF TypeOK, Sheds
<1>3. LeftAlone(h) => \A z \in Runs : run'[z].host = h => run'[z].pc \notin Adding
  BY DEF LeftAlone
<1>4. QED
  BY <1>1, <1>2, <1>3, HostKeeps

\* A step of a restore, on its own host.
LEMMA HostWorked ==
  ASSUME RestoreAssumption, TypeOK, TypeOK', LapInv, Onward, NEW x \in Runs, NEW h \in Hosts,
         h = run[x].host, run[x].disk \in Disks,
         Count(h), Own(h), Turn(x), Carries(x), Laps(x), run[x].pc # "check" => lapped' = lapped
  PROVE  Count(h)' /\ Own(h)'
<1>1. /\ \A z \in Runs : run'[z].host = run[z].host /\ (z # x => run'[z].pc = run[z].pc)
      /\ run[x].pc \in AtWork \cup {"check"} /\ run'[x].pc \in AtWork \cup {"done", "dead"}
  BY DEF Turn, SamePlan
<1>2. /\ mounts[h] \in Seq(Mounts) /\ mounts'[h] \in Seq(Mounts)
      /\ Len(mounts[h]) \in Nat /\ Len(mounts'[h]) \in Nat
      /\ DOMAIN mounts[h] = 1 .. Len(mounts[h]) /\ DOMAIN mounts'[h] = 1 .. Len(mounts'[h])
  BY StackFacts DEF TypeOK
<1>3. Inside \subseteq AtWork /\ Adding \subseteq AtWork
  BY DEF Inside, Adding, AtWork
<1>4. x \notin lapped' => Live(h) \ {x} = {}
  <2>1. CASE run[x].pc = "check"
    BY <1>3, <2>1 DEF Laps, Working, Live
  <2>2. CASE run[x].pc \in AtWork
    BY <1>3, <2>2, LiveAlone DEF Onward, Live
  <2>3. QED
    BY <1>1, <2>1, <2>2
<1>5. CASE Pushes(x)
  <2>1. Live(h)' = Live(h) \cup {x} /\ x \notin Live(h)
    BY <1>1, <1>5 DEF Live, Pushes, Inside, Mounted
  <2>2. Cardinality(Live(h)') = Cardinality(Live(h)) + 1 /\ Cardinality(Live(h)) \in Nat
    BY <2>1, LiveCounts
  <2>3. /\ Len(mounts'[h]) = Len(mounts[h]) + 1
        /\ mounts'[h][1] = [disk |-> run[x].disk, by |-> x]
        /\ \A i \in DOMAIN mounts'[h] : i = 1 \/ i - 1 \in DOMAIN mounts[h]
    BY <1>5, Pushed
  <2>4. ~LeftAlone(h) /\ lapped' = lapped
    BY <1>5 DEF LeftAlone, Pushes, Adding
  <2>5. CASE LostLapped(h)
    BY <2>5, LostStays DEF Count, Own
  <2>6. CASE ~LostLapped(h)
    <3>1. Len(mounts[h]) <= Cardinality(Live(h))
      BY <2>4, <2>6 DEF Count
    <3>2. Count(h)'
      BY <1>2, <2>2, <2>3, <3>1 DEF Count
    <3>3. ASSUME NEW y \in Live(h)' \ lapped', NEW i \in DOMAIN mounts'[h]
          PROVE  mounts'[h][i].by = y
      <4>1. y = x
        BY <1>1, <1>3, <1>5, <2>1, <2>4, LiveAlone DEF Live, Pushes, AtWork
      <4>2. Live(h) = {}
        BY <1>4, <2>1, <3>3, <4>1
      <4>3. Cardinality(Live(h)) = 0
        BY <4>2, LiveCounts
      <4>4. Len(mounts[h]) = 0
        BY <1>2, <3>1, <4>3
      <4>5. QED
        BY <1>2, <2>3, <4>1, <4>4
    <3>4. QED
      BY <3>2, <3>3 DEF Own
  <2>7. QED
    BY <2>5, <2>6
<1>6. CASE run[x].pc \in {"unmount", "unwind"} /\ Pops(x)
  <2>1. x \in Live(h) /\ run[x].pc \in AtWork /\ lapped' = lapped
    BY <1>6 DEF Live, Inside, Mounted, AtWork
  <2>2. Live(h) \ {x} \subseteq Live(h)' /\ Live(h)' \subseteq Live(h)
    BY <1>1, <2>1 DEF Live
  <2>3. Cardinality(Live(h)) \in Nat /\ Cardinality(Live(h)') \in Nat
        /\ Cardinality(Live(h)) - 1 <= Cardinality(Live(h)')
    <3>1. Live(h)' \in SUBSET Runs /\ Live(h) \ {x} \in SUBSET Runs
      BY DEF Live
    <3>2. /\ Cardinality(Live(h) \ {x}) = Cardinality(Live(h)) - 1 /\ Cardinality(Live(h)) \in Nat
          /\ IsFiniteSet(Live(h)') /\ Cardinality(Live(h)') \in Nat
      BY <2>1, <3>1, LiveCounts
    <3>3. Cardinality(Live(h) \ {x}) <= Cardinality(Live(h)')
      BY <2>2, <3>2, FS_Subset
    <3>4. QED
      BY <3>2, <3>3
  <2>4. /\ Len(mounts'[h]) = IF mounts[h] = <<>> THEN 0 ELSE Len(mounts[h]) - 1
        /\ mounts[h] # <<>> => Len(mounts[h]) > 0
        /\ \A i \in DOMAIN mounts'[h] : i + 1 \in DOMAIN mounts[h] /\ mounts'[h][i] = mounts[h][i + 1]
    <3> DEFINE stack == mounts[h]
    <3>1. stack \in Seq(Mounts) /\ mounts'[h] = Unmounted(stack)
      BY <1>2, <1>6 DEF Carries
    <3> HIDE DEF stack
    <3>2. stack # <<>> => Len(stack) > 0
      BY <3>1
    <3>3. /\ Len(mounts'[h]) = IF stack = <<>> THEN 0 ELSE Len(stack) - 1
          /\ \A i \in DOMAIN mounts'[h] : i + 1 \in DOMAIN stack /\ mounts'[h][i] = stack[i + 1]
      BY <3>1, Stacks
    <3>4. QED
      BY <3>2, <3>3 DEF stack
  <2>5. CASE LostLapped(h)
    BY <2>5, LostStays DEF Count, Own
  <2>6. CASE ~LostLapped(h)
    <3>1. Len(mounts'[h]) <= Cardinality(Live(h)')
      <4>1. LeftAlone(h) => Len(mounts'[h]) = 0
        BY <2>4 DEF LeftAlone
      <4>2. Len(mounts[h]) <= Cardinality(Live(h)) => Len(mounts'[h]) <= Cardinality(Live(h)')
        BY <1>2, <2>3, <2>4
      <4>3. QED
        BY <2>3, <2>6, <4>1, <4>2 DEF Count
    <3>2. ASSUME NEW y \in Live(h)' \ lapped', NEW i \in DOMAIN mounts'[h]
          PROVE  mounts'[h][i].by = y \/ run'[mounts'[h][i].by].pc \in {"dead", "orphan"}
      <4>1. i + 1 \in DOMAIN mounts[h] /\ mounts'[h][i] = mounts[h][i + 1] /\ y \in Live(h) \ lapped
        BY <2>1, <2>2, <2>4, <3>2
      <4>2. mounts[h][i + 1].by = y \/ Gone(mounts[h][i + 1].by)
        BY <2>6, <4>1 DEF Own
      <4>3. mounts[h][i + 1].by \in Runs
        BY <1>2, <4>1, StackFacts
      <4>4. QED
        BY <4>1, <4>2, <4>3 DEF Onward, Gone
    <3>3. QED
      BY <3>1, <3>2 DEF Count, Own, Gone
  <2>7. QED
    BY <2>5, <2>6
<1>7. CASE x \in Live(h) /\ run'[x].pc \in {"dead", "orphan"} /\ x \notin lapped
  <2>1. lapped' = lapped /\ Live(h) = {x} /\ run[x].pc \in AtWork
    BY <1>3, <1>4, <1>7 DEF Live, Inside, Mounted
  <2>2. Live(h)' = {} /\ \A z \in Runs : run'[z].host = h => run'[z].pc \notin Adding
    <3>1. run'[x].pc \notin Inside \cup Adding
      BY <1>7 DEF Inside, Adding, Mounted
    <3>2. \A z \in Runs : z # x /\ run[z].host = h => run[z].pc \notin AtWork
      BY <1>7, <2>1, LiveAlone
    <3>3. QED
      BY <1>1, <1>3, <3>1, <3>2 DEF Live
  <2>3. mounts'[h] = mounts[h]
    <3>1. ~Pops(x) /\ ~Pushes(x)
      BY <1>7 DEF Turn, Pops, Pushes, Live, Inside, Mounted
    <3>2. QED
      BY <1>7, <3>1 DEF Carries, Live, Inside, Mounted
  <2>4. Gone(x)'
    BY <1>7 DEF Gone
  <2>5. QED
    BY <1>7, <2>1, <2>2, <2>3, <2>4, HostLoses
<1>8. CASE x \in Live(h) /\ run'[x].pc \in {"dead", "orphan"} /\ x \in lapped
  <2>1. LostLapped(h)'
    BY <1>1, <1>8 DEF LostLapped, Gone, Onward
  <2>2. QED
    BY <2>1 DEF Count, Own
<1>9. CASE /\ ~Pushes(x) /\ ~(run[x].pc \in {"unmount", "unwind"} /\ Pops(x))
           /\ ~(x \in Live(h) /\ run'[x].pc \in {"dead", "orphan"})
  <2>1. Live(h) \subseteq Live(h)'
    <3>1. x \in Live(h) => run'[x].pc \in Inside
      BY <1>1, <1>9 DEF Live, Turn, Pops
    <3>2. QED
      BY <1>1, <3>1 DEF Live
  <2>2. LeftAlone(h) /\ Len(mounts'[h]) # 0 =>
            \A z \in Runs : run'[z].host = h => run'[z].pc \notin Adding
    <3>1. CASE run[x].pc = "clear" /\ Pops(x)
      <4> DEFINE stack == mounts[h]
      <4>1. stack \in Seq(Mounts) /\ mounts'[h] = Unmounted(stack)
        BY <1>2, <3>1 DEF Carries
      <4>2. LeftAlone(h) => Len(stack) = 1
        BY DEF LeftAlone
      <4> HIDE DEF stack
      <4>3. Len(stack) = 1 => Len(mounts'[h]) = 0
        BY <4>1, Stacks
      <4>4. QED
        BY <4>2, <4>3
    <3>2. CASE ~(run[x].pc = "clear" /\ Pops(x))
      <4>1. run'[x].pc \in Adding => run[x].pc \in Adding
        BY <3>2 DEF Turn, Pops, Adding, Mounted
      <4>2. QED
        BY <1>1, <4>1 DEF LeftAlone
    <3>3. QED
      BY <3>1, <3>2
  <2>3. \A y \in Live(h)' \ lapped' : y \in Live(h) \/ Live(h) = {}
    BY <1>1, <1>4 DEF Live
  <2>4. Sheds(h)
    BY <1>9 DEF Carries
  <2>5. QED
    BY <2>1, <2>2, <2>3, <2>4, HostKeeps
<1>10. QED
  BY <1>5, <1>6, <1>7, <1>8, <1>9

LEMMA HostsKept ==
  ASSUME KioskClientAssumption, RestoreAssumption, Basics, TypeOK', CountInv, [Next]_vars
  PROVE  CountInv'
<1> SUFFICES ASSUME NEW h \in Hosts PROVE Count(h)' /\ Own(h)'
  BY DEF CountInv
<1>1. TypeOK /\ LapInv /\ Onward /\ Count(h) /\ Own(h) /\ run \in [Runs -> Executions]
  BY OnwardKept DEF Basics, CountInv, TypeOK
<1>2. CASE Quietly
  <2>1. \A z \in Runs : \/ run'[z].host = run[z].host /\ run'[z].pc = run[z].pc
                        \/ /\ ~(run[z].host = h /\ run[z].pc \in Inside)
                           /\ ~(run'[z].host = h /\ run'[z].pc \in Inside \cup Adding)
    BY <1>2 DEF Quietly, SameRun, Prepares, Early, Inside, Adding, Mounted
  <2>2. QED
    BY <1>1, <1>2, <2>1, HostUntouched DEF Quietly
<1>3. CASE \E x \in Runs : WorkSteps(x)
  <2>1. PICK x \in Runs : WorkSteps(x)
    BY <1>3
  <2>2. /\ Turn(x) /\ Laps(x) /\ (run[x].pc # "check" => lapped' = lapped)
        /\ Carries(x)
    BY <1>1, <2>1, WorkTurns, WorkLaps, WorkCarries
  <2>3. run[x].disk \in Disks
    BY <2>2 DEF Turn, AtWork, Mounted, Basics, RequestInv
  <2>4. CASE run[x].host = h
    BY <1>1, <2>2, <2>3, <2>4, HostWorked
  <2>5. CASE run[x].host # h
    <3>1. mounts'[h] = mounts[h]
      BY <2>2, <2>5 DEF Carries
    <3>2. \A z \in Runs : \/ run'[z].host = run[z].host /\ run'[z].pc = run[z].pc
                          \/ run[z].host # h /\ run'[z].host # h
      BY <2>2, <2>5 DEF Turn, SamePlan
    <3>3. QED
      BY <1>1, <3>1, <3>2, HostUntouched
  <2>6. QED
    BY <2>4, <2>5
<1>4. CASE BackendDies
  <2>1. /\ UNCHANGED <<mounts, lapped>>
        /\ \A z \in Runs : /\ ~Dies(z) => run'[z] = run[z]
                           /\ Dies(z) => run'[z].pc = "dead" /\ run'[z].host = run[z].host
    BY <1>1, <1>4, DeathEffect DEF SamePlan
  <2>2. CASE h # Kiosk
    BY <1>1, <2>1, <2>2, HostUntouched DEF Dies
  <2>3. CASE h = Kiosk
    <3>1. \A z \in Runs : run'[z].host = h => run'[z].pc \in {"idle", "dead"}
      BY <2>1, <2>3 DEF Dies
    <3>2. Live(h)' = {} /\ \A z \in Runs : run'[z].host = h => run'[z].pc \notin Adding
      BY <3>1 DEF Live, Inside, Adding, Mounted
    <3>3. \A y \in Live(h) : Dies(y) /\ run[y].pc \in AtWork
      BY <2>3 DEF Live, Dies, Inside, Mounted, AtWork
    <3>4. CASE Live(h) = {}
      <4>1. Sheds(h)
        BY <1>1, <2>1, StackFacts DEF TypeOK, Sheds
      <4>2. QED
        BY <1>1, <2>1, <3>2, <3>4, <4>1, HostKeeps
    <3>5. CASE \E y \in Live(h) : y \in lapped
      <4>1. LostLapped(h)'
        BY <2>1, <2>3, <3>3, <3>5 DEF LostLapped, Live, Gone
      <4>2. QED
        BY <4>1 DEF Count, Own
    <3>6. CASE \E y \in Live(h) : y \notin lapped
      <4>1. PICK y \in Live(h) : y \notin lapped
        BY <3>6
      <4>2. y \in Runs \ lapped /\ run[y].host = h /\ run[y].pc \in AtWork
        BY <3>3, <4>1 DEF Live
      <4>3. Live(h) = {y}
        BY <1>1, <3>3, <4>1, <4>2, LiveAlone DEF Live
      <4>4. Gone(y)'
        BY <2>1, <3>3, <4>1, <4>2 DEF Gone
      <4>5. QED
        BY <1>1, <2>1, <3>2, <4>2, <4>3, <4>4, HostLoses
    <3>7. QED
      BY <3>4, <3>5, <3>6
  <2>4. QED
    BY <2>2, <2>3
<1>5. QED
  BY <1>1, <1>2, <1>3, <1>4, StepKinds DEF Basics

----------------------------------------------------------------------------
(* A restore that nobody has lapped.                                       *)

PastWipe == {"format", "clear", "rmtree", "mount", "report"} \cup Mounted
Configured == {"bind", "boot", "adapt", "audit", "checkin", "unmount", "report"}
Free(d) == \A i \in DOMAIN mounts[HostOf[d]] : mounts[HostOf[d]][i].disk # d
Mine(x) == [disk |-> run[x].disk, by |-> x]

\* Its disk is mounted on top while it works in it, and else nowhere.
Hung(x) ==
    LET stack == mounts[run[x].host] IN
    /\ run[x].pc \notin Mounted => Free(run[x].disk)
    /\ run[x].pc \in Mounted => /\ stack # <<>> /\ stack[1] = Mine(x)
                                /\ \A i \in DOMAIN stack : i = 1 \/ stack[i].disk # run[x].disk
    /\ run[x].pc = "extract" => run[x].cwd = Mine(x)

\* Its disk is as far as it has come.
Fit(x) ==
    LET d == disk[run[x].disk] IN
    /\ d.by = x /\ (run[x].pc # "format" => d.table = Made(run[x].layout))
    /\ run[x].pc \in {"clear", "rmtree", "mount", "exclude", "extract"} =>
           d.root = "empty" /\ d.sub = "empty"
    /\ run[x].pc \in Configured \cup {"configure"} => d.root = run[x].arch /\ d.sub = run[x].arch
    /\ run[x].pc \in Configured => d.fstab = Expected(run[x].layout)
    /\ run[x].pc \in Configured \ {"bind", "boot"} => d.boots

AloneInv == \A x \in Runs \ lapped : run[x].pc \in PastWipe => Hung(x) /\ Fit(x)

\* No other one has a disk it has wiped.
FarInv ==
    \A x \in Runs \ lapped, y \in Runs :
        x # y /\ run[y].pc \in PastWipe \cup {"orphan"} => disk[run[y].disk].by # x

\* Once it has told SUCCESS, its disk is whole, and nobody's hands are on it.
SettledInv ==
    \A x \in Runs \ lapped : run[x].told = "SUCCESS" /\ disk[run[x].disk].by = x =>
        /\ Whole(x)
        /\ Free(run[x].disk)
        /\ \A y \in Runs : run[y].pc \in {"extract", "orphan"} => run[y].cwd.disk # run[x].disk

\* The steps that take a restore on, past its wipe.
Advances(x) ==
    LET d == run[x].disk  top == Top(run[x].host).disk
        From(a, b) == run[x].pc = a /\ run'[x].pc = b
    IN
    \/ From("wipe", "format") /\ ~Held(d, mounts[run[x].host]) /\ disk' = Raw(x)
    \/ From("format", "clear") /\ disk' = Formatted(x)
    \/ From("rmtree", "mount") /\ (top = d \/ disk'[d] = disk[d])
    \/ From("extract", "configure") /\ disk' = Extracted(x)
    \/ From("configure", "bind") /\ disk' = WithFstab(top, Expected(run[x].layout))
    \/ From("boot", "adapt") /\ \E e \in {top, d} : disk' = [disk EXCEPT ![e].boots = (e = top)]
    \/ /\ disk' = disk
       /\ \/ From("clear", "rmtree") \/ From("mount", "exclude") \/ From("exclude", "extract")
          \/ From("bind", "boot") \/ From("adapt", "audit") \/ From("audit", "checkin")
          \/ From("checkin", "unmount") \/ From("unmount", "report")

LEMMA WorkAdvances ==
  ASSUME TypeOK, NEW x \in Runs, run[x].disk \in Disks, WorkSteps(x), run'[x].pc \in PastWipe
  PROVE  Advances(x)
<1>1. run \in [Runs -> Executions] /\ disk \in [Disks -> Disked]
  BY DEF TypeOK, Disked
<1>2. \A pc : Goes(x, pc) => run'[x].pc = pc
  BY <1>1, GoesEffect
<1>3. ~Raise(x)
  BY <1>1, RaiseEffect DEF PastWipe, Mounted
<1>4. run'[x].pc \notin {"done", "dead", "orphan", "wipe", "unwind"}
  BY DEF PastWipe, Mounted
<1>5. CASE Check(x) \/ Breaks(x) \/ Fails(x) \/ Unwind(x) \/ WorkerLost(x) \/ OrphanEnds(x)
  BY <1>2, <1>3, <1>4, <1>5
  DEF Check, Breaks, Fails, ExtractFails, Unwind, WorkerLost, OrphanEnds
<1>6. CASE Report(x)
  BY <1>1, <1>4, <1>6 DEF Report, Executions
<1>7. CASE Wipe(x) \/ Format(x)
  BY <1>2, <1>3, <1>7 DEF Wipe, Format, At, Advances
<1>8. CASE RemoveTree(x)
  BY <1>1, <1>2, <1>8 DEF RemoveTree, At, Advances
<1>9. CASE Ends(x) \/ Configure(x)
  BY <1>2, <1>9 DEF Ends, ExtractEnds, Configure, At, Advances
<1>10. CASE InstallBootloader(x)
  BY <1>2, <1>3, <1>10 DEF InstallBootloader, At, Advances
<1>11. CASE Clear(x) \/ MountPartitions(x) \/ Bind(x) \/ Adapt(x)
  BY <1>2, <1>3, <1>11 DEF Clear, MountPartitions, Bind, Adapt, At, Advances
<1>12. CASE AuditFstab(x) \/ InstallCheckin(x) \/ Unmount(x)
  BY <1>2, <1>3, <1>12 DEF AuditFstab, InstallCheckin, Unmount, At, Advances
<1>13. CASE Begins(x)
  <2>1. run'[x].pc = "extract"
    BY <1>1, <1>13 DEF Begins, ExtractBegins, Executions
  <2>2. QED
    BY <1>13, <2>1 DEF Begins, ExtractBegins, At, Advances
<1>14. QED
  BY <1>5, <1>6, <1>7, <1>8, <1>9, <1>10, <1>11, <1>12, <1>13 DEF WorkSteps


LEMMA StaysHung ==
  ASSUME RestoreAssumption, TypeOK, TypeOK', NEW x \in Runs, run[x].disk \in Disks,
         run[x].host = HostOf[run[x].disk],
         Turn(x), Carries(x), Advances(x),
         run[x].pc \in PastWipe => Hung(x)
  PROVE  Hung(x)'
<1> DEFINE d == run[x].disk
           h == run[x].host
           stack == mounts[h]
           new == mounts'[h]
           e == [disk |-> d, by |-> x]
<1>1. /\ run'[x].disk = d /\ run'[x].host = h /\ h = HostOf[d] /\ h \in Hosts
      /\ stack \in Seq(Mounts) /\ new \in Seq(Mounts)
  BY DEF Turn, SamePlan, TypeOK, Executions
<1>2. /\ Len(stack) \in Nat /\ DOMAIN stack = 1 .. Len(stack)
      /\ Len(new) \in Nat /\ DOMAIN new = 1 .. Len(new)
  BY <1>1, StackFacts
<1>3. Hung(x)' <=> /\ run'[x].pc \notin Mounted => \A i \in DOMAIN new : new[i].disk # d
                   /\ run'[x].pc \in Mounted =>
                        new # <<>> /\ new[1] = e /\ \A i \in DOMAIN new : i = 1 \/ new[i].disk # d
                   /\ run'[x].pc = "extract" => run'[x].cwd = e
  <2>1. Mine(x)' = e /\ mounts'[run'[x].host] = new /\ run'[x].disk = d
    BY <1>1 DEF Mine
  <2>2. (Free(run[x].disk))' <=> \A i \in DOMAIN new : new[i].disk # d
    BY <1>1 DEF Free
  <2>3. QED
    BY <2>1, <2>2 DEF Hung
<1>4. run[x].pc \in PastWipe =>
          /\ run[x].pc \notin Mounted => \A i \in DOMAIN stack : stack[i].disk # d
          /\ run[x].pc \in Mounted =>
               stack # <<>> /\ stack[1] = e /\ \A i \in DOMAIN stack : i = 1 \/ stack[i].disk # d
  BY <1>1 DEF Hung, Free, Mine
<1> HIDE DEF d, h, stack, new, e
<1>5. ASSUME run[x].pc \in {"wipe", "format", "clear", "rmtree"},
             run'[x].pc \notin Mounted,
             \A i \in DOMAIN stack : stack[i].disk # d
      PROVE  Hung(x)'
  <2>1. \A i \in DOMAIN new : \E j \in DOMAIN stack : new[i] = stack[j]
    BY <1>5 DEF Carries, Pushes, Sheds, new, stack, h
  <2>2. QED
    BY <1>3, <1>5, <2>1 DEF Mounted
<1>6. CASE run[x].pc = "wipe" /\ run'[x].pc = "format"
  <2>1. \A i \in DOMAIN stack : stack[i].disk # d
    BY <1>6 DEF Advances, Held, stack, d, h
  <2>2. QED
    BY <1>5, <1>6, <2>1 DEF Mounted
<1>7. CASE run[x].pc \in {"format", "clear", "rmtree"} /\ run'[x].pc \in {"clear", "rmtree", "mount"}
  BY <1>4, <1>5, <1>7 DEF Mounted, PastWipe
<1>8. CASE run[x].pc = "mount" /\ run'[x].pc = "exclude"
  <2>1. /\ Len(new) = Len(stack) + 1 /\ new[1] = e
        /\ \A i \in DOMAIN new : i = 1 \/ (i - 1 \in DOMAIN stack /\ new[i] = stack[i - 1])
    BY <1>8, Pushed DEF Carries, new, stack, h, e, d
  <2>2. \A i \in DOMAIN stack : stack[i].disk # d
    BY <1>4, <1>8 DEF Mounted, PastWipe
  <2>3. new # <<>>
    BY <1>1, <1>2, <2>1
  <2>4. QED
    BY <1>3, <1>8, <2>1, <2>2, <2>3 DEF Mounted
<1>9. CASE run[x].pc = "unmount" /\ run'[x].pc = "report"
  <2>1. new = Unmounted(stack)
    BY <1>9 DEF Carries, Pops, new, stack, h
  <2>2. \A i \in DOMAIN new : i + 1 \in DOMAIN stack /\ new[i] = stack[i + 1]
    BY <1>1, <2>1, Stacks
  <2>3. \A i \in DOMAIN stack : i = 1 \/ stack[i].disk # d
    BY <1>4, <1>9 DEF Mounted, PastWipe
  <2>4. \A i \in DOMAIN new : i + 1 # 1
    BY <1>2
  <2>5. QED
    BY <1>3, <1>9, <2>2, <2>3, <2>4 DEF Mounted
<1>10. CASE run[x].pc \in Mounted \ {"unmount"} /\ run'[x].pc \in Mounted
  <2>1. new = stack
    BY <1>10 DEF Carries, Pops, Pushes, Mounted, new, stack, h
  <2>2. stack # <<>> /\ stack[1] = e /\ \A i \in DOMAIN stack : i = 1 \/ stack[i].disk # d
    BY <1>4, <1>10 DEF PastWipe
  <2>3. run'[x].pc = "extract" => run'[x].cwd = e
    <3>1. Top(h) = e
      BY <2>2 DEF Top, stack
    <3>2. QED
      BY <3>1 DEF Turn, h
  <2>4. QED
    BY <1>3, <1>10, <2>1, <2>2, <2>3
<1>11. QED
  BY <1>6, <1>7, <1>8, <1>9, <1>10 DEF Advances, Mounted

LEMMA StaysFit ==
  ASSUME RestoreAssumption, TypeOK, NEW x \in Runs, run[x].disk \in Disks,
         run[x].arch \in Archives, run[x].host = HostOf[run[x].disk],
         Turn(x), Advances(x),
         run[x].pc \in PastWipe => Hung(x) /\ Fit(x)
  PROVE  Fit(x)'
<1> DEFINE d == run[x].disk
           top == Top(run[x].host).disk
           r == disk[d]
           q == disk'[d]
<1>1. disk \in [Disks -> Disked] /\ r \in Disked
  BY DEF TypeOK, Disked
<1>2. /\ run'[x].disk = d /\ run'[x].arch = run[x].arch /\ run'[x].layout = run[x].layout
  BY DEF Turn, SamePlan
<1>3. ASSUME run[x].pc \in Mounted
      PROVE  top = d /\ Mine(x).disk = d /\ (run[x].pc = "extract" => run[x].cwd = Mine(x) /\ Attached(x))
  <2>1. /\ mounts[run[x].host] # <<>> /\ mounts[run[x].host][1] = Mine(x)
        /\ run[x].pc = "extract" => run[x].cwd = Mine(x)
    BY <1>3 DEF Hung, PastWipe
  <2>2. 1 \in DOMAIN mounts[run[x].host]
    <3> DEFINE stack == mounts[run[x].host]
    <3>1. stack \in Seq(Mounts) /\ stack # <<>>
      BY <2>1 DEF TypeOK, Executions
    <3> HIDE DEF stack
    <3>2. 1 \in DOMAIN stack
      BY <3>1
    <3>3. QED
      BY <3>2 DEF stack
  <2>3. QED
    BY <2>1, <2>2 DEF Top, Mine, Attached
<1>4. ASSUME run[x].pc = "rmtree" PROVE top # d
  <2>1. Free(d)
    BY <1>4 DEF Hung, PastWipe, Mounted
  <2>2. CASE mounts[run[x].host] = <<>>
    BY <2>2 DEF Top, Nowhere, RestoreAssumption
  <2>3. CASE mounts[run[x].host] # <<>>
    <3> DEFINE stack == mounts[run[x].host]
    <3>1. stack \in Seq(Mounts) /\ stack # <<>> /\ top = stack[1].disk
      BY <2>3 DEF TypeOK, Executions, Top
    <3>2. \A i \in DOMAIN stack : stack[i].disk # d
      BY <2>1 DEF Free
    <3> HIDE DEF stack
    <3>3. 1 \in DOMAIN stack
      BY <3>1
    <3>4. QED
      BY <3>1, <3>2, <3>3
  <2>4. QED
    BY <2>2, <2>3
<1>5. Fit(x)' <=>
        /\ q.by = x /\ (run'[x].pc # "format" => q.table = Made(run[x].layout))
        /\ run'[x].pc \in {"clear", "rmtree", "mount", "exclude", "extract"} =>
               q.root = "empty" /\ q.sub = "empty"
        /\ run'[x].pc \in Configured \cup {"configure"} => q.root = run[x].arch /\ q.sub = run[x].arch
        /\ run'[x].pc \in Configured => q.fstab = Expected(run[x].layout)
        /\ run'[x].pc \in Configured \ {"bind", "boot"} => q.boots
  BY <1>2 DEF Fit
<1>6. run[x].pc \in PastWipe =>
        /\ r.by = x /\ (run[x].pc # "format" => r.table = Made(run[x].layout))
        /\ run[x].pc \in {"clear", "rmtree", "mount", "exclude", "extract"} =>
               r.root = "empty" /\ r.sub = "empty"
        /\ run[x].pc \in Configured \cup {"configure"} => r.root = run[x].arch /\ r.sub = run[x].arch
        /\ run[x].pc \in Configured => r.fstab = Expected(run[x].layout)
        /\ run[x].pc \in Configured \ {"bind", "boot"} => r.boots
  BY DEF Fit
<1> HIDE DEF d, r, q, top
<1>7. d \in Disks /\ r = disk[d] /\ q = disk'[d]
  BY DEF d, r, q
<1>8. CASE run[x].pc = "wipe" /\ run'[x].pc = "format"
  <2>1. q = [root |-> "raw", sub |-> "raw", table |-> Named("raw", NoSerial),
             fstab |-> Named("none", NoSerial), boots |-> FALSE, by |-> x]
    BY <1>1, <1>7, <1>8 DEF Advances, Raw, d
  <2>2. QED
    BY <1>5, <1>8, <2>1 DEF Configured
<1>9. CASE run[x].pc = "format" /\ run'[x].pc = "clear"
  <2>1. q = [r EXCEPT !.root = "empty", !.sub = "empty", !.table = Made(run[x].layout)]
    BY <1>1, <1>7, <1>9 DEF Advances, Formatted, d
  <2>2. q.root = "empty" /\ q.sub = "empty" /\ q.by = r.by /\ q.table = Made(run[x].layout)
    BY <1>1, <2>1 DEF Disked
  <2>3. QED
    BY <1>5, <1>6, <1>9, <2>2 DEF Configured, PastWipe
<1>10. CASE run[x].pc = "rmtree" /\ run'[x].pc = "mount"
  <2>1. q = r
    BY <1>4, <1>7, <1>10 DEF Advances, d, top
  <2>2. QED
    BY <1>5, <1>6, <1>10, <2>1 DEF Configured, PastWipe
<1>11. CASE run[x].pc = "extract" /\ run'[x].pc = "configure"
  <2>1. run[x].cwd.disk = d /\ Attached(x) /\ d # NoDisk
    BY <1>3, <1>7, <1>11 DEF Mounted, RestoreAssumption
  <2>2. disk' = [disk EXCEPT ![d].root = Over(r.root, run[x].arch), ![d].sub = Over(r.sub, run[x].arch)]
    BY <1>1, <1>7, <1>11, <2>1 DEF Advances, Extracted
  <2>3. Over(r.root, run[x].arch) = run[x].arch /\ Over(r.sub, run[x].arch) = run[x].arch
    BY <1>6, <1>11 DEF Over, PastWipe, Mounted
  <2>4. q = [r EXCEPT !.root = run[x].arch, !.sub = run[x].arch]
    BY <1>1, <1>7, <2>2, <2>3
  <2>5. q.root = run[x].arch /\ q.sub = run[x].arch /\ q.by = r.by /\ q.table = r.table
    BY <1>1, <2>4 DEF Disked
  <2>6. QED
    BY <1>5, <1>6, <1>11, <2>5 DEF Configured, PastWipe, Mounted
<1>12. CASE run[x].pc = "configure" /\ run'[x].pc = "bind"
  <2>1. disk' = [disk EXCEPT ![d].fstab = Expected(run[x].layout)]
    BY <1>3, <1>7, <1>12 DEF Advances, WithFstab, Mounted, RestoreAssumption, top
  <2>2. q = [r EXCEPT !.fstab = Expected(run[x].layout)]
    BY <1>1, <1>7, <2>1
  <2>3. /\ q.root = r.root /\ q.sub = r.sub /\ q.by = r.by /\ q.table = r.table
        /\ q.fstab = Expected(run[x].layout)
    BY <1>1, <2>2 DEF Disked
  <2>4. QED
    BY <1>5, <1>6, <1>12, <2>3 DEF Configured, PastWipe, Mounted
<1>13. CASE run[x].pc = "boot" /\ run'[x].pc = "adapt"
  <2>1. disk' = [disk EXCEPT ![d].boots = TRUE]
    BY <1>3, <1>7, <1>13 DEF Advances, Mounted, top, d
  <2>2. q = [r EXCEPT !.boots = TRUE]
    BY <1>1, <1>7, <2>1
  <2>3. /\ q.root = r.root /\ q.sub = r.sub /\ q.by = r.by /\ q.table = r.table
        /\ q.fstab = r.fstab /\ q.boots
    BY <1>1, <2>2 DEF Disked
  <2>4. QED
    BY <1>5, <1>6, <1>13, <2>3 DEF Configured, PastWipe, Mounted
<1>14. CASE disk' = disk
  <2>1. q = r
    BY <1>7, <1>14
  <2>2. CASE run[x].pc \in {"clear", "mount", "exclude"}
    BY <1>5, <1>6, <1>14, <2>1, <2>2 DEF Advances, Configured, PastWipe, Mounted
  <2>3. CASE run[x].pc \in {"bind", "adapt", "audit", "checkin", "unmount"}
    BY <1>5, <1>6, <1>14, <2>1, <2>3 DEF Advances, Configured, PastWipe, Mounted
  <2>4. QED
    BY <1>8, <1>9, <1>10, <1>11, <1>12, <1>13, <2>2, <2>3 DEF Advances
<1>15. QED
  BY <1>8, <1>9, <1>10, <1>11, <1>12, <1>13, <1>14 DEF Advances

\* A step of a restore writes to the disks of its own host alone.
LEMMA TopIsOwn ==
  ASSUME TypeOK, PlaceInv, NEW h \in Hosts, NEW d \in Disks, RestoreAssumption, Top(h).disk = d
  PROVE  /\ HostOf[d] = h /\ ~Free(d)
<1> DEFINE stack == mounts[h]
<1>1. stack # <<>> /\ d = stack[1].disk
  BY DEF Top, Nowhere, RestoreAssumption
<1>2. stack \in Seq(Mounts)
  BY DEF TypeOK
<1>3. \A i \in DOMAIN stack : HostOf[stack[i].disk] = h
  BY DEF PlaceInv
<1>4. Free(d) /\ HostOf[d] = h => \A i \in DOMAIN stack : stack[i].disk # d
  BY DEF Free
<1> HIDE DEF stack
<1>5. 1 \in DOMAIN stack
  BY <1>1, <1>2
<1>6. QED
  BY <1>1, <1>3, <1>4, <1>5

LEMMA HandsOnOwnHost ==
  ASSUME RestoreAssumption, TypeOK, PlaceInv, NEW y \in Runs, run[y].host \in Hosts,
         run[y].host = HostOf[run[y].disk], Writes(y), NEW d \in Disks, HostOf[d] # run[y].host
  PROVE  disk'[d] = disk[d]
<1>1. Top(run[y].host).disk # d
  BY TopIsOwn
<1>2. run[y].pc = "extract" => run[y].cwd.disk # d
  BY DEF PlaceInv, RestoreAssumption
<1>3. QED
  BY <1>1, <1>2 DEF Writes

LEMMA AloneKept ==
  ASSUME KioskClientAssumption, RestoreAssumption, Basics, Basics', AloneInv, [Next]_vars
  PROVE  AloneInv'
<1> SUFFICES ASSUME NEW x \in Runs \ lapped', run'[x].pc \in PastWipe PROVE Hung(x)' /\ Fit(x)'
  BY DEF AloneInv
<1>1. /\ TypeOK /\ TypeOK' /\ RequestInv /\ PlaceInv /\ LapInv /\ Onward
      /\ run \in [Runs -> Executions] /\ disk \in [Disks -> Disked]
  BY OnwardKept DEF Basics, TypeOK, Disked
<1>2. x \notin lapped /\ (run[x].pc \in PastWipe => Hung(x) /\ Fit(x))
  BY <1>1 DEF AloneInv, Onward
<1>3. PastWipe \subseteq AtWork
  BY DEF PastWipe, AtWork
\* A step that disturbs neither the run, nor its host's mounts, nor its disk.
<1>4. ASSUME run[x].pc \in PastWipe, SameRun(x), mounts'[run[x].host] = mounts[run[x].host],
             disk'[run[x].disk] = disk[run[x].disk]
      PROVE  Hung(x)' /\ Fit(x)'
  <2>1. HostOf[run[x].disk] = run[x].host
    BY <1>1, <1>4 DEF RequestInv, PastWipe, Mounted
  <2>2. Hung(x)'
    <3>1. Mine(x)' = Mine(x) /\ run'[x].pc = run[x].pc /\ run'[x].cwd = run[x].cwd
      BY <1>4 DEF Mine, SameRun
    <3>2. (Free(run[x].disk))' <=> Free(run[x].disk)
      BY <1>4, <2>1 DEF Free, SameRun
    <3>3. mounts'[run'[x].host] = mounts[run[x].host] /\ run'[x].disk = run[x].disk
      BY <1>4 DEF SameRun
    <3>4. QED
      BY <1>2, <1>4, <3>1, <3>2, <3>3 DEF Hung
  <2>3. Fit(x)'
    BY <1>2, <1>4 DEF Fit, SameRun
  <2>4. QED
    BY <2>2, <2>3
<1>5. CASE Quietly
  <2>1. SameRun(x) /\ run[x].pc \in PastWipe
    BY <1>5 DEF Quietly, Prepares, Early, PastWipe, Mounted, SameRun
  <2>2. QED
    BY <1>4, <1>5, <2>1 DEF Quietly
<1>6. CASE \E y \in Runs : WorkSteps(y)
  <2>1. PICK y \in Runs : WorkSteps(y)
    BY <1>6
  <2>2. /\ Turn(y) /\ Laps(y) /\ (run[y].pc # "check" => lapped' = lapped)
        /\ Carries(y) /\ Writes(y)
    BY <1>1, <2>1, WorkTurns, WorkLaps, WorkCarries, WorkWrites
  <2>3. /\ run[y].disk \in Disks /\ run[y].arch \in Archives /\ run[y].host = HostOf[run[y].disk]
        /\ run[y].host \in Hosts
    BY <1>1, <2>2 DEF Turn, AtWork, Mounted, RequestInv, Executions
  <2>4. CASE y = x
    <3>1. Advances(x)
      BY <1>1, <2>1, <2>3, <2>4, WorkAdvances
    <3>2. Hung(x)'
      BY <1>1, <1>2, <2>2, <2>3, <2>4, <3>1, StaysHung
    <3>3. Fit(x)'
      BY <1>1, <1>2, <2>2, <2>3, <2>4, <3>1, StaysFit
    <3>4. QED
      BY <3>2, <3>3
  <2>5. CASE y # x
    <3>1. run'[x] = run[x] /\ run[x].pc \in PastWipe
      BY <2>2, <2>5 DEF Turn
    <3>2. run[y].host # run[x].host
      <4>1. CASE run[y].pc = "check"
        BY <1>3, <2>2, <3>1, <4>1 DEF Laps, Working
      <4>2. CASE run[y].pc \in AtWork
        BY <1>1, <1>2, <1>3, <2>5, <3>1, <4>2, LiveAlone
      <4>3. QED
        BY <2>2, <4>1, <4>2 DEF Turn
    <3>3. run[x].host \in Hosts /\ run[x].disk \in Disks /\ HostOf[run[x].disk] = run[x].host
      BY <1>1, <3>1 DEF RequestInv, PastWipe, Mounted, Executions
    <3>4. mounts'[run[x].host] = mounts[run[x].host]
      BY <2>2, <3>2, <3>3 DEF Carries
    <3>5. disk'[run[x].disk] = disk[run[x].disk]
      BY <1>1, <2>2, <2>3, <3>2, <3>3, HandsOnOwnHost
    <3>6. QED
      BY <1>4, <3>1, <3>4, <3>5 DEF SameRun
  <2>6. QED
    BY <2>4, <2>5
<1>7. CASE BackendDies
  <2>1. /\ UNCHANGED <<mounts, lapped>>
        /\ \A z \in Runs : /\ ~Dies(z) => run'[z] = run[z]
                           /\ Dies(z) => run'[z].pc = "dead"
        /\ \A d \in Disks : \/ disk'[d] = disk[d]
                            \/ \E z \in Runs : /\ run[z].host = Kiosk /\ run[z].pc = "extract"
                                               /\ run[z].cwd.disk = d
    BY <1>1, <1>7, DeathEffect
  <2>2. run'[x] = run[x] /\ run[x].pc \in PastWipe /\ run[x].host # Kiosk
    BY <2>1 DEF Dies, PastWipe, Mounted
  <2>3. run[x].disk \in Disks /\ HostOf[run[x].disk] = run[x].host
    BY <1>1, <2>2 DEF RequestInv, PastWipe, Mounted
  <2>4. disk'[run[x].disk] = disk[run[x].disk]
    BY <1>1, <2>1, <2>2, <2>3 DEF PlaceInv, RestoreAssumption
  <2>5. QED
    BY <1>4, <2>1, <2>2, <2>4 DEF SameRun
<1>8. QED
  BY <1>1, <1>5, <1>6, <1>7, StepKinds DEF Basics

LEMMA FarKept ==
  ASSUME KioskClientAssumption, RestoreAssumption, Basics, FarInv, [Next]_vars
  PROVE  FarInv'
<1> SUFFICES ASSUME NEW x \in Runs \ lapped', NEW y \in Runs, x # y,
                    run'[y].pc \in PastWipe \cup {"orphan"}
             PROVE  disk'[run'[y].disk].by # x
  BY DEF FarInv
<1>1. /\ TypeOK /\ RequestInv /\ LapInv /\ Onward
      /\ run \in [Runs -> Executions] /\ disk \in [Disks -> Disked]
  BY OnwardKept DEF Basics, TypeOK, Disked
<1>2. run[y].pc \in PastWipe \cup {"orphan"} =>
         /\ disk[run[y].disk].by # x
         /\ run[y].disk \in Disks /\ run[y].host = HostOf[run[y].disk] /\ run[y].pc \in AtWork
  BY <1>1 DEF FarInv, Onward, RequestInv, PastWipe, AtWork, Mounted
<1>3. CASE Quietly
  <2>1. SameRun(y)
    BY <1>3 DEF Quietly, Prepares, Early, PastWipe, Mounted
  <2>2. QED
    BY <1>2, <1>3, <2>1 DEF Quietly, SameRun
<1>4. CASE \E z \in Runs : WorkSteps(z)
  <2>1. PICK z \in Runs : WorkSteps(z)
    BY <1>4
  <2>2. Turn(z) /\ Writes(z) /\ (run[z].pc # "check" => lapped' = lapped)
    BY <1>1, <2>1, WorkTurns, WorkWrites, WorkLaps
  <2>3. /\ run[z].disk \in Disks /\ run[z].host = HostOf[run[z].disk]
    BY <1>1, <2>2 DEF Turn, AtWork, Mounted, RequestInv
  <2>4. run'[y].disk = run[y].disk
    BY <2>2 DEF Turn, SamePlan
  <2>5. CASE run[y].pc \in PastWipe \cup {"orphan"}
    <3>1. CASE disk'[run[y].disk].by = disk[run[y].disk].by
      BY <1>2, <2>4, <2>5, <3>1
    <3>2. CASE run[z].pc = "wipe" /\ run[y].disk = run[z].disk /\ disk'[run[y].disk].by = z
      <4>1. z # x
        <5>1. run[z].pc \in AtWork /\ run[z].host = run[y].host
          BY <1>2, <2>3, <2>5, <3>2 DEF AtWork
        <5>2. z \in Runs \ lapped' => z = y \/ lapped' # lapped
          BY <1>1, <1>2, <2>5, <5>1 DEF LapInv
        <5>3. QED
          BY <2>2, <3>2, <5>2
      <4>2. QED
        BY <2>4, <3>2, <4>1
    <3>3. QED
      BY <1>2, <2>2, <2>5, <3>1, <3>2 DEF Writes
  <2>6. CASE run[y].pc \notin PastWipe \cup {"orphan"}
    <3>1. y = z /\ run'[y].pc \in PastWipe
      BY <2>2, <2>6 DEF Turn, PastWipe, Mounted
    <3>2. Advances(y)
      BY <1>1, <2>1, <2>3, <3>1, WorkAdvances
    <3>3. disk' = Raw(y)
      BY <2>6, <3>2 DEF Advances, PastWipe, Mounted
    <3>4. disk'[run[y].disk].by = y
      BY <1>1, <2>3, <3>1, <3>3 DEF Raw
    <3>5. QED
      BY <2>4, <3>4
  <2>7. QED
    BY <2>5, <2>6
<1>5. CASE BackendDies
  <2>1. /\ \A v \in Runs : /\ ~Dies(v) => run'[v] = run[v]
                           /\ Dies(v) => run'[v].pc = "dead"
        /\ \A d \in Disks : disk'[d] = disk[d] \/ disk'[d].by = disk[d].by
    BY <1>1, <1>5, DeathEffect
  <2>2. run'[y] = run[y] /\ run[y].pc \in PastWipe \cup {"orphan"}
    BY <2>1 DEF PastWipe, Mounted
  <2>3. disk'[run[y].disk].by = disk[run[y].disk].by
    BY <1>2, <2>1, <2>2
  <2>4. QED
    BY <1>2, <2>2, <2>3
<1>6. QED
  BY <1>3, <1>4, <1>5, StepKinds DEF Basics

LEMMA SettledKept ==
  ASSUME KioskClientAssumption, RestoreAssumption, Basics, Basics', AloneInv, FarInv, SettledInv,
         [Next]_vars
  PROVE  SettledInv'
<1> SUFFICES ASSUME NEW x \in Runs \ lapped', run'[x].told = "SUCCESS", disk'[run'[x].disk].by = x
             PROVE  /\ Whole(x)' /\ Free(run[x].disk)' /\ run'[x].disk = run[x].disk
                    /\ \A y \in Runs : run'[y].pc \in {"extract", "orphan"} =>
                                           run'[y].cwd.disk # run[x].disk
  <2>1. SUFFICES ASSUME NEW x \in Runs \ lapped', run'[x].told = "SUCCESS",
                        disk'[run'[x].disk].by = x
                 PROVE  /\ Whole(x)' /\ (Free(run[x].disk))'
                        /\ \A y \in Runs : run'[y].pc \in {"extract", "orphan"} =>
                                               run'[y].cwd.disk # run'[x].disk
    BY DEF SettledInv
  <2>2. QED
    BY <2>1
<1> DEFINE d == run[x].disk
<1>1. /\ TypeOK /\ RequestInv /\ ToldInv /\ ToldInv' /\ PlaceInv /\ LapInv /\ Onward
      /\ run \in [Runs -> Executions] /\ disk \in [Disks -> Disked]
      /\ mounts \in [Hosts -> Seq(Mounts)]
  BY OnwardKept DEF Basics, TypeOK, Disked
<1>2. x \in Runs \ lapped
  BY <1>1 DEF Onward
<1>3. run[x].told = "SUCCESS" => /\ run[x].pc = "done"
                                 /\ d \in Disks /\ run[x].host = HostOf[d]
  BY <1>1 DEF ToldInv, RequestInv
<1>4. run[x].told = "SUCCESS" /\ disk[d].by = x =>
         /\ Whole(x) /\ Free(d)
         /\ \A y \in Runs : run[y].pc \in {"extract", "orphan"} => run[y].cwd.disk # d
  BY <1>2 DEF SettledInv
<1>5. ASSUME run'[x].disk = d, run'[x].arch = run[x].arch, run'[x].layout = run[x].layout,
             disk'[d] = disk[d], Whole(x)
      PROVE  Whole(x)'
  BY <1>5 DEF Whole
<1>6. CASE Quietly
  <2>1. SameRun(x)
    BY <1>6 DEF Quietly, Prepares
  <2>2. \A y \in Runs : run'[y].pc \in {"extract", "orphan"} => SameRun(y)
    BY <1>6 DEF Quietly, Prepares, Early
  <2>3. UNCHANGED <<disk, mounts>>
    BY <1>6 DEF Quietly
  <2>4. /\ run'[x].disk = d /\ run'[x].arch = run[x].arch /\ run'[x].layout = run[x].layout
        /\ run[x].told = "SUCCESS" /\ disk[d].by = x
    BY <2>1, <2>3 DEF SameRun
  <2>5. Whole(x)' /\ Free(d)'
    BY <1>4, <1>5, <2>3, <2>4 DEF Free
  <2>6. \A y \in Runs : run'[y].pc \in {"extract", "orphan"} => run'[y].cwd.disk # d
    BY <1>4, <2>2, <2>4 DEF SameRun
  <2>7. QED
    BY <2>4, <2>5, <2>6
<1>7. CASE \E z \in Runs : WorkSteps(z)
  <2>1. PICK z \in Runs : WorkSteps(z)
    BY <1>7
  <2>2. /\ Turn(z) /\ Carries(z) /\ Writes(z) /\ (run[z].pc # "check" => lapped' = lapped)
    BY <1>1, <2>1, WorkTurns, WorkCarries, WorkWrites, WorkLaps
  <2>3. /\ run[z].disk \in Disks /\ run[z].host = HostOf[run[z].disk] /\ run[z].host \in Hosts
    BY <1>1, <2>2 DEF Turn, AtWork, Mounted, RequestInv, Executions
  <2>4. /\ run'[x].disk = d /\ run'[x].arch = run[x].arch /\ run'[x].host = run[x].host
        /\ run'[x].layout = run[x].layout
    BY <2>2 DEF Turn, SamePlan
  \* It has just reported.
  <2>5. CASE run[x].told # "SUCCESS"
    <3>1. z = x /\ run[x].pc = "report" /\ run'[x].pc = "done"
      BY <2>2, <2>5 DEF Turn
    <3>2. Hung(x) /\ Fit(x)
      BY <1>2, <3>1 DEF AloneInv, PastWipe
    <3>3. disk'[d] = disk[d] /\ mounts'[run[x].host] = mounts[run[x].host]
      BY <2>2, <2>3, <3>1 DEF Writes, Carries, Pops, Pushes
    <3>4. Whole(x)
      <4>1. Agreed(run[x].layout) => Expected(run[x].layout) = Made(run[x].layout)
        BY DEF Agreed, Expected, Made
      <4>2. Expected(run[x].layout).list = Made(run[x].layout).list
        BY DEF Expected, Made, Named
      <4>3. QED
        BY <3>1, <3>2, <4>1, <4>2 DEF Fit, Whole, Configured
    <3>5. Free(d)'
      BY <2>3, <2>4, <3>1, <3>2, <3>3 DEF Hung, Free, Mounted
    <3>6. ASSUME NEW y \in Runs, run'[y].pc \in {"extract", "orphan"}, run'[y].cwd.disk = d
          PROVE  FALSE
      <4>1. y # x /\ run'[y] = run[y]
        BY <2>2, <3>1, <3>6 DEF Turn
      <4>2. run[y].host = HostOf[d]
        BY <1>1, <2>3, <3>1, <3>6, <4>1 DEF PlaceInv, RestoreAssumption
      <4>3. run[y].pc \in AtWork /\ run[x].pc \in AtWork /\ run[y].host = run[x].host
        BY <2>3, <3>1, <3>6, <4>1, <4>2 DEF AtWork, Mounted
      <4>4. QED
        BY <1>1, <1>2, <4>1, <4>3 DEF LapInv
    <3>7. QED
      BY <1>5, <2>4, <3>3, <3>4, <3>5, <3>6
  \* It has reported before, and another one is at work.
  <2>6. CASE run[x].told = "SUCCESS"
    <3>1. z # x /\ run[x].pc = "done" /\ d \in Disks /\ run[x].host = HostOf[d]
      BY <1>3, <2>2, <2>6 DEF Turn, AtWork, Mounted
    <3>2. disk[d].by = x
      BY <2>2, <2>4, <3>1 DEF Writes
    <3>3. /\ Whole(x) /\ Free(d)
          /\ \A y \in Runs : run[y].pc \in {"extract", "orphan"} => run[y].cwd.disk # d
      BY <1>4, <2>6, <3>2
    <3>4. run[z].pc \in PastWipe => run[z].disk # d
      BY <1>2, <3>1, <3>2 DEF FarInv
    <3>5. Top(run[z].host).disk # d
      BY <1>1, <2>3, <3>1, <3>3, TopIsOwn
    <3>6. disk'[d] = disk[d]
      BY <2>2, <2>4, <3>1, <3>3, <3>4, <3>5 DEF Writes, PastWipe, Mounted
    <3>7. ASSUME NEW g \in Hosts, \A i \in DOMAIN mounts[g] : mounts[g][i].disk # d
          PROVE  \A i \in DOMAIN mounts'[g] : mounts'[g][i].disk # d
      <4>1. CASE ~(g = run[z].host /\ Pushes(z))
        BY <2>2, <3>7, <4>1 DEF Carries, Sheds
      <4>2. CASE g = run[z].host /\ Pushes(z)
        <5>1. run[z].disk # d
          BY <3>4, <4>2 DEF Pushes, PastWipe
        <5>2. /\ mounts'[g][1] = [disk |-> run[z].disk, by |-> z]
              /\ \A i \in DOMAIN mounts'[g] :
                     i = 1 \/ (i - 1 \in DOMAIN mounts[g] /\ mounts'[g][i] = mounts[g][i - 1])
          BY <1>1, <2>2, <2>3, <4>2, Pushed
        <5>3. mounts'[g][1].disk = run[z].disk
          BY <5>2
        <5>4. QED
          BY <3>7, <5>1, <5>2, <5>3
      <4>3. QED
        BY <4>1, <4>2
    <3>8. Free(d)'
      <4>1. HostOf[d] \in Hosts /\ \A i \in DOMAIN mounts[HostOf[d]] : mounts[HostOf[d]][i].disk # d
        BY <3>1, <3>3 DEF Free, Hosts, RestoreAssumption
      <4>2. QED
        BY <2>4, <3>7, <4>1 DEF Free
    <3>9. ASSUME NEW y \in Runs, run'[y].pc \in {"extract", "orphan"}
          PROVE  run'[y].cwd.disk # d
      <4>1. CASE y # z
        BY <2>2, <3>3, <3>9, <4>1 DEF Turn
      <4>2. CASE y = z
        BY <2>2, <3>3, <3>5, <3>9, <4>2 DEF Turn
      <4>3. QED
        BY <4>1, <4>2
    <3>10. QED
      BY <1>5, <2>4, <3>3, <3>6, <3>8, <3>9
  <2>7. QED
    BY <2>5, <2>6
<1>8. CASE BackendDies
  <2>1. /\ UNCHANGED <<mounts, lapped>>
        /\ \A z \in Runs : /\ ~Dies(z) => run'[z] = run[z]
                           /\ Dies(z) => run'[z].pc = "dead" /\ run'[z].told = "NONE"
        /\ \A e \in Disks : \/ disk'[e] = disk[e]
                            \/ /\ disk'[e].by = disk[e].by
                               /\ \E z \in Runs : /\ run[z].host = Kiosk /\ run[z].pc = "extract"
                                                  /\ run[z].cwd.disk = e
    BY <1>1, <1>8, DeathEffect
  <2>2. run'[x] = run[x] /\ d \in Disks
    BY <1>3, <2>1
  <2>3. disk[d].by = x
    BY <2>1, <2>2
  <2>4. /\ Whole(x) /\ Free(d)
        /\ \A y \in Runs : run[y].pc \in {"extract", "orphan"} => run[y].cwd.disk # d
    BY <1>4, <2>2, <2>3
  <2>5. disk'[d] = disk[d]
    BY <2>1, <2>2, <2>4
  <2>6. \A y \in Runs : run'[y].pc \in {"extract", "orphan"} => run'[y] = run[y]
    BY <2>1
  <2>7. QED
    BY <1>5, <2>1, <2>2, <2>4, <2>5, <2>6 DEF Free
<1>9. QED
  BY <1>6, <1>7, <1>8, StepKinds DEF Basics

----------------------------------------------------------------------------
(* The theorems.                                                           *)

IInv ==
    /\ Basics
    /\ CountInv /\ AloneInv /\ FarInv /\ SettledInv

LEMMA Starts ==
  ASSUME KioskClientAssumption, RestoreAssumption, ClientInit
  PROVE  IInv
<1> USE DEF ClientInit, Init
<1>1. /\ run = [x \in Runs |-> Idle] /\ mounts = [h \in Hosts |-> <<>>] /\ lapped = {}
      /\ \A x \in Runs : /\ run[x].pc = "idle" /\ run[x].told = "NONE"
      /\ \A s \in Syncs : sync[s].pc = "idle" /\ sync[s].told = "NONE"
  BY DEF Idle
<1>2. TypeOK
  <2>1. Idle \in Executions
    BY IdleType
  <2>2. run \in [Runs -> Executions]
    BY <1>1, <2>1
  <2>3. disk \in [Disks -> Disked] /\ mounts \in [Hosts -> Seq(Mounts)]
    BY PlanTypes DEF Disked, Content
  <2>4. cache \in [Archives -> Caches]
    BY DEF Caches, NoCache
  <2>5. sync \in [Syncs -> Copies]
    BY DEF Copies, Words, Layouts
  <2>6. kept \subseteq Archives /\ link \in BOOLEAN /\ crossed \subseteq Syncs /\ lapped \subseteq Runs
    OBVIOUS
  <2>7. faults \in 0 .. MaxFaults /\ requests \in 0 .. MaxRequests
    BY RestoreAssumption, KioskClientAssumption
  <2>8. QED
    BY <2>2, <2>3, <2>4, <2>5, <2>6, <2>7 DEF TypeOK, Disked, Caches
<1>3. RequestInv /\ ToldInv /\ PlaceInv /\ LapInv
  BY <1>1 DEF RequestInv, ToldInv, PlaceInv, LapInv, AtWork, Mounted
<1>5. CountInv
  <2>1. \A h \in Hosts : Live(h) = {} /\ mounts[h] = <<>>
    BY <1>1 DEF Live, Inside, Mounted
  <2>2. QED
    BY <2>1, LiveCounts DEF CountInv, Count, Own
<1>6. AloneInv /\ FarInv /\ SettledInv
  BY <1>1 DEF AloneInv, FarInv, SettledInv, PastWipe, Mounted
<1>7. QED
  BY <1>2, <1>3, <1>5, <1>6 DEF IInv, Basics

LEMMA Kept ==
  ASSUME KioskClientAssumption, RestoreAssumption, IInv, [Next]_vars
  PROVE  IInv'
<1>1. Basics'
  BY BasicsKept DEF IInv
<1>2. CountInv'
  BY <1>1, HostsKept DEF IInv, Basics
<1>3. AloneInv' /\ FarInv' /\ SettledInv'
  BY <1>1, AloneKept, FarKept, SettledKept DEF IInv
<1>4. QED
  BY <1>1, <1>2, <1>3 DEF IInv

\* The invariant of the restores and the copies, on both hosts.
THEOREM Inductive == Spec => []IInv
<1>1. ClientInit => IInv
  BY Starts, KioskClientAssumption, RestoreAssumption
<1>2. IInv /\ [Next]_vars => IInv'
  BY Kept, KioskClientAssumption, RestoreAssumption
<1>3. QED
  BY <1>1, <1>2, PTL DEF Spec

\* Everything keeps its type.
THEOREM TypeCorrect == Spec => []TypeOK
<1>1. IInv => TypeOK
  BY DEF IInv, Basics
<1>2. QED
  BY <1>1, Inductive, PTL

\* What is mounted on a host has a run that will take it down, or is what a
\* lost one left.
THEOREM NothingStays == Spec => []NothingLeftMounted
<1>1. ASSUME IInv, NEW h \in Hosts, mounts[h] # <<>>
      PROVE  \/ \E x \in Runs : run[x].host = h /\ run[x].pc \in Inside
             \/ \E i \in DOMAIN mounts[h] : Gone(mounts[h][i].by)
             \/ LostLapped(h)
  <2>1. Count(h)
    BY <1>1 DEF IInv, CountInv
  <2> DEFINE stack == mounts[h]
  <2>2. stack \in Seq(Mounts) /\ stack # <<>>
    BY <1>1 DEF IInv, Basics, TypeOK
  <2> HIDE DEF stack
  <2>3. Len(stack) \in Nat /\ Len(stack) > 0 /\ 1 \in DOMAIN stack
    BY <2>2
  <2>4. CASE LeftAlone(h)
    BY <2>3, <2>4 DEF LeftAlone, stack
  <2>5. CASE Len(stack) <= Cardinality(Live(h))
    <3>1. Live(h) # {}
      BY <2>3, <2>5, LiveCounts, RestoreAssumption
    <3>2. QED
      BY <3>1 DEF Live
  <2>6. QED
    BY <2>1, <2>4, <2>5 DEF Count, stack
<1>2. IInv => NothingLeftMounted
  BY <1>1 DEF NothingLeftMounted, Inside, Gone, LostLapped
<1>3. QED
  BY <1>2, Inductive, PTL

\* A restore that nobody lapped and that tells SUCCESS has left a disk that boots
\* what was asked for, named as its fstab says where its plan has one name for it.
THEOREM SuccessTrue == Spec => []RestoredIsWhole
<1>1. IInv => RestoredIsWhole
  BY DEF IInv, SettledInv, RestoredIsWhole
<1>2. QED
  BY <1>1, Inductive, PTL

=============================================================================
