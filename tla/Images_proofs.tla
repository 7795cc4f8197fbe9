---------------------------- MODULE Images_proofs ----------------------------
(***************************************************************************)
(* The stored hash is honest: for every number of builds, kiosks, edits    *)
(* and faults.                                                             *)
(*                                                                         *)
(* A build reads the hash before it copies anything (HashInv).  While      *)
(* builds do not overlap one is at work at most (AloneInv), so what was    *)
(* stored earlier is no newer than what it has read and what it has packed *)
(* is still on disk when it stores its hash (ShipInv).                     *)
(***************************************************************************)
EXTENDS Images, TLAPS

Contents == Versions \cup {NoImage, Torn}

Phases == {"free", "queued", "base", "stage", "pack", "store", "flag", "failing"}

TypeOK ==
    /\ sources \in Versions
    /\ template \in Contents
    /\ stored \in Versions \cup {NoImage}
    /\ build \in [Builds -> Phases]
    /\ hash \in [Builds -> Versions]
    /\ content \in [Builds -> Versions]
    /\ overlapped \in BOOLEAN

\* Nothing is newer than the sources, and what a build has staged is no older
\* than the hash it has read.
HashInv ==
    /\ stored \in Versions => stored <= sources
    /\ \A b \in Builds :
        /\ hash[b] <= sources
        /\ build[b] = "pack" => hash[b] <= content[b]

AloneInv == \A b \in AtWork, c \in AtWork : b = c

\* What is stored was read before the build under way began; what that build
\* has packed is what it is about to store the hash of.
ShipInv ==
    /\ \A b \in Builds :
        /\ build[b] \in {"base", "stage", "pack"} /\ stored \in Versions =>
               stored <= hash[b]
        /\ build[b] = "store" /\ template \in Versions => hash[b] <= template
    /\ template \in Versions /\ stored \in Versions => stored <= template

----------------------------------------------------------------------------
\* Steps that leave alone what the invariant speaks of, but for queueing builds
\* that were free, new sources and a template that is removed.
Queues(b) == build'[b] = build[b] \/ (build[b] = "free" /\ build'[b] = "queued")

Quiet ==
    /\ build' \in [Builds -> Phases]
    /\ \A b \in Builds : Queues(b)
    /\ sources' \in Versions /\ sources <= sources'
    /\ template' \in {template, NoImage}
    /\ UNCHANGED <<stored, hash, content, overlapped>>

LEMMA DispatchQueues ==
  ASSUME TypeOK, NEW what, NEW rows, Dispatch(what, rows)
  PROVE  /\ build' \in [Builds -> Phases]
         /\ \A b \in Builds : Queues(b)
  BY DEF TypeOK, Dispatch, Queues, Phases

LEMMA RebuildQueues ==
  ASSUME TypeOK, NEW rows, TriggerRebuild(rows)
  PROVE  /\ build' \in [Builds -> Phases]
         /\ \A b \in Builds : Queues(b)
<1>1. CASE \E what, next : Dispatch(what, next)
  BY <1>1, DispatchQueues
<1>2. CASE UNCHANGED build
  BY <1>2 DEF TypeOK, Queues
<1>3. QED
  BY <1>1, <1>2 DEF TriggerRebuild

LEMMA CheckQueues ==
  ASSUME TypeOK, NEW rows, CheckTemplate(rows)
  PROVE  /\ UNCHANGED <<template, stored>>
         /\ build' \in [Builds -> Phases]
         /\ \A b \in Builds : Queues(b)
<1>1. CASE TriggerRebuild(rows) /\ UNCHANGED <<template, stored, failed>>
  BY <1>1, RebuildQueues
<1>2. CASE UNCHANGED <<template, stored, build>>
  BY <1>2 DEF TypeOK, Queues
<1>3. QED
  BY <1>1, <1>2 DEF CheckTemplate, templateVars

\* Operators, kiosks, downloads, checks, edits and the clock are quiet.
LEMMA OthersQuiet ==
  ASSUME TypeOK,
         \/ TemplateCheck \/ GenerateIso \/ Edit
         \/ RequestDownload \/ UploadBase \/ ClearBase \/ DownloadStep
         \/ \E b \in Builds : RowAges(b)
         \/ \E k \in Kiosks : IssueKiosk(k) \/ UpdateIp(k) \/ RecreateKiosk(k) \/ Repack(k)
         \/ Restart \/ UNCHANGED vars
  PROVE  Quiet
<1> USE ImagesAssumption DEF Quiet, baseVars, templateVars, buildVars, kioskVars, Versions, Queues
<1>1. CASE TemplateCheck
  BY <1>1, CheckQueues DEF TemplateCheck, TypeOK
<1>2. CASE GenerateIso
  BY <1>2, DispatchQueues DEF GenerateIso, TypeOK
<1>3. CASE Edit
  BY <1>3 DEF Edit, TypeOK
<1>4. CASE RequestDownload \/ UploadBase \/ ClearBase
  BY <1>4 DEF RequestDownload, UploadBase, ClearBase, TypeOK
<1>5. CASE DownloadStep
  <2>1. CASE DownloadSucceeds
    BY <2>1, RebuildQueues DEF DownloadSucceeds, TypeOK
  <2>2. CASE DownloadBegins \/ DownloadFails
    BY <2>2 DEF DownloadBegins, DownloadFails, TypeOK
  <2>3. QED
    BY <1>5, <2>1, <2>2 DEF DownloadStep
<1>6. ASSUME NEW b \in Builds, RowAges(b) PROVE Quiet
  BY <1>6 DEF RowAges, TypeOK
<1>7. ASSUME NEW k \in Kiosks, IssueKiosk(k) \/ UpdateIp(k) PROVE Quiet
  BY <1>7 DEF IssueKiosk, UpdateIp, TypeOK
<1>8. ASSUME NEW k \in Kiosks, RecreateKiosk(k) PROVE Quiet
  <2>1. CASE \E rows : TriggerRebuild(rows)
    BY <1>8, <2>1, RebuildQueues DEF RecreateKiosk, TypeOK
  <2>2. CASE UNCHANGED build
    BY <1>8, <2>2 DEF RecreateKiosk, TypeOK
  <2>3. QED
    BY <1>8, <2>1, <2>2 DEF RecreateKiosk
<1>9. ASSUME NEW k \in Kiosks, Repack(k) PROVE Quiet
  <2>1. CASE TriggerRebuild(row)
    BY <1>9, <2>1, RebuildQueues DEF Repack, TypeOK
  <2>2. CASE UNCHANGED build
    BY <1>9, <2>2 DEF Repack, TypeOK
  <2>3. QED
    BY <1>9, <2>1, <2>2 DEF Repack
<1>10. CASE Restart
  BY <1>10, CheckQueues DEF Restart, TypeOK
<1>11. CASE UNCHANGED vars
  BY <1>11 DEF vars, TypeOK
<1>12. QED
  BY <1>1, <1>2, <1>3, <1>4, <1>5, <1>6, <1>7, <1>8, <1>9, <1>10, <1>11

\* The end of a build frees it and may queue one that is free by then.
LEMMA EndQueues ==
  ASSUME TypeOK, NEW b \in Builds, NEW rows, BuildEnds(b, rows)
  PROVE  /\ build' \in [Builds -> Phases]
         /\ build'[b] \in {"free", "queued"}
         /\ \A c \in Builds \ {b} : Queues(c)
         /\ hash' = [hash EXCEPT ![b] = 0]
  BY DEF TypeOK, BuildEnds, Queues, Phases

----------------------------------------------------------------------------
\* Types, for every value of the constants.
THEOREM TypeCorrect == Spec => []TypeOK
<1> USE ImagesAssumption DEF TypeOK, Contents, Versions
<1>1. Init => TypeOK
  <2> SUFFICES ASSUME Init PROVE TypeOK
    OBVIOUS
  <2>1. build \in [Builds -> Phases]
    BY DEF Init, Phases
  <2>2. hash \in [Builds -> Versions] /\ content \in [Builds -> Versions]
    BY DEF Init
  <2>3. overlapped \in BOOLEAN
    BY DEF Init
  <2>4. QED
    BY <2>1, <2>2, <2>3 DEF Init
<1>2. TypeOK /\ [Next]_vars => TypeOK'
  <2> SUFFICES ASSUME TypeOK, [Next]_vars PROVE TypeOK'
    OBVIOUS
  <2> USE DEF baseVars, templateVars, buildVars, kioskVars
  <2>1. CASE Quiet
    BY <2>1 DEF Quiet
  <2>2. ASSUME NEW b \in Builds, BuildStep(b) PROVE TypeOK'
    <3>1. CASE BuildBegins(b)
      BY <3>1 DEF BuildBegins, Phases
    <3>2. CASE BuildFindsBase(b) \/ BuildStages(b)
      BY <3>2 DEF BuildFindsBase, BuildStages, Staged, Phases
    <3>3. CASE BuildPacks(b)
      BY <3>3 DEF BuildPacks, Wrecks, Phases
    <3>4. CASE BuildStores(b)
      BY <3>4 DEF BuildStores, Built, Phases
    <3>5. CASE BuildFlags(b) \/ BuildFails(b)
      BY <3>5, EndQueues DEF BuildFlags, BuildFails
    <3>6. QED
      BY <2>2, <3>1, <3>2, <3>3, <3>4, <3>5 DEF BuildStep
  <2>3. CASE WorkerLost
    BY <2>3 DEF WorkerLost, Wrecks, Phases
  <2>4. QED
    BY <2>1, <2>2, <2>3, OthersQuiet DEF Next
<1>3. QED
  BY <1>1, <1>2, PTL DEF Spec

\* Nothing on disk or in a build claims to be newer than the sources are.
LEMMA HashInvariant == Spec => []HashInv
<1> USE ImagesAssumption DEF HashInv, Versions
<1>1. Init => HashInv
  BY DEF Init
<1>2. TypeOK /\ HashInv /\ [Next]_vars => HashInv'
  <2> SUFFICES ASSUME TypeOK, HashInv, [Next]_vars PROVE HashInv'
    OBVIOUS
  <2> USE DEF TypeOK, baseVars, templateVars, buildVars, kioskVars
  <2>1. CASE Quiet
    BY <2>1 DEF Quiet, Queues
  <2>2. ASSUME NEW b \in Builds, BuildStep(b) PROVE HashInv'
    <3>1. CASE BuildBegins(b)
      BY <3>1 DEF BuildBegins
    <3>2. CASE BuildFindsBase(b) \/ BuildStages(b)
      BY <3>2 DEF BuildFindsBase, BuildStages, Staged
    <3>3. CASE BuildPacks(b)
      BY <3>3 DEF BuildPacks, Wrecks
    <3>4. CASE BuildStores(b)
      BY <3>4 DEF BuildStores, Built
    <3>5. CASE BuildFlags(b) \/ BuildFails(b)
      BY <3>5, EndQueues DEF BuildFlags, BuildFails, Queues
    <3>6. QED
      BY <2>2, <3>1, <3>2, <3>3, <3>4, <3>5 DEF BuildStep
  <2>3. CASE WorkerLost
    BY <2>3 DEF WorkerLost, Wrecks
  <2>4. QED
    BY <2>1, <2>2, <2>3, OthersQuiet DEF Next
<1>3. QED
  BY <1>1, <1>2, TypeCorrect, PTL DEF Spec

\* While builds do not overlap, at most one is at work, and it ships what it
\* says it does.
LEMMA ShipInvariant == Spec => [](~overlapped => AloneInv /\ ShipInv)
<1> USE ImagesAssumption DEF HashInv, AloneInv, ShipInv, AtWork, Versions
<1>1. Init => (~overlapped => AloneInv /\ ShipInv)
  BY DEF Init
<1>2. /\ TypeOK /\ HashInv
      /\ (~overlapped => AloneInv /\ ShipInv)
      /\ [Next]_vars
      => (~overlapped => AloneInv /\ ShipInv)'
  <2> SUFFICES ASSUME TypeOK, HashInv, ~overlapped => AloneInv /\ ShipInv, [Next]_vars,
                      ~overlapped'
               PROVE  AloneInv' /\ ShipInv'
    OBVIOUS
  <2> USE DEF TypeOK, baseVars, templateVars, buildVars, kioskVars
  <2>1. CASE Quiet
    BY <2>1 DEF Quiet, Queues
  <2>2. ASSUME NEW b \in Builds, BuildStep(b) PROVE AloneInv' /\ ShipInv'
    <3>1. CASE BuildBegins(b)
      <4>1. AloneInv'
        <5>1. CASE row[b] = "none"
          <6>1. overlapped' = (overlapped \/ AtWork # {}) /\ build' = [build EXCEPT ![b] = "base"]
            BY <3>1, <5>1 DEF BuildBegins
          <6>2. AtWork = {}
            BY <6>1
          <6>3. QED
            BY <6>1, <6>2
        <5>2. CASE row[b] # "none"
          BY <3>1, <5>2 DEF BuildBegins
        <5>3. QED
          BY <5>1, <5>2
      <4>2. ShipInv'
        BY <3>1 DEF BuildBegins
      <4>3. QED
        BY <4>1, <4>2
    <3>2. CASE BuildFindsBase(b) \/ BuildStages(b)
      BY <3>2 DEF BuildFindsBase, BuildStages, Staged
    <3>3. CASE BuildPacks(b)
      BY <3>3 DEF BuildPacks, Wrecks
    <3>4. CASE BuildStores(b)
      BY <3>4 DEF BuildStores, Built
    <3>5. CASE BuildFlags(b) \/ BuildFails(b)
      BY <3>5, EndQueues DEF BuildFlags, BuildFails, Queues
    <3>6. QED
      BY <2>2, <3>1, <3>2, <3>3, <3>4, <3>5 DEF BuildStep
  <2>3. CASE WorkerLost
    BY <2>3 DEF WorkerLost, Wrecks
  <2>4. QED
    BY <2>1, <2>2, <2>3, OthersQuiet DEF Next
<1>3. QED
  BY <1>1, <1>2, TypeCorrect, HashInvariant, PTL DEF Spec

\* An edit made while a build runs is never recorded as shipped, whatever was
\* lost, restarted, failed or asked for meanwhile, as long as no two builds
\* have been at work at once.
THEOREM HashHonest == Spec => []StoredHashHonest
<1>1. (~overlapped => AloneInv /\ ShipInv) => StoredHashHonest
  BY DEF ShipInv, StoredHashHonest
<1>2. QED
  BY <1>1, ShipInvariant, PTL
=============================================================================
