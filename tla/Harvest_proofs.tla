--------------------------- MODULE Harvest_proofs ---------------------------
(***************************************************************************)
(* Nothing is lost silently, and no reading is fitted twice: for every set *)
(* of harvests, every clock, cap and bound of Harvest.                     *)
(*                                                                         *)
(* NothingLostSilently says nothing of a sample in the staged file that    *)
(* somebody is about to move over or to remove. What saves it is that the  *)
(* file is precious only while one drain stands between its mv and its cat *)
(* and is listened to (StagedInv); any other content of it is stored, lost *)
(* to a named accident or in the hands of a harvest. For that, what a      *)
(* shell has printed and what a harvest has taken from it must not be      *)
(* forgotten in between (HandsInv).                                        *)
(*                                                                         *)
(* FitsIndependent speaks of fits that different drains have stored, weeks *)
(* apart perhaps. It rests on what two drains can have in common at all:   *)
(* nothing but what a trim left twice, or the one is where the other       *)
(* begins (BatchInv); and on how a batch is cut into windows, which is the *)
(* same up to any sample whatever follows it (CutAlike), so that windows   *)
(* which share a reading begin with the same reading.                      *)
(***************************************************************************)
EXTENDS Harvest, TLAPS, WellFoundedInduction

TypeOK ==
    /\ taken \in Nat /\ taken <= MaxSamples
    /\ collector \in {"idle", "trimming", "opening", "writing"}
    /\ collector # "idle" => taken > 0
    /\ fd \in {"none", "buffer", "staged", "gone"}
    /\ Read(buffer) \cup Read(staged) \cup Read(trim) \subseteq Samples
    /\ pc \in [Harvests -> {"idle", "queued", "draining", "drained", "storing"}]
    /\ shell \in [Harvests -> {"none", "test", "mv", "cat", "rm"}]
    /\ out \in [Harvests -> SUBSET Samples]
    /\ got \in [Harvests -> SUBSET Samples]

\* Only a shell that is read from and stands before its rm has printed
\* something; only a harvest between the drain and its commit has samples.
HandsInv ==
    \A h \in Harvests :
        /\ out[h] # {} => shell[h] = "rm" /\ pc[h] = "draining"
        /\ got[h] # {} => pc[h] \in {"drained", "storing"}

\* A sample that no file of the node need hold any more.
Safe(s) ==
    \/ s \in counted \cup harmed
    \/ \E h \in Harvests : s \in out[h] \cup got[h]

\* The one drain that is between its mv and its cat, with somebody listening.
SoleReader(h) ==
    /\ shell[h] = "cat" /\ pc[h] = "draining"
    /\ \A k \in Harvests \ {h} : shell[k] \notin {"cat", "rm"}

StagedInv == (\A s \in Read(staged) : Safe(s)) \/ \E h \in Harvests : SoleReader(h)

WrittenInv == \A s \in Written : Safe(s) \/ s \in Read(buffer) \cup Read(staged)

\* The inductive invariant.  A node that was deleted never comes back.
HandOver == enrolled => StagedInv /\ WrittenInv

----------------------------------------------------------------------------
\* Types, for every value of the constants.
THEOREM TypeCorrect == Spec => []TypeOK
<1> USE HarvestAssumption DEF TypeOK, Samples, Read
<1>1. Init => TypeOK
  BY DEF Init
<1>2. TypeOK /\ [Next]_vars => TypeOK'
  <2> SUFFICES ASSUME TypeOK, [Next]_vars PROVE TypeOK'
    OBVIOUS
  <2> USE DEF nodeVars, taskVars, storeVars, history
  <2>1. CASE Collector
    <3>1. CASE CollectorStarts
      <4>1. \A batch : NewestHalf(batch) \subseteq batch
        BY DEF NewestHalf
      <4>2. Read(trim)' \subseteq Samples
        BY <3>1, <4>1 DEF CollectorStarts
      <4>3. QED
        BY <3>1, <4>2 DEF CollectorStarts
    <3>2. CASE CollectorTrims
      BY <3>2 DEF CollectorTrims
    <3>3. CASE CollectorOpens
      BY <3>3 DEF CollectorOpens
    <3>4. CASE CollectorWrites
      BY <3>4 DEF CollectorWrites
    <3>5. QED
      BY <2>1, <3>1, <3>2, <3>3, <3>4 DEF Collector
  <2>2. ASSUME NEW h \in Harvests, Sweep(h) \/ TriggerHarvest(h) \/ AfterBackup(h)
        PROVE TypeOK'
    BY <2>2 DEF Sweep, TriggerHarvest, AfterBackup, Dispatch
  <2>3. ASSUME NEW h \in Harvests, Shell(h) PROVE TypeOK'
    <3>1. CASE ShellTests(h)
      BY <3>1 DEF ShellTests, Ends, GoesOn
    <3>2. CASE ShellMoves(h)
      BY <3>2 DEF ShellMoves, Ends, GoesOn
    <3>3. CASE ShellCats(h)
      BY <3>3 DEF ShellCats, Ends, GoesOn
    <3>4. CASE ShellRemoves(h)
      BY <3>4 DEF ShellRemoves, Ends
    <3>5. QED
      BY <2>3, <3>1, <3>2, <3>3, <3>4 DEF Shell
  <2>4. ASSUME NEW h \in Harvests, ShellDies(h) \/ Unreachable(h) \/ DrainCut(h) \/ WorkerLost(h)
        PROVE TypeOK'
    BY <2>4 DEF ShellDies, Unreachable, DrainCut, WorkerLost
  <2>5. ASSUME NEW h \in Harvests, Task(h) \/ CommitFails(h) PROVE TypeOK'
    BY <2>5 DEF Task, Begin, ReadsRows, Commit, CommitFails, Stored, NotStored, Settled
  <2>6. CASE SweepFails \/ Elapses \/ DeleteNode \/ Retention
    BY <2>6 DEF SweepFails, Elapses, DeleteNode, Retention
  <2>7. CASE UNCHANGED vars
    BY <2>7 DEF vars
  <2>8. QED
    BY <2>1, <2>2, <2>3, <2>4, <2>5, <2>6, <2>7 DEF Next
<1>3. QED
  BY <1>1, <1>2, PTL DEF Spec

\* Samples change hands and are never forgotten while they do.
LEMMA HandsInvariant == Spec => []HandsInv
<1> USE DEF HandsInv
<1>1. Init => HandsInv
  BY DEF Init
<1>2. TypeOK /\ HandsInv /\ [Next]_vars => HandsInv'
  <2> SUFFICES ASSUME TypeOK, HandsInv, [Next]_vars PROVE HandsInv'
    OBVIOUS
  <2> USE DEF TypeOK, nodeVars, taskVars, storeVars, history
  <2>1. CASE Collector
    BY <2>1 DEF Collector, CollectorStarts, CollectorTrims, CollectorOpens, CollectorWrites
  <2>2. ASSUME NEW h \in Harvests, Sweep(h) \/ TriggerHarvest(h) \/ AfterBackup(h)
        PROVE HandsInv'
    BY <2>2 DEF Sweep, TriggerHarvest, AfterBackup, Dispatch
  <2>3. ASSUME NEW h \in Harvests, Shell(h) PROVE HandsInv'
    <3> USE DEF Attended
    <3>1. CASE ShellTests(h)
      BY <3>1 DEF ShellTests, Ends, GoesOn
    <3>2. CASE ShellMoves(h)
      BY <3>2 DEF ShellMoves, Ends, GoesOn
    <3>3. CASE ShellCats(h)
      BY <3>3 DEF ShellCats, Ends, GoesOn
    <3>4. CASE ShellRemoves(h)
      BY <3>4 DEF ShellRemoves, Ends
    <3>5. QED
      BY <2>3, <3>1, <3>2, <3>3, <3>4 DEF Shell
  <2>4. ASSUME NEW h \in Harvests, ShellDies(h) \/ Unreachable(h) \/ DrainCut(h) \/ WorkerLost(h)
        PROVE HandsInv'
    BY <2>4 DEF ShellDies, Unreachable, DrainCut, WorkerLost, Attended
  <2>5. ASSUME NEW h \in Harvests, Task(h) \/ CommitFails(h) PROVE HandsInv'
    BY <2>5 DEF Task, Begin, ReadsRows, Commit, CommitFails, Stored, NotStored, Settled
  <2>6. CASE SweepFails \/ Elapses \/ DeleteNode \/ Retention
    BY <2>6 DEF SweepFails, Elapses, DeleteNode, Retention
  <2>7. CASE UNCHANGED vars
    BY <2>7 DEF vars
  <2>8. QED
    BY <2>1, <2>2, <2>3, <2>4, <2>5, <2>6, <2>7 DEF Next
<1>3. QED
  BY <1>1, <1>2, TypeCorrect, PTL DEF Spec

\* What is safe stays safe as long as the node is there.
LEMMA SafeGrows ==
  ASSUME TypeOK, HandsInv, Next, enrolled', NEW s, Safe(s)
  PROVE  Safe(s)'
<1> USE DEF Safe, TypeOK, HandsInv, nodeVars, taskVars, storeVars, history
<1>1. CASE Collector
  BY <1>1 DEF Collector, CollectorStarts, CollectorTrims, CollectorOpens, CollectorWrites
<1>2. ASSUME NEW h \in Harvests, Sweep(h) \/ TriggerHarvest(h) \/ AfterBackup(h)
      PROVE Safe(s)'
  BY <1>2 DEF Sweep, TriggerHarvest, AfterBackup, Dispatch
<1>3. ASSUME NEW h \in Harvests, Shell(h) PROVE Safe(s)'
  <2> USE DEF Attended
  <2>1. CASE ShellTests(h)
    BY <2>1 DEF ShellTests, Ends, GoesOn
  <2>2. CASE ShellMoves(h)
    BY <2>2 DEF ShellMoves, Ends, GoesOn
  <2>3. CASE ShellCats(h)
    BY <2>3 DEF ShellCats, Ends, GoesOn
  <2>4. CASE ShellRemoves(h)
    BY <2>4 DEF ShellRemoves, Ends
  <2>5. QED
    BY <1>3, <2>1, <2>2, <2>3, <2>4 DEF Shell
<1>4. ASSUME NEW h \in Harvests, ShellDies(h) \/ Unreachable(h) \/ DrainCut(h) \/ WorkerLost(h)
      PROVE Safe(s)'
  BY <1>4 DEF ShellDies, Unreachable, DrainCut, WorkerLost, Attended, Held
<1>5. ASSUME NEW h \in Harvests, Task(h) \/ CommitFails(h) PROVE Safe(s)'
  BY <1>5 DEF Task, Begin, ReadsRows, Commit, CommitFails, Stored, NotStored, Settled
<1>6. CASE SweepFails \/ Elapses \/ DeleteNode \/ Retention
  BY <1>6 DEF SweepFails, Elapses, DeleteNode, Retention
<1>7. QED
  BY <1>1, <1>2, <1>3, <1>4, <1>5, <1>6 DEF Next

\* The hand-over: what makes the staged file and the samples written safe.
LEMMA HandOverInvariant == Spec => []HandOver
<1> USE HarvestAssumption DEF HandOver, StagedInv, WrittenInv, Written
<1>1. Init => HandOver
  BY DEF Init, Read
<1>2. TypeOK /\ HandsInv /\ HandOver /\ [Next]_vars => HandOver'
  <2> SUFFICES ASSUME TypeOK, HandsInv, HandOver, Next, enrolled'
               PROVE  StagedInv' /\ WrittenInv'
    BY DEF vars, nodeVars, taskVars, storeVars, history, TypeOK, HandsInv, Safe, SoleReader, Read
  <2> USE DEF nodeVars, taskVars, storeVars, history
  <2>1. enrolled
    BY DEF Next, Collector, CollectorStarts, CollectorTrims, CollectorOpens, CollectorWrites,
           Sweep, TriggerHarvest, AfterBackup, Dispatch,
           Shell, ShellTests, ShellMoves, ShellCats, ShellRemoves, ShellDies,
           Task, Begin, ReadsRows, Commit, CommitFails, Settled, Unreachable, DrainCut,
           WorkerLost, SweepFails, Elapses, DeleteNode, Retention
  <2>2. \A s : Safe(s) => Safe(s)'
    BY SafeGrows
  <2> USE <2>1, <2>2 DEF TypeOK, SoleReader, HandsInv
  <2>3. CASE Collector
    <3>1. CASE CollectorStarts
      BY <3>1 DEF CollectorStarts
    <3>2. CASE CollectorTrims
      BY <3>2 DEF CollectorTrims, Safe
    <3>3. CASE CollectorOpens
      BY <3>3 DEF CollectorOpens, Read
    <3>4. CASE CollectorWrites
      BY <3>4 DEF CollectorWrites, StillRead, Read, Safe
    <3>5. QED
      BY <2>3, <3>1, <3>2, <3>3, <3>4 DEF Collector
  <2>4. ASSUME NEW h \in Harvests, Sweep(h) \/ TriggerHarvest(h) \/ AfterBackup(h)
        PROVE StagedInv' /\ WrittenInv'
    BY <2>4 DEF Sweep, TriggerHarvest, AfterBackup, Dispatch
  <2>5. ASSUME NEW h \in Harvests, Shell(h) PROVE StagedInv' /\ WrittenInv'
    <3> USE DEF Attended
    <3>1. CASE ShellTests(h)
      BY <3>1 DEF ShellTests, Ends, GoesOn
    <3>2. CASE ShellMoves(h)
      BY <3>2 DEF ShellMoves, Ends, GoesOn, AtStaged, Safe, Read
    <3>3. CASE ShellCats(h)
      BY <3>3 DEF ShellCats, Ends, GoesOn, Safe, Read
    <3>4. CASE ShellRemoves(h)
      BY <3>4 DEF ShellRemoves, Ends, Read
    <3>5. QED
      BY <2>5, <3>1, <3>2, <3>3, <3>4 DEF Shell
  <2>6. ASSUME NEW h \in Harvests, DrainCut(h) \/ WorkerLost(h)
        PROVE StagedInv' /\ WrittenInv'
    BY <2>6 DEF DrainCut, WorkerLost, Held, Safe
  <2>7. ASSUME NEW h \in Harvests, ShellDies(h) \/ Unreachable(h)
        PROVE StagedInv' /\ WrittenInv'
    BY <2>7 DEF ShellDies, Unreachable, Attended
  <2>8. ASSUME NEW h \in Harvests, Task(h) \/ CommitFails(h) PROVE StagedInv' /\ WrittenInv'
    BY <2>8 DEF Task, Begin, ReadsRows, Commit, CommitFails, Settled
  <2>9. CASE SweepFails \/ Elapses \/ DeleteNode \/ Retention
    BY <2>9 DEF SweepFails, Elapses, DeleteNode, Retention
  <2>10. QED
    BY <2>3, <2>4, <2>5, <2>6, <2>7, <2>8, <2>9 DEF Next
<1>3. QED
  BY <1>1, <1>2, TypeCorrect, HandsInvariant, PTL DEF Spec

\* Whatever drains meet, links cut and workers lose: a sample the collector has
\* written is in a file of the node, held by a harvest or stored, unless a named
\* accident took it.
THEOREM NothingLost == Spec => []NothingLostSilently
<1>1. TypeOK /\ HandOver => NothingLostSilently
  BY HarvestAssumption DEF HandOver, WrittenInv, Safe, NothingLostSilently, Around, TypeOK
<1>2. QED
  BY <1>1, TypeCorrect, HandOverInvariant, PTL

----------------------------------------------------------------------------
(* Cutting a batch into windows.                                           *)

\* Every set of numbers has a least one.
LEMMA LeastSample ==
  ASSUME NEW T \in SUBSET Nat, T # {}
  PROVE  \E x \in T : \A y \in T : x <= y
<1>1. PICK x \in T : \A y \in T : ~ (<<y, x>> \in OpToRel(<, Nat))
  <2> HIDE DEF OpToRel
  <2>1. QED
    BY NatLessThanWellFounded, WFMin
<1>2. ASSUME NEW y \in T PROVE x <= y
  <2>1. ~ (<<y, x>> \in {ss \in Nat \X Nat : ss[1] < ss[2]})
    BY <1>1 DEF OpToRel
  <2>2. QED
    BY <2>1
<1>3. QED
  BY <1>2

\* f is how a batch is cut, sample by sample, up to n.
Cut(f, batch, n) ==
  /\ f = [s \in 0 .. n |-> f[s]]
  /\ f[0] = [done |-> {}, now |-> {}]
  /\ \A s \in 1 .. n :
        f[s] = IF s \in Readings(batch) THEN Extend(f[s - 1], s) ELSE f[s - 1]

\* Every batch can be cut: the least sample it could not be cut up to follows one
\* that it could.
LEMMA CutExists ==
  ASSUME NEW batch
  PROVE  \E f : Cut(f, batch, MaxSamples)
<1> DEFINE T == {n \in 0 .. MaxSamples : ~ \E f : Cut(f, batch, n)}
<1>1. MaxSamples \in Nat
  BY HarvestAssumption
<1>2. ASSUME T # {} PROVE FALSE
  <2>1. PICK n \in T : \A m \in T : n <= m
    <3>1. T \in SUBSET Nat
      BY <1>1
    <3> HIDE DEF T
    <3>2. QED
      BY <1>2, <3>1, LeastSample
  <2>2. CASE n = 0
    <3> DEFINE f == [s \in 0 .. 0 |-> [done |-> {}, now |-> {}]]
    <3>1. Cut(f, batch, 0)
      BY DEF Cut
    <3>2. QED
      BY <2>1, <2>2, <3>1
  <2>3. CASE n # 0
    <3>1. n \in 1 .. MaxSamples /\ n - 1 \in 0 .. MaxSamples /\ n - 1 \notin T
      BY <1>1, <2>1, <2>3
    <3>2. PICK f : Cut(f, batch, n - 1)
      BY <3>1
    <3> DEFINE final == IF n \in Readings(batch) THEN Extend(f[n - 1], n) ELSE f[n - 1]
               g == [s \in 0 .. n |-> IF s = n THEN final ELSE f[s]]
    <3> HIDE DEF final
    <3>3. g = [s \in 0 .. n |-> g[s]] /\ g[0] = [done |-> {}, now |-> {}]
      <4>1. 0 \in 0 .. n /\ n # 0
        BY <3>1
      <4>2. f[0] = [done |-> {}, now |-> {}]
        BY <3>2 DEF Cut
      <4>3. g[0] = f[0]
        BY <4>1
      <4>4. QED
        BY <4>2, <4>3
    <3>4. ASSUME NEW s \in 1 .. n
          PROVE  g[s] = IF s \in Readings(batch) THEN Extend(g[s - 1], s) ELSE g[s - 1]
      <4>1. CASE s = n
        <5>1. g[s] = final /\ g[s - 1] = f[n - 1]
          BY <3>1, <4>1
        <5>2. QED
          BY <4>1, <5>1 DEF final
      <4>2. CASE s # n
        <5>1. g[s] = f[s] /\ g[s - 1] = f[s - 1] /\ s \in 1 .. n - 1
          BY <3>1, <4>2
        <5>2. QED
          BY <3>2, <5>1 DEF Cut
      <4>3. QED
        BY <4>1, <4>2
    <3>5. Cut(g, batch, n)
      BY <3>3, <3>4 DEF Cut
    <3>6. QED
      BY <2>1, <3>5
  <2>4. QED
    BY <2>2, <2>3
<1>3. QED
  BY <1>1, <1>2

LEMMA WindowsCut ==
  ASSUME NEW batch
  PROVE  \E f : Cut(f, batch, MaxSamples) /\ Windows(batch) = Closed(f[MaxSamples])
<1> DEFINE Step(f, s) == IF s = 0 THEN [done |-> {}, now |-> {}]
                         ELSE IF s \in Readings(batch) THEN Extend(f[s - 1], s)
                         ELSE f[s - 1]
           cut == CHOOSE f : f = [s \in 0 .. MaxSamples |-> Step(f, s)]
<1>1. PICK f : Cut(f, batch, MaxSamples)
  BY CutExists
<1>2. f = [s \in 0 .. MaxSamples |-> Step(f, s)]
  <2>1. f = [s \in 0 .. MaxSamples |-> f[s]]
    BY <1>1 DEF Cut
  <2>2. ASSUME NEW s \in 0 .. MaxSamples PROVE f[s] = Step(f, s)
    <3>1. CASE s = 0
      BY <1>1, <3>1 DEF Cut
    <3>2. CASE s # 0
      <4>1. s \in 1 .. MaxSamples
        BY <3>2, HarvestAssumption
      <4>2. QED
        BY <1>1, <3>2, <4>1 DEF Cut
    <3>3. QED
      BY <3>1, <3>2
  <2> HIDE DEF Step
  <2>3. QED
    BY <2>1, <2>2
<1>3. cut = [s \in 0 .. MaxSamples |-> Step(cut, s)]
  <2> HIDE DEF Step
  <2>1. QED
    BY <1>2
<1>4. Cut(cut, batch, MaxSamples)
  <2> HIDE DEF cut
  <2>1. MaxSamples \in Nat
    BY HarvestAssumption
  <2>2. \A s \in 0 .. MaxSamples : cut[s] = Step(cut, s)
    <3> HIDE DEF Step
    <3>1. QED
      BY <1>3
  <2>3. cut = [s \in 0 .. MaxSamples |-> cut[s]]
    <3> HIDE DEF Step
    <3>1. QED
      BY <1>3
  <2>4. cut[0] = [done |-> {}, now |-> {}]
    BY <2>1, <2>2
  <2>5. ASSUME NEW s \in 1 .. MaxSamples
        PROVE  cut[s] = IF s \in Readings(batch) THEN Extend(cut[s - 1], s) ELSE cut[s - 1]
    <3>1. s \in 0 .. MaxSamples /\ s # 0
      BY <2>1
    <3>2. QED
      BY <2>2, <3>1
  <2>6. QED
    BY <2>3, <2>4, <2>5 DEF Cut
<1>5. Windows(batch) = Closed(cut[MaxSamples])
  BY DEF Windows
<1>6. QED
  BY <1>4, <1>5

\* The reading a window is known by is its first.
LEMMA StartIsFirst ==
  ASSUME NEW w \in SUBSET Nat, w # {}
  PROVE  Start(w) \in w /\ \A t \in w : Start(w) <= t
<1>1. \E s \in w : \A t \in w : s <= t
  BY LeastSample
<1>2. QED
  BY <1>1 DEF Start

\* A later reading does not change it.
LEMMA StartStays ==
  ASSUME NEW w \in SUBSET Nat, w # {}, NEW s \in Nat, \A t \in w : t < s
  PROVE  Start(w \cup {s}) = Start(w)
<1>1. w \cup {s} \in SUBSET Nat /\ w \cup {s} # {}
  OBVIOUS
<1>2. Start(w) \in w /\ \A t \in w : Start(w) <= t
  BY StartIsFirst
<1> DEFINE v == w \cup {s}
<1>3. Start(v) \in v /\ \A t \in v : Start(v) <= t
  <2> HIDE DEF v
  <2>1. QED
    BY <1>1, StartIsFirst DEF v
<1>4. Start(v) \in Nat /\ Start(w) \in Nat /\ Start(w) < s
  BY <1>1, <1>2, <1>3
<1>5. Start(v) <= Start(w)
  BY <1>2, <1>3
<1>6. Start(w) <= Start(v)
  BY <1>2, <1>3, <1>4
<1>7. QED
  BY <1>4, <1>5, <1>6

\* What is cut off and what is being filled, after sample i: parts of the readings
\* so far that do not overlap, each known by the window its readings came into.
CutInv(f, batch, i) ==
  /\ f[i].now \subseteq Readings(batch) \cap (1 .. i)
  /\ \A v \in f[i].done : v \subseteq Readings(batch) \cap (1 .. i)
  /\ i \in Readings(batch) => i \in f[i].now
  /\ \A t \in f[i].now : Start(f[t].now) = Start(f[i].now)
  /\ \A v \in f[i].done : \A t \in v : Start(f[t].now) = Start(v)
  /\ \A v \in f[i].done : v \cap f[i].now = {} /\ \A w \in f[i].done : v \cap w # {} => v = w

LEMMA CutStep ==
  ASSUME NEW batch \in SUBSET Samples, NEW f, Cut(f, batch, MaxSamples),
         NEW i \in 1 .. MaxSamples, CutInv(f, batch, i - 1)
  PROVE  CutInv(f, batch, i)
<1>1. MaxSamples \in Nat /\ i \in Nat \ {0} /\ i - 1 \in Nat
  BY HarvestAssumption
<1> DEFINE w == f[i - 1]
<1>2. /\ w.now \subseteq Readings(batch) \cap (1 .. i - 1)
      /\ \A v \in w.done : v \subseteq Readings(batch) \cap (1 .. i - 1)
      /\ \A t \in w.now : Start(f[t].now) = Start(w.now)
      /\ \A v \in w.done : \A t \in v : Start(f[t].now) = Start(v)
      /\ \A v \in w.done : v \cap w.now = {} /\ \A u \in w.done : v \cap u # {} => v = u
  BY DEF CutInv
<1>3. 1 .. i - 1 \subseteq 1 .. i /\ i \notin 1 .. i - 1
  BY <1>1
<1>4. CASE i \notin Readings(batch)
  <2>1. f[i] = w
    BY <1>4 DEF Cut
  <2>2. QED
    BY <1>2, <1>3, <1>4, <2>1 DEF CutInv
<1>5. CASE i \in Readings(batch)
  <2>1. f[i] = Extend(w, i)
    BY <1>5 DEF Cut
  <2> HIDE DEF w
  <2>2. CASE f[i] = [done |-> Closed(w), now |-> {i}]
    <3>1. f[i].now = {i} /\ w.done \subseteq f[i].done /\ f[i].done \subseteq w.done \cup {w.now}
      BY <2>2 DEF Closed
    <3>2. \A v \in f[i].done : v \subseteq Readings(batch) \cap (1 .. i - 1)
      BY <1>2, <3>1
    <3>3. \A v \in f[i].done : \A t \in v : Start(f[t].now) = Start(v)
      BY <1>2, <3>1
    <3>4. \A v \in f[i].done : \A u \in f[i].done : v \cap u # {} => v = u
      BY <1>2, <3>1
    <3>5. \A v \in f[i].done : v \cap f[i].now = {}
      BY <1>3, <3>1, <3>2
    <3>6. f[i].now \subseteq Readings(batch) \cap (1 .. i)
      BY <1>1, <1>5, <3>1
    <3>7. \A t \in f[i].now : Start(f[t].now) = Start(f[i].now)
      BY <3>1
    <3>8. QED
      BY <1>3, <3>1, <3>2, <3>3, <3>4, <3>5, <3>6, <3>7 DEF CutInv
  <2>3. CASE f[i] = [done |-> w.done, now |-> w.now \cup {i}]
    <3>1. f[i].now = w.now \cup {i} /\ f[i].done = w.done
      BY <2>3
    <3>2. \A v \in f[i].done : v \cap f[i].now = {}
      BY <1>2, <1>3, <3>1
    <3>3. f[i].now \subseteq Readings(batch) \cap (1 .. i)
      BY <1>1, <1>2, <1>3, <1>5, <3>1
    <3>4. ASSUME NEW t \in f[i].now PROVE Start(f[t].now) = Start(f[i].now)
      <4>1. CASE t = i
        BY <4>1
      <4>2. CASE t \in w.now
        <5>1. w.now \in SUBSET Nat /\ w.now # {} /\ \A u \in w.now : u < i
          BY <1>1, <1>2, <4>2
        <5>2. Start(w.now \cup {i}) = Start(w.now)
          BY <1>1, <5>1, StartStays
        <5>3. QED
          BY <1>2, <3>1, <4>2, <5>2
      <4>3. QED
        BY <3>1, <4>1, <4>2
    <3>5. \A v \in f[i].done : \A u \in f[i].done : v \cap u # {} => v = u
      BY <1>2, <3>1
    <3>6. \A v \in f[i].done : v \subseteq Readings(batch) \cap (1 .. i)
      BY <1>2, <1>3, <3>1
    <3>7. \A v \in f[i].done : \A t \in v : Start(f[t].now) = Start(v)
      BY <1>2, <3>1
    <3>8. i \in f[i].now
      BY <3>1
    <3>9. QED
      BY <3>2, <3>3, <3>4, <3>5, <3>6, <3>7, <3>8 DEF CutInv
  <2>4. QED
    BY <2>1, <2>2, <2>3 DEF Extend
<1>6. QED
  BY <1>4, <1>5

\* The windows of a batch are made of its readings, do not overlap, and each is
\* known by the window its readings came into.
LEMMA WindowsApart ==
  ASSUME NEW batch \in SUBSET Samples, NEW f, Cut(f, batch, MaxSamples),
         Windows(batch) = Closed(f[MaxSamples])
  PROVE  \A v \in Windows(batch) :
            /\ v \subseteq batch
            /\ \A t \in v : Start(f[t].now) = Start(v)
            /\ \A w \in Windows(batch) : v \cap w # {} => v = w
<1>1. MaxSamples \in Nat
  BY HarvestAssumption
<1> DEFINE T == {i \in 0 .. MaxSamples : ~ CutInv(f, batch, i)}
<1>2. ASSUME T # {} PROVE FALSE
  <2>1. PICK i \in T : \A j \in T : i <= j
    <3>1. T \in SUBSET Nat
      BY <1>1
    <3> HIDE DEF T
    <3>2. QED
      BY <1>2, <3>1, LeastSample
  <2>2. CASE i = 0
    <3>1. f[0] = [done |-> {}, now |-> {}]
      BY DEF Cut
    <3>2. 0 \notin Readings(batch)
      BY <1>1 DEF Readings, Samples
    <3>3. CutInv(f, batch, 0)
      BY <3>1, <3>2 DEF CutInv
    <3>4. QED
      BY <2>1, <2>2, <3>3
  <2>3. CASE i # 0
    <3>1. i \in 1 .. MaxSamples /\ i - 1 \in 0 .. MaxSamples /\ i - 1 \notin T
      BY <1>1, <2>1, <2>3
    <3>2. CutInv(f, batch, i - 1)
      BY <3>1
    <3>3. CutInv(f, batch, i)
      BY <3>1, <3>2, CutStep
    <3>4. QED
      BY <2>1, <3>3
  <2>4. QED
    BY <2>2, <2>3
<1>3. CutInv(f, batch, MaxSamples)
  BY <1>1, <1>2
<1>4. Windows(batch) \subseteq f[MaxSamples].done \cup {f[MaxSamples].now}
  BY DEF Closed
<1>5. Readings(batch) \subseteq batch
  BY DEF Readings
<1>6. QED
  BY <1>3, <1>4, <1>5 DEF CutInv

----------------------------------------------------------------------------
(* Batches that were read of one file, the one before the other.           *)

\* P is where Q begins.
Opens(P, Q) == P \subseteq Q /\ \A q \in Q \ P : \A p \in P : p < q

\* They are cut alike as far as the shorter one goes.
LEMMA CutAlike ==
  ASSUME NEW P \in SUBSET Samples, NEW Q \in SUBSET Samples, Opens(P, Q),
         NEW f, Cut(f, P, MaxSamples), NEW g, Cut(g, Q, MaxSamples), NEW s \in P
  PROVE  f[s] = g[s]
<1>1. MaxSamples \in Nat /\ s \in 1 .. MaxSamples /\ \A q \in Q : q \in Nat
  BY HarvestAssumption DEF Samples
<1> DEFINE T == {i \in 0 .. s : f[i] # g[i]}
<1>2. ASSUME NEW i \in 1 .. s PROVE i \in Readings(P) <=> i \in Readings(Q)
  <2>1. ASSUME NEW q \in Q, q <= i PROVE q \in P
    BY <1>1, <1>2, <2>1 DEF Opens
  <2>2. ASSUME NEW q \in Q, q < i PROVE q \in P
    BY <1>1, <1>2, <2>2, <2>1
  <2>3. P \subseteq Q /\ (i \in Q => i \in P)
    BY <1>1, <1>2, <2>1 DEF Opens
  <2>4. QED
    BY <2>2, <2>3 DEF Readings
<1>3. ASSUME T # {} PROVE FALSE
  <2>1. PICK i \in T : \A j \in T : i <= j
    <3>1. T \in SUBSET Nat
      BY <1>1
    <3> HIDE DEF T
    <3>2. QED
      BY <1>3, <3>1, LeastSample
  <2>2. CASE i = 0
    BY <2>1, <2>2 DEF Cut
  <2>3. CASE i # 0
    <3>1. i \in 1 .. s /\ i \in 1 .. MaxSamples /\ i - 1 \in 0 .. s /\ i - 1 \notin T
      BY <1>1, <2>1, <2>3
    <3>2. f[i - 1] = g[i - 1]
      BY <3>1
    <3>3. f[i] = g[i]
      BY <1>2, <3>1, <3>2 DEF Cut
    <3>4. QED
      BY <2>1, <3>3
  <2>4. QED
    BY <2>2, <2>3
<1>4. QED
  BY <1>1, <1>3

\* So a reading they share is in windows that are known by the same reading.
LEMMA WindowsAlike ==
  ASSUME NEW P \in SUBSET Samples, NEW Q \in SUBSET Samples, Opens(P, Q),
         NEW v \in Windows(P), NEW w \in Windows(Q), v \cap w # {}
  PROVE  Start(v) = Start(w)
<1>1. PICK f : Cut(f, P, MaxSamples) /\ Windows(P) = Closed(f[MaxSamples])
  BY WindowsCut
<1>2. PICK g : Cut(g, Q, MaxSamples) /\ Windows(Q) = Closed(g[MaxSamples])
  BY WindowsCut
<1>3. PICK s : s \in v /\ s \in w
  OBVIOUS
<1>4. v \subseteq P /\ Start(f[s].now) = Start(v)
  BY <1>1, <1>3, WindowsApart
<1>5. Start(g[s].now) = Start(w)
  BY <1>2, <1>3, WindowsApart
<1>6. f[s] = g[s]
  BY <1>1, <1>2, <1>3, <1>4, CutAlike
<1>7. QED
  BY <1>4, <1>5, <1>6

LEMMA WindowsOfOne ==
  ASSUME NEW P \in SUBSET Samples, NEW v \in Windows(P)
  PROVE  v \subseteq P /\ \A w \in Windows(P) : v \cap w # {} => v = w
<1>1. PICK f : Cut(f, P, MaxSamples) /\ Windows(P) = Closed(f[MaxSamples])
  BY WindowsCut
<1>2. QED
  BY <1>1, WindowsApart

----------------------------------------------------------------------------
(* The batches there are.                                                  *)

\* Two batches have nothing in common but what a trim has left twice, or one is
\* where the other begins.
Apart(P, Q) == P \cap Q \subseteq copied \/ Opens(P, Q) \/ Opens(Q, P)

\* A batch that has been read: none of it is in the buffer any more, and the
\* staged file, if it is still the one read, has only grown.
Fresh(P) ==
  /\ P \subseteq Written
  /\ P \cap Read(buffer) \subseteq copied
  /\ P \cap Read(staged) \subseteq copied \/ Opens(P, Read(staged))
  /\ \A h \in Harvests : Apart(P, out[h]) /\ Apart(P, got[h])

FilesInv ==
  /\ Read(buffer) \cup Read(staged) \cup Read(trim) \subseteq Written
  /\ Read(buffer) \cap Read(staged) \subseteq copied
  /\ collector = "trimming" /\ buffer # {} => Read(trim) \subseteq Read(buffer)

HeldInv == \A h \in Harvests : Fresh(out[h]) /\ Fresh(got[h])

\* Every stored window was cut from a batch that has been read.
OriginInv ==
  \A f \in fits : \E P \in SUBSET Samples : f.window \in Windows(P) /\ Fresh(P)

\* The inductive invariant.
BatchInv ==
  /\ enrolled => FilesInv /\ HeldInv /\ OriginInv /\ FitsIndependent
  /\ ~enrolled => fits = {}

LEMMA OpensSelf ==
  ASSUME NEW P
  PROVE  Opens(P, P)
BY DEF Opens

\* Nothing was read of an empty file.
LEMMA FreshEmpty ==
  ASSUME TypeOK
  PROVE  Fresh({})
BY DEF Fresh, Apart

\* What is in the staged file, once it is read.
LEMMA StagedFresh ==
  ASSUME TypeOK, FilesInv, HeldInv
  PROVE  Fresh(Read(staged))
<1>1. ASSUME NEW h \in Harvests
      PROVE  Apart(Read(staged), out[h]) /\ Apart(Read(staged), got[h])
  BY <1>1 DEF HeldInv, Fresh, Apart
<1>2. QED
  BY <1>1, OpensSelf DEF Fresh, FilesInv

\* What a step may do to the files: the collector's doing, the mv and the rm of a
\* drain.
MovesFile ==
  /\ staged' = buffer /\ buffer' = {}
  /\ UNCHANGED <<taken, trim, collector, copied>>

RemovesFile == staged' = {} /\ UNCHANGED <<taken, buffer, trim, collector, copied>>

LeavesFiles == UNCHANGED <<taken, buffer, staged, trim, collector, copied>>

\* Samples go from the staged file to what a shell prints, and from there to its
\* harvest.
PassesOn ==
  \A h \in Harvests :
    /\ out'[h] \in {out[h], {}, Read(staged)}
    /\ got'[h] \in {got[h], {}, out[h]}

LEMMA StepKinds ==
  ASSUME TypeOK, Next, enrolled'
  PROVE  /\ enrolled
         /\ PassesOn
         /\ Collector \/ MovesFile \/ RemovesFile \/ LeavesFiles
         /\ fits' \subseteq fits \/ \E h \in Harvests : Commit(h)
<1> USE DEF TypeOK, nodeVars, taskVars, storeVars, history, PassesOn, LeavesFiles
<1> DEFINE Goal == /\ enrolled
                   /\ PassesOn
                   /\ Collector \/ MovesFile \/ RemovesFile \/ LeavesFiles
                   /\ fits' \subseteq fits \/ \E h \in Harvests : Commit(h)
<1>1. CASE Collector
  <2>1. enrolled /\ PassesOn /\ fits' \subseteq fits
    BY <1>1 DEF Collector, CollectorStarts, CollectorTrims, CollectorOpens, CollectorWrites
  <2>2. QED
    BY <1>1, <2>1
<1>2. ASSUME NEW h \in Harvests, Sweep(h) \/ TriggerHarvest(h) \/ AfterBackup(h) PROVE Goal
  BY <1>2 DEF Sweep, TriggerHarvest, AfterBackup, Dispatch
<1>3. ASSUME NEW h \in Harvests, Shell(h) PROVE Goal
  <2>1. CASE ShellTests(h)
    BY <2>1 DEF ShellTests, Ends, GoesOn
  <2>2. CASE ShellMoves(h)
    <3>1. enrolled /\ PassesOn /\ fits' \subseteq fits
      BY <2>2 DEF ShellMoves, Ends, GoesOn
    <3>2. MovesFile \/ LeavesFiles
      BY <2>2 DEF ShellMoves, Ends, GoesOn, MovesFile
    <3>3. QED
      BY <3>1, <3>2
  <2>3. CASE ShellCats(h)
    BY <2>3 DEF ShellCats, Ends, GoesOn
  <2>4. CASE ShellRemoves(h)
    BY <2>4 DEF ShellRemoves, Ends, RemovesFile
  <2>5. QED
    BY <1>3, <2>1, <2>2, <2>3, <2>4 DEF Shell
<1>4. ASSUME NEW h \in Harvests, ShellDies(h) \/ Unreachable(h) \/ DrainCut(h) \/ WorkerLost(h)
      PROVE Goal
  BY <1>4 DEF ShellDies, Unreachable, DrainCut, WorkerLost
<1>5. ASSUME NEW h \in Harvests, Task(h) \/ CommitFails(h) PROVE Goal
  <2>1. CASE Begin(h) \/ ReadsRows(h)
    BY <2>1 DEF Begin, ReadsRows
  <2>2. CASE Commit(h)
    BY <2>2 DEF Commit, Stored, NotStored, Settled
  <2>3. CASE CommitFails(h)
    BY <2>3 DEF CommitFails, NotStored, Settled
  <2>4. QED
    BY <1>5, <2>1, <2>2, <2>3 DEF Task
<1>6. CASE SweepFails \/ Elapses \/ DeleteNode \/ Retention
  BY <1>6 DEF SweepFails, Elapses, DeleteNode, Retention
<1>7. QED
  BY <1>1, <1>2, <1>3, <1>4, <1>5, <1>6 DEF Next

\* The files stay apart, and what was read stays out of them.
LEMMA FilesStep ==
  ASSUME TypeOK, FilesInv, Collector \/ MovesFile \/ RemovesFile \/ LeavesFiles
  PROVE  /\ FilesInv'
         /\ Written \subseteq Written' /\ copied \subseteq copied'
         /\ \A P \in SUBSET Written :
              /\ P \cap Read(buffer) \subseteq copied
              /\ P \cap Read(staged) \subseteq copied \/ Opens(P, Read(staged))
              =>
              /\ P \cap Read(buffer') \subseteq copied'
              /\ P \cap Read(staged') \subseteq copied' \/ Opens(P, Read(staged'))
<1> USE DEF FilesInv
<1> DEFINE Goal == /\ FilesInv'
                   /\ Written \subseteq Written' /\ copied \subseteq copied'
                   /\ \A P \in SUBSET Written :
                        /\ P \cap Read(buffer) \subseteq copied
                        /\ P \cap Read(staged) \subseteq copied \/ Opens(P, Read(staged))
                        =>
                        /\ P \cap Read(buffer') \subseteq copied'
                        /\ \/ P \cap Read(staged') \subseteq copied'
                           \/ Opens(P, Read(staged'))
<1>1. CASE LeavesFiles
  BY <1>1 DEF LeavesFiles, Written
<1>2. CASE RemovesFile
  BY <1>2 DEF RemovesFile, Written, Read
<1>3. CASE MovesFile
  BY <1>3 DEF MovesFile, Written, Read
<1>4. CASE CollectorStarts
  <2>1. /\ Written' = Written
        /\ UNCHANGED <<buffer, staged, copied>>
    BY <1>4, HarvestAssumption DEF CollectorStarts, Written, TypeOK, history
  <2>2. \A batch : NewestHalf(batch) \subseteq batch
    BY DEF NewestHalf
  <2>3. trim' = trim \/ trim' = {NewestHalf(Read(buffer))}
    BY <1>4 DEF CollectorStarts
  <2>4. Read(trim') \subseteq Written
    BY <2>2, <2>3 DEF Read
  <2>5. collector' = "trimming" => Read(trim') \subseteq Read(buffer)
    BY <1>4, <2>2 DEF CollectorStarts, Read
  <2>6. QED
    BY <2>1, <2>4, <2>5 DEF Read
<1>5. CASE CollectorTrims
  <2>1. /\ UNCHANGED <<taken, staged>> /\ buffer' = trim /\ Read(trim') = {}
        /\ collector = "trimming" /\ collector' = "opening"
        /\ copied' = IF buffer = {} THEN copied \cup Read(trim) ELSE copied
    BY <1>5 DEF CollectorTrims, Read
  <2>2. Written' = Written
    BY <2>1 DEF Written
  <2>3. Read(buffer') \subseteq copied' \/ Read(buffer') \subseteq Read(buffer)
    BY <2>1
  <2>4. QED
    BY <2>1, <2>2, <2>3 DEF Read
<1>6. CASE CollectorOpens
  <2>1. /\ UNCHANGED <<taken, staged, trim, copied>> /\ Read(buffer') = Read(buffer)
        /\ collector = "opening" /\ collector' = "writing"
    BY <1>6 DEF CollectorOpens, Read, history
  <2>2. Written' = Written
    BY <2>1 DEF Written
  <2>3. QED
    BY <2>1, <2>2 DEF Read
<1>7. CASE CollectorWrites
  <2>1. /\ UNCHANGED <<taken, trim, copied>>
        /\ collector = "writing" /\ collector' = "idle"
    BY <1>7 DEF CollectorWrites
  <2>a. \/ Read(buffer') = Read(buffer)
        \/ Read(buffer') = Read(buffer) \cup {taken} /\ Read(staged') = Read(staged)
    BY <1>7 DEF CollectorWrites, Read
  <2>b. Read(staged') = Read(staged) \/ Read(staged') = Read(staged) \cup {taken}
    BY <1>7 DEF CollectorWrites, Read
  <2>2. /\ Written = 1 .. taken - 1 /\ Written' = 1 .. taken /\ taken \in Nat \ {0}
        /\ Written' = Written \cup {taken} /\ taken \notin Written
        /\ \A s \in Written : s < taken
    BY <2>1 DEF Written, TypeOK
  <2>3. FilesInv'
    BY <2>1, <2>a, <2>b, <2>2 DEF Read
  <2>4. ASSUME NEW P \in SUBSET Written, P \cap Read(buffer) \subseteq copied
        PROVE  P \cap Read(buffer') \subseteq copied'
    BY <2>1, <2>a, <2>2, <2>4
  <2>5. ASSUME NEW P \in SUBSET Written,
               P \cap Read(staged) \subseteq copied \/ Opens(P, Read(staged))
        PROVE  P \cap Read(staged') \subseteq copied' \/ Opens(P, Read(staged'))
    BY <2>1, <2>b, <2>2, <2>5 DEF Opens
  <2>6. QED
    BY <2>1, <2>2, <2>3, <2>4, <2>5
<1>8. QED
  BY <1>1, <1>2, <1>3, <1>4, <1>5, <1>6, <1>7 DEF Collector

\* What has been read stays apart from all that there is and comes.
LEMMA FreshStays ==
  ASSUME TypeOK, FilesInv, Next, enrolled', NEW P, Fresh(P)
  PROVE  Fresh(P)'
<1>1. /\ PassesOn
      /\ Collector \/ MovesFile \/ RemovesFile \/ LeavesFiles
  BY StepKinds
<1>2. /\ Written \subseteq Written' /\ copied \subseteq copied'
      /\ P \cap Read(buffer') \subseteq copied'
      /\ P \cap Read(staged') \subseteq copied' \/ Opens(P, Read(staged'))
  <2>1. P \in SUBSET Written
    BY DEF Fresh
  <2>2. /\ P \cap Read(buffer) \subseteq copied
        /\ P \cap Read(staged) \subseteq copied \/ Opens(P, Read(staged))
    BY DEF Fresh
  <2>3. QED
    BY <1>1, <2>1, <2>2, FilesStep
<1>3. ASSUME NEW h \in Harvests
      PROVE  Apart(P, out[h])' /\ Apart(P, got[h])'
  <2>1. /\ Apart(P, out[h]) /\ Apart(P, got[h]) /\ Apart(P, Read(staged)) /\ Apart(P, {})
    BY <1>3 DEF Fresh, Apart
  <2>2. \A Q : Apart(P, Q) =>
            P \cap Q \subseteq copied' \/ Opens(P, Q) \/ Opens(Q, P)
    BY <1>2 DEF Apart
  <2>3. /\ out'[h] \in {out[h], {}, Read(staged)}
        /\ got'[h] \in {got[h], {}, out[h]}
    BY <1>1, <1>3 DEF PassesOn
  <2>4. Apart(P, out'[h]) /\ Apart(P, got'[h])
    BY <2>1, <2>3
  <2>5. QED
    BY <2>2, <2>4 DEF Apart
<1>4. QED
  BY <1>2, <1>3 DEF Fresh, Read

LEMMA HeldStays ==
  ASSUME TypeOK, FilesInv, HeldInv, Next, enrolled'
  PROVE  HeldInv'
<1>1. PassesOn
  BY StepKinds
<1>2. ASSUME NEW P, P = {} \/ P = Read(staged) \/ \E h \in Harvests : P = out[h] \/ P = got[h]
      PROVE  Fresh(P)'
  <2>1. Fresh(P)
    BY <1>2, FreshEmpty, StagedFresh DEF HeldInv
  <2>2. QED
    BY <2>1, FreshStays
<1>3. ASSUME NEW h \in Harvests PROVE Fresh(out[h])' /\ Fresh(got[h])'
  <2>1. PICK P : P = out'[h]
    OBVIOUS
  <2>2. PICK Q : Q = got'[h]
    OBVIOUS
  <2>3. Fresh(P)' /\ Fresh(Q)'
    BY <1>1, <1>2, <1>3, <2>1, <2>2 DEF PassesOn
  <2>4. QED
    BY <2>1, <2>2, <2>3 DEF Fresh, Apart
<1>4. QED
  BY <1>3 DEF HeldInv

\* What a commit adds are windows of its batch that no stored one starts with.
LEMMA CommitAdds ==
  ASSUME TypeOK, HeldInv, NEW h \in Harvests, Commit(h)
  PROVE  /\ copied' = copied
         /\ \A f \in fits' \ fits :
              /\ f.window \in Windows(got[h])
              /\ \A g \in fits : Start(f.window) # Start(g.window)
<1>1. copied' = copied
  BY DEF Commit, Stored, NotStored, Settled
<1>2. CASE ~ (enrolled /\ ~Conflicts(h))
  BY <1>1, <1>2 DEF Commit, NotStored, storeVars
<1>3. CASE enrolled /\ ~Conflicts(h)
  <2>1. fits' = fits \cup NewFits(got[h], seen[h])
    BY <1>3 DEF Commit, Stored
  <2>2. ASSUME NEW f \in fits' \ fits
        PROVE  /\ f.window \in Windows(got[h])
               /\ \A g \in fits : Start(f.window) # Start(g.window)
    <3>1. PICK w \in Windows(got[h]) : f = Fit(w) /\ <<"window", Start(w)>> \notin seen[h]
      BY <2>1, <2>2 DEF NewFits
    <3>2. f.window = w
      BY <3>1 DEF Fit
    <3>3. <<"window", Start(w)>> \notin Rows
      BY <1>3, <3>1 DEF Conflicts, Keys
    <3>4. \A g \in fits : Start(w) # Start(g.window)
      BY <3>3 DEF Rows
    <3>5. QED
      BY <3>2, <3>4
  <2>3. QED
    BY <1>1, <2>2
<1>4. QED
  BY <1>2, <1>3

LEMMA OriginStays ==
  ASSUME TypeOK, FilesInv, HeldInv, OriginInv, Next, enrolled'
  PROVE  OriginInv'
<1>1. ASSUME NEW f \in fits PROVE \E P \in SUBSET Samples : f.window \in Windows(P) /\ Fresh(P)'
  <2>1. PICK P \in SUBSET Samples : f.window \in Windows(P) /\ Fresh(P)
    BY DEF OriginInv
  <2>2. Fresh(P)'
    BY <2>1, FreshStays
  <2>3. QED
    BY <2>1, <2>2
<1>2. ASSUME NEW h \in Harvests, Commit(h), NEW f \in fits' \ fits
      PROVE  \E P \in SUBSET Samples : f.window \in Windows(P) /\ Fresh(P)'
  <2>1. PICK P : P = got[h]
    OBVIOUS
  <2>2. P \in SUBSET Samples /\ f.window \in Windows(P) /\ Fresh(P)
    BY <1>2, <2>1, CommitAdds DEF TypeOK, HeldInv
  <2>3. Fresh(P)'
    BY <2>2, FreshStays
  <2>4. QED
    BY <2>2, <2>3
<1>3. ASSUME NEW f \in fits' PROVE \E P \in SUBSET Samples : f.window \in Windows(P) /\ Fresh(P)'
  BY <1>1, <1>2, StepKinds
<1>4. QED
  BY <1>3 DEF OriginInv

LEMMA FitsStay ==
  ASSUME TypeOK, HeldInv, OriginInv, FitsIndependent, Next, enrolled'
  PROVE  FitsIndependent'
<1>1. CASE fits' \subseteq fits
  <2>1. copied \subseteq copied'
    BY DEF Next, Collector, CollectorStarts, CollectorTrims, CollectorOpens, CollectorWrites,
           Sweep, TriggerHarvest, AfterBackup, Dispatch, history,
           Shell, ShellTests, ShellMoves, ShellCats, ShellRemoves, ShellDies,
           Task, Begin, ReadsRows, Commit, CommitFails, Settled, Unreachable, DrainCut,
           WorkerLost, SweepFails, Elapses, DeleteNode, Retention
  <2>2. QED
    BY <1>1, <2>1 DEF FitsIndependent
<1>2. ASSUME NEW h \in Harvests, Commit(h) PROVE FitsIndependent'
  <2>1. /\ copied' = copied
        /\ \A f \in fits' \ fits :
              /\ f.window \in Windows(got[h])
              /\ \A g \in fits : Start(f.window) # Start(g.window)
    BY <1>2, CommitAdds
  <2>2. PICK B : B = got[h]
    OBVIOUS
  <2>3. B \in SUBSET Samples /\ \A P : Fresh(P) => Apart(P, B)
    BY <1>2, <2>2 DEF TypeOK, Fresh
  <2>4. ASSUME NEW f \in fits' \ fits, NEW g \in fits
        PROVE  f.window \cap g.window \subseteq copied
    <3>1. f.window \in Windows(B) /\ Start(f.window) # Start(g.window)
      BY <2>1, <2>2
    <3>2. PICK P \in SUBSET Samples : g.window \in Windows(P) /\ Fresh(P)
      BY DEF OriginInv
    <3>3. f.window \subseteq B /\ g.window \subseteq P
      BY <2>3, <3>1, <3>2, WindowsOfOne
    <3>4. CASE P \cap B \subseteq copied
      BY <3>3, <3>4
    <3>5. CASE Opens(P, B) \/ Opens(B, P)
      <4>1. f.window \cap g.window = {}
        BY <2>3, <3>1, <3>2, <3>5, WindowsAlike
      <4>2. QED
        BY <4>1
    <3>6. QED
      BY <2>3, <3>2, <3>4, <3>5 DEF Apart
  <2>5. ASSUME NEW f \in fits' \ fits, NEW g \in fits' \ fits, f.window # g.window
        PROVE  f.window \cap g.window \subseteq copied
    <3>1. f.window \in Windows(B) /\ g.window \in Windows(B)
      BY <2>1, <2>2
    <3>2. f.window \cap g.window = {}
      BY <2>3, <2>5, <3>1, WindowsOfOne
    <3>3. QED
      BY <3>2
  <2>6. ASSUME NEW f \in fits, NEW g \in fits, f.window # g.window
        PROVE  f.window \cap g.window \subseteq copied
    BY <2>6 DEF FitsIndependent
  <2>7. QED
    BY <2>1, <2>4, <2>5, <2>6 DEF FitsIndependent
<1>3. QED
  BY <1>1, <1>2, StepKinds

\* A node that is deleted leaves no fits, and gets none.
LEMMA DeletedStays ==
  ASSUME TypeOK, ~enrolled => fits = {}, Next, ~enrolled'
  PROVE  fits' = {}
<1>1. CASE enrolled
  <2>1. DeleteNode
    BY <1>1 DEF Next, Collector, CollectorStarts, CollectorTrims, CollectorOpens,
           CollectorWrites, Sweep, TriggerHarvest, AfterBackup, Dispatch,
           Shell, ShellTests, ShellMoves, ShellCats, ShellRemoves, ShellDies,
           Task, Begin, ReadsRows, Commit, CommitFails, Settled, Unreachable, DrainCut,
           WorkerLost, SweepFails, Elapses, Retention
  <2>2. QED
    BY <2>1 DEF DeleteNode
<1>2. CASE ~enrolled
  BY <1>2 DEF Next, Collector, CollectorStarts, CollectorTrims, CollectorOpens,
         CollectorWrites, Sweep, TriggerHarvest, AfterBackup, Dispatch, storeVars,
         Shell, ShellTests, ShellMoves, ShellCats, ShellRemoves, ShellDies,
         Task, Begin, ReadsRows, Commit, CommitFails, NotStored, Settled, Unreachable,
         DrainCut, WorkerLost, SweepFails, Elapses, DeleteNode, Retention
<1>3. QED
  BY <1>1, <1>2

LEMMA BatchInvariant == Spec => []BatchInv
<1>1. Init => BatchInv
  BY DEF Init, BatchInv, FilesInv, HeldInv, OriginInv, FitsIndependent, Fresh, Apart, Read
<1>2. TypeOK /\ BatchInv /\ [Next]_vars => BatchInv'
  <2>1. CASE UNCHANGED vars
    BY <2>1 DEF vars, nodeVars, taskVars, storeVars, history, BatchInv, FilesInv, HeldInv,
                OriginInv, FitsIndependent, Fresh, Apart, Written
  <2>2. ASSUME TypeOK, BatchInv, Next, enrolled'
        PROVE  FilesInv' /\ HeldInv' /\ OriginInv' /\ FitsIndependent'
    <3>1. enrolled
      BY <2>2, StepKinds
    <3>2. FilesInv /\ HeldInv /\ OriginInv /\ FitsIndependent
      BY <2>2, <3>1 DEF BatchInv
    <3>3. FilesInv'
      BY <2>2, <3>2, StepKinds, FilesStep
    <3>4. QED
      BY <2>2, <3>2, <3>3, HeldStays, OriginStays, FitsStay
  <2>3. ASSUME TypeOK, BatchInv, Next, ~enrolled' PROVE fits' = {}
    BY <2>3, DeletedStays DEF BatchInv
  <2>4. QED
    BY <2>1, <2>2, <2>3 DEF BatchInv
<1>3. QED
  BY <1>1, <1>2, TypeCorrect, PTL DEF Spec

\* However drains, trims and storing sessions interleave, two windows that are
\* stored share no reading but what a trim has left in two files.
THEOREM FitsSafety == Spec => []FitsIndependent
<1>1. BatchInv => FitsIndependent
  BY DEF BatchInv, FitsIndependent
<1>2. QED
  BY <1>1, BatchInvariant, PTL
=============================================================================
