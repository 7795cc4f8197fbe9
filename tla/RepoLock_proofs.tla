--------------------------- MODULE RepoLock_proofs ---------------------------
(***************************************************************************)
(* Safety of RepoLock for every set of backups, prunes and deletions, every*)
(* TTL, and whether or not Redis fails, transfers are cut or steps outlast *)
(* the TTLs.                                                               *)
(*                                                                         *)
(* TypeOK is inductive by itself.  The action properties need to know what *)
(* a pre-flight may still believe (SeenInv) and that the flag is present   *)
(* exactly while it has time left (FlagInv); that a transfer stays         *)
(* registered rests on the registry's key outliving the registration of a  *)
(* node whose TTL no other undercuts by more than half (KeyInv).           *)
(***************************************************************************)
EXTENDS RepoLock, TLAPS

\* A backup between its reads and its break either was told by Redis that
\* nobody is there, or has the newcomer in its unseen set.
SeenInv ==
    /\ \A b \in Backups :
          pc[b] \in {"checkWriters", "breakLock"} =>
              (owner \in Prunes => owner \in unseen[b])
    /\ \A b, w \in Backups :
          pc[b] = "breakLock" /\ Registered(w) => w \in unseen[b]

FlagInv == owner = NoOne <=> ownerLeft = 0

KeyInv ==
    \A b \in Backups :
        /\ reg[b] <= WriterTTL[b]
        /\ LongLived(b) => reg[b] <= registryLeft

\* Type correctness: every step of every actor keeps each variable in its set.
THEOREM TypeCorrect == Spec => []TypeOK
<1> USE RepoLockAssumption DEF TypeOK, Participants
<1>1. Init => TypeOK
  BY DEF Init, BackupPc
<1>2. TypeOK /\ [Next]_vars => TypeOK'
  <2> SUFFICES ASSUME TypeOK, [Next]_vars PROVE TypeOK'
    OBVIOUS
  <2> USE DEF BackupPc, PrunePc, DeleterPc, repoVars, redisVars, history
  <2>1. ASSUME NEW x \in Participants, BorgStep(x) PROVE TypeOK'
    BY <2>1 DEF BorgStep, BorgAcquire, BorgTimeout, BorgFinish, BorgKilled
  <2>2. ASSUME NEW b \in Backups, BackupStep(b) PROVE TypeOK'
    <3>1. CASE CheckMaintenance(b) \/ CheckWriters(b) \/ BreakLock(b)
      BY <3>1 DEF CheckMaintenance, CheckWriters, BreakLock
    <3>2. CASE Register(b) \/ WriterHeartbeat(b)
      BY <3>2 DEF Register, WriterHeartbeat, Announce, NoteUnseen
    <3>3. CASE StartRemote(b) \/ TransferEnds(b) \/ Disconnect(b)
      BY <3>3 DEF StartRemote, TransferEnds, Disconnect
    <3>4. CASE Unregister(b) \/ BackupCrash(b)
      BY <3>4 DEF Unregister, BackupCrash, Larger
    <3>5. QED
      BY <2>2, <3>1, <3>2, <3>3, <3>4 DEF BackupStep
  <2>3. ASSUME NEW p \in Prunes, PruneStep(p) PROVE TypeOK'
    <3>1. CASE Claim(p)
      BY <3>1 DEF Claim, NoteUnseen
    <3>2. CASE ListArchives(p) \/ HeartbeatCheck(p) \/ HeartbeatExtend(p)
      BY <3>2 DEF ListArchives, HeartbeatCheck, HeartbeatExtend
    <3>3. CASE StartStep(p) \/ StepEnds(p)
      BY <3>3 DEF StartStep, StepEnds
    <3>4. CASE Release(p) \/ PruneCrash(p)
      BY <3>4 DEF Release, PruneCrash
    <3>5. QED
      BY <2>3, <3>1, <3>2, <3>3, <3>4 DEF PruneStep
  <2>4. ASSUME NEW d \in Deleters, DeleterStep(d) PROVE TypeOK'
    BY <2>4 DEF DeleterStep, DeleteStart, DeleteNext
  <2>5. CASE Tick
    BY <2>5 DEF Tick, Less
  <2>6. CASE UNCHANGED vars
    BY <2>6 DEF vars
  <2>7. QED
    BY <2>1, <2>2, <2>3, <2>4, <2>5, <2>6 DEF Next
<1>3. QED
  BY <1>1, <1>2, PTL DEF Spec

\* What a pre-flight may believe about the announcements, at every moment.
LEMMA SeenInvariant == Spec => []SeenInv
<1> USE RepoLockAssumption DEF SeenInv, Registered, Participants
<1>1. Init => SeenInv
  BY DEF Init
<1>2. TypeOK /\ SeenInv /\ [Next]_vars => SeenInv'
  <2> SUFFICES ASSUME TypeOK, SeenInv, [Next]_vars PROVE SeenInv'
    OBVIOUS
  <2> USE DEF TypeOK, repoVars, redisVars, history
  <2>1. ASSUME NEW x \in Participants, BorgStep(x) PROVE SeenInv'
    BY <2>1 DEF BorgStep, BorgAcquire, BorgTimeout, BorgFinish, BorgKilled
  <2>2. ASSUME NEW b \in Backups, BackupStep(b) PROVE SeenInv'
    <3>1. CASE CheckMaintenance(b)
      BY <3>1 DEF CheckMaintenance, MaintenanceInProgress
    <3>2. CASE CheckWriters(b)
      BY <3>2 DEF CheckWriters, WriterInProgress
    <3>3. CASE BreakLock(b)
      BY <3>3 DEF BreakLock
    <3>4. CASE Register(b) \/ WriterHeartbeat(b)
      BY <3>4 DEF Register, WriterHeartbeat, Announce, NoteUnseen
    <3>5. CASE StartRemote(b) \/ TransferEnds(b) \/ Disconnect(b)
      BY <3>5 DEF StartRemote, TransferEnds, Disconnect
    <3>6. CASE Unregister(b)
      BY <3>6 DEF Unregister, Larger
    <3>7. CASE BackupCrash(b)
      BY <3>7 DEF BackupCrash, Larger
    <3>8. QED
      BY <2>2, <3>1, <3>2, <3>3, <3>4, <3>5, <3>6, <3>7 DEF BackupStep
  <2>3. ASSUME NEW p \in Prunes, PruneStep(p) PROVE SeenInv'
    <3>1. CASE Claim(p)
      BY <3>1 DEF Claim, NoteUnseen
    <3>2. CASE ListArchives(p) \/ HeartbeatCheck(p) \/ HeartbeatExtend(p)
      BY <3>2 DEF ListArchives, HeartbeatCheck, HeartbeatExtend
    <3>3. CASE StartStep(p) \/ StepEnds(p)
      BY <3>3 DEF StartStep, StepEnds
    <3>4. CASE Release(p) \/ PruneCrash(p)
      BY <3>4 DEF Release, PruneCrash
    <3>5. QED
      BY <2>3, <3>1, <3>2, <3>3, <3>4 DEF PruneStep
  <2>4. ASSUME NEW d \in Deleters, DeleterStep(d) PROVE SeenInv'
    BY <2>4 DEF DeleterStep, DeleteStart, DeleteNext
  <2>5. CASE Tick
    BY <2>5 DEF Tick, Less
  <2>6. CASE UNCHANGED vars
    BY <2>6 DEF vars
  <2>7. QED
    BY <2>1, <2>2, <2>3, <2>4, <2>5, <2>6 DEF Next
<1>3. QED
  BY <1>1, <1>2, TypeCorrect, PTL DEF Spec

\* A pre-flight never takes the lock of a running borg whose owner was
\* announced when the pre-flight looked.
THEOREM BreakSafety == Spec => BreakSparesAnnounced
<1>1. TypeOK /\ SeenInv /\ [Next]_vars =>
        [ \A b \in Backups, h \in Participants :
            (BreakLock(b) /\ lock = h /\ Holding(h) /\ Announced(h))
               => h \in unseen[b] ]_vars
  BY DEF SeenInv, BreakLock, Announced
<1>2. QED
  BY <1>1, TypeCorrect, SeenInvariant, PTL DEF Spec, BreakSparesAnnounced

\* The flag is present exactly while it has time left.
LEMMA FlagInvariant == Spec => []FlagInv
<1> USE RepoLockAssumption DEF FlagInv, Participants
<1>1. Init => FlagInv
  BY DEF Init
<1>2. TypeOK /\ FlagInv /\ [Next]_vars => FlagInv'
  <2> SUFFICES ASSUME TypeOK, FlagInv, [Next]_vars PROVE FlagInv'
    OBVIOUS
  <2> USE DEF TypeOK, repoVars, redisVars, history
  <2>1. ASSUME NEW x \in Participants, BorgStep(x) PROVE FlagInv'
    BY <2>1 DEF BorgStep, BorgAcquire, BorgTimeout, BorgFinish, BorgKilled
  <2>2. ASSUME NEW b \in Backups, BackupStep(b) PROVE FlagInv'
    <3>1. CASE CheckMaintenance(b) \/ CheckWriters(b) \/ BreakLock(b)
      BY <3>1 DEF CheckMaintenance, CheckWriters, BreakLock
    <3>2. CASE Register(b) \/ WriterHeartbeat(b)
      BY <3>2 DEF Register, WriterHeartbeat, Announce
    <3>3. CASE StartRemote(b) \/ TransferEnds(b) \/ Disconnect(b)
      BY <3>3 DEF StartRemote, TransferEnds, Disconnect
    <3>4. CASE Unregister(b) \/ BackupCrash(b)
      BY <3>4 DEF Unregister, BackupCrash
    <3>5. QED
      BY <2>2, <3>1, <3>2, <3>3, <3>4 DEF BackupStep
  <2>3. ASSUME NEW p \in Prunes, PruneStep(p) PROVE FlagInv'
    <3>1. CASE Claim(p)
      BY <3>1 DEF Claim
    <3>2. CASE ListArchives(p) \/ HeartbeatCheck(p)
      BY <3>2 DEF ListArchives, HeartbeatCheck
    <3>3. CASE HeartbeatExtend(p)
      BY <3>3 DEF HeartbeatExtend, MaintenanceInProgress
    <3>4. CASE StartStep(p) \/ StepEnds(p)
      BY <3>4 DEF StartStep, StepEnds
    <3>5. CASE Release(p) \/ PruneCrash(p)
      BY <3>5 DEF Release, PruneCrash
    <3>6. QED
      BY <2>3, <3>1, <3>2, <3>3, <3>4, <3>5 DEF PruneStep
  <2>4. ASSUME NEW d \in Deleters, DeleterStep(d) PROVE FlagInv'
    BY <2>4 DEF DeleterStep, DeleteStart, DeleteNext
  <2>5. CASE Tick
    BY <2>5 DEF Tick, Less
  <2>6. CASE UNCHANGED vars
    BY <2>6 DEF vars
  <2>7. QED
    BY <2>1, <2>2, <2>3, <2>4, <2>5, <2>6 DEF Next
<1>3. QED
  BY <1>1, <1>2, TypeCorrect, PTL DEF Spec

\* A prune's flag leaves it by its own release or crash, or by running out.
THEOREM FlagSafety == Spec => FlagLeavesOnlyItsOwner
<1> DEFINE OwnStep ==
      \A p \in Prunes :
         (owner = p /\ owner' # p)
            => \/ (ownerLeft = 1 /\ owner' = NoOne)
               \/ (Working(p) /\ pc'[p] = "done")
<1>1. TypeOK /\ FlagInv /\ [Next]_vars => [OwnStep]_vars
  <2> SUFFICES ASSUME TypeOK, FlagInv, Next PROVE OwnStep
    OBVIOUS
  <2> USE RepoLockAssumption DEF TypeOK, Participants, repoVars, redisVars, history
  <2>1. ASSUME NEW x \in Participants, BorgStep(x) PROVE owner' = owner
    BY <2>1 DEF BorgStep, BorgAcquire, BorgTimeout, BorgFinish, BorgKilled
  <2>2. ASSUME NEW b \in Backups, BackupStep(b) PROVE owner' = owner
    BY <2>2 DEF BackupStep, CheckMaintenance, CheckWriters, BreakLock, Register,
       StartRemote, WriterHeartbeat, TransferEnds, Disconnect, Unregister,
       BackupCrash
  <2>3. ASSUME NEW q \in Prunes, PruneStep(q) PROVE OwnStep
    <3>1. CASE Claim(q)
      BY <3>1 DEF Claim
    <3>2. CASE Release(q) \/ PruneCrash(q)
      BY <3>2 DEF Release, PruneCrash, Working
    <3>3. CASE ListArchives(q) \/ HeartbeatCheck(q) \/ HeartbeatExtend(q)
                 \/ StartStep(q) \/ StepEnds(q)
      BY <3>3 DEF ListArchives, HeartbeatCheck, HeartbeatExtend, StartStep,
         StepEnds
    <3>4. QED
      BY <2>3, <3>1, <3>2, <3>3 DEF PruneStep
  <2>4. ASSUME NEW d \in Deleters, DeleterStep(d) PROVE owner' = owner
    BY <2>4 DEF DeleterStep, DeleteStart, DeleteNext
  <2>5. CASE Tick
    BY <2>5 DEF Tick, FlagInv
  <2>6. QED
    BY <2>1, <2>2, <2>3, <2>4, <2>5 DEF Next
<1>2. QED
  BY <1>1, TypeCorrect, FlagInvariant, PTL DEF Spec, FlagLeavesOnlyItsOwner

\* A prune at work whose own TTL never ran out is the one the flag names, so two
\* prunes work on one repository only after a flag lapsed under one of them.
THEOREM MaintenanceIsExclusive == Spec => []ExclusiveMaintenance
<1> USE RepoLockAssumption DEF ExclusiveMaintenance, FlagInv, Working, Participants
<1>1. Init => ExclusiveMaintenance
  BY DEF Init
<1>2. TypeOK /\ FlagInv /\ ExclusiveMaintenance /\ [Next]_vars => ExclusiveMaintenance'
  <2> SUFFICES ASSUME TypeOK, FlagInv, ExclusiveMaintenance, [Next]_vars PROVE ExclusiveMaintenance'
    OBVIOUS
  <2> USE DEF TypeOK, repoVars, redisVars, history
  <2>1. ASSUME NEW x \in Participants, BorgStep(x) PROVE ExclusiveMaintenance'
    BY <2>1 DEF BorgStep, BorgAcquire, BorgTimeout, BorgFinish, BorgKilled
  <2>2. ASSUME NEW b \in Backups, BackupStep(b) PROVE ExclusiveMaintenance'
    <3>1. CASE CheckMaintenance(b) \/ CheckWriters(b) \/ BreakLock(b)
      BY <3>1 DEF CheckMaintenance, CheckWriters, BreakLock
    <3>2. CASE Register(b) \/ WriterHeartbeat(b)
      BY <3>2 DEF Register, WriterHeartbeat, Announce
    <3>3. CASE StartRemote(b) \/ TransferEnds(b) \/ Disconnect(b)
      BY <3>3 DEF StartRemote, TransferEnds, Disconnect
    <3>4. CASE Unregister(b) \/ BackupCrash(b)
      BY <3>4 DEF Unregister, BackupCrash
    <3>5. QED
      BY <2>2, <3>1, <3>2, <3>3, <3>4 DEF BackupStep
  <2>3. ASSUME NEW p \in Prunes, PruneStep(p) PROVE ExclusiveMaintenance'
    <3>1. CASE Claim(p)
      BY <3>1 DEF Claim
    <3>2. CASE ListArchives(p) \/ HeartbeatCheck(p)
      BY <3>2 DEF ListArchives, HeartbeatCheck
    <3>3. CASE HeartbeatExtend(p)
      BY <3>3 DEF HeartbeatExtend, MaintenanceInProgress
    <3>4. CASE StartStep(p) \/ StepEnds(p)
      BY <3>4 DEF StartStep, StepEnds
    <3>5. CASE Release(p) \/ PruneCrash(p)
      BY <3>5 DEF Release, PruneCrash
    <3>6. QED
      BY <2>3, <3>1, <3>2, <3>3, <3>4, <3>5 DEF PruneStep
  <2>4. ASSUME NEW d \in Deleters, DeleterStep(d) PROVE ExclusiveMaintenance'
    BY <2>4 DEF DeleterStep, DeleteStart, DeleteNext
  <2>5. CASE Tick
    BY <2>5 DEF Tick, Less
  <2>6. CASE UNCHANGED vars
    BY <2>6 DEF vars
  <2>7. QED
    BY <2>1, <2>2, <2>3, <2>4, <2>5, <2>6 DEF Next
<1>3. QED
  BY <1>1, <1>2, TypeCorrect, FlagInvariant, PTL DEF Spec

\* The registry's key outlives the registration of every backup whose TTL is at
\* most twice any other's.
LEMMA KeyInvariant == Spec => []KeyInv
<1> USE RepoLockAssumption DEF KeyInv, Participants
<1>0. \A b \in Backups : WriterTTL[b] \in Nat /\ WriterTTL[b] > 0
  OBVIOUS
<1>1. Init => KeyInv
  <2> SUFFICES ASSUME Init, NEW b \in Backups
               PROVE  reg[b] <= WriterTTL[b] /\ reg[b] <= registryLeft
    OBVIOUS
  <2>1. reg[b] = 0 /\ registryLeft = 0
    BY DEF Init
  <2>2. QED
    BY <2>1, <1>0
<1>2. TypeOK /\ KeyInv /\ [Next]_vars => KeyInv'
  <2> SUFFICES ASSUME TypeOK, KeyInv, [Next]_vars PROVE KeyInv'
    OBVIOUS
  <2> USE DEF TypeOK, repoVars, redisVars, history
  <2>1. ASSUME NEW x \in Participants, BorgStep(x) PROVE KeyInv'
    BY <2>1 DEF BorgStep, BorgAcquire, BorgTimeout, BorgFinish, BorgKilled
  <2>2. ASSUME NEW b \in Backups, BackupStep(b) PROVE KeyInv'
    <3>1. CASE CheckMaintenance(b) \/ CheckWriters(b) \/ BreakLock(b)
      BY <3>1 DEF CheckMaintenance, CheckWriters, BreakLock
    <3>2. CASE Register(b) \/ WriterHeartbeat(b)
      <4>1. CASE reg' = [reg EXCEPT ![b] = WriterTTL[b]]
                 /\ registryLeft' = 2 * WriterTTL[b]
        <5> SUFFICES ASSUME NEW c \in Backups
                     PROVE  /\ reg'[c] <= WriterTTL[c]
                            /\ LongLived(c) => reg'[c] <= registryLeft'
          OBVIOUS
        <5>1. reg'[c] <= WriterTTL[c] /\ reg'[c] \in Nat
          BY <4>1, <1>0
        <5>2. ASSUME LongLived(c) PROVE WriterTTL[c] <= 2 * WriterTTL[b]
          BY <5>2 DEF LongLived
        <5>3. QED
          BY <4>1, <5>1, <5>2, <1>0
      <4>2. CASE UNCHANGED <<reg, registryLeft>>
        BY <4>2
      <4>3. QED
        BY <3>2, <4>1, <4>2 DEF Register, WriterHeartbeat, Announce
    <3>3. CASE StartRemote(b) \/ TransferEnds(b) \/ Disconnect(b)
      BY <3>3 DEF StartRemote, TransferEnds, Disconnect
    <3>4. CASE Unregister(b) \/ BackupCrash(b)
      BY <3>4 DEF Unregister, BackupCrash
    <3>5. QED
      BY <2>2, <3>1, <3>2, <3>3, <3>4 DEF BackupStep
  <2>3. ASSUME NEW p \in Prunes, PruneStep(p) PROVE KeyInv'
    <3>1. CASE Claim(p)
      BY <3>1 DEF Claim
    <3>2. CASE ListArchives(p) \/ HeartbeatCheck(p)
      BY <3>2 DEF ListArchives, HeartbeatCheck
    <3>3. CASE HeartbeatExtend(p)
      BY <3>3 DEF HeartbeatExtend, MaintenanceInProgress
    <3>4. CASE StartStep(p) \/ StepEnds(p)
      BY <3>4 DEF StartStep, StepEnds
    <3>5. CASE Release(p) \/ PruneCrash(p)
      BY <3>5 DEF Release, PruneCrash
    <3>6. QED
      BY <2>3, <3>1, <3>2, <3>3, <3>4, <3>5 DEF PruneStep
  <2>4. ASSUME NEW d \in Deleters, DeleterStep(d) PROVE KeyInv'
    BY <2>4 DEF DeleterStep, DeleteStart, DeleteNext
  <2>5. CASE Tick
    BY <2>5 DEF Tick, Less
  <2>6. CASE UNCHANGED vars
    BY <2>6 DEF vars
  <2>7. QED
    BY <2>1, <2>2, <2>3, <2>4, <2>5, <2>6 DEF Next
<1>3. QED
  BY <1>1, <1>2, TypeCorrect, PTL DEF Spec

\* An attached transfer is in the registry until its own TTL runs out or Redis
\* fails it, for every mix of TTLs that no node undercuts by more than half.
THEOREM WriterStaysRegistered == Spec => []RegisteredWhileWriting
<1> USE RepoLockAssumption DEF RegisteredWhileWriting, KeyInv, Writing, Participants
<1>1. Init => RegisteredWhileWriting
  BY DEF Init
<1>2. TypeOK /\ KeyInv /\ RegisteredWhileWriting /\ [Next]_vars => RegisteredWhileWriting'
  <2> SUFFICES ASSUME TypeOK, KeyInv, RegisteredWhileWriting, [Next]_vars PROVE RegisteredWhileWriting'
    OBVIOUS
  <2> USE DEF TypeOK, repoVars, redisVars, history
  <2>1. ASSUME NEW x \in Participants, BorgStep(x) PROVE RegisteredWhileWriting'
    BY <2>1 DEF BorgStep, BorgAcquire, BorgTimeout, BorgFinish, BorgKilled
  <2>2. ASSUME NEW b \in Backups, BackupStep(b) PROVE RegisteredWhileWriting'
    <3>1. CASE CheckMaintenance(b) \/ CheckWriters(b) \/ BreakLock(b)
      BY <3>1 DEF CheckMaintenance, CheckWriters, BreakLock
    <3>2. CASE Register(b) \/ WriterHeartbeat(b)
      BY <3>2 DEF Register, WriterHeartbeat, Announce
    <3>3. CASE StartRemote(b) \/ TransferEnds(b) \/ Disconnect(b)
      BY <3>3 DEF StartRemote, TransferEnds, Disconnect
    <3>4. CASE Unregister(b) \/ BackupCrash(b)
      BY <3>4 DEF Unregister, BackupCrash
    <3>5. QED
      BY <2>2, <3>1, <3>2, <3>3, <3>4 DEF BackupStep
  <2>3. ASSUME NEW p \in Prunes, PruneStep(p) PROVE RegisteredWhileWriting'
    <3>1. CASE Claim(p)
      BY <3>1 DEF Claim
    <3>2. CASE ListArchives(p) \/ HeartbeatCheck(p)
      BY <3>2 DEF ListArchives, HeartbeatCheck
    <3>3. CASE HeartbeatExtend(p)
      BY <3>3 DEF HeartbeatExtend, MaintenanceInProgress
    <3>4. CASE StartStep(p) \/ StepEnds(p)
      BY <3>4 DEF StartStep, StepEnds
    <3>5. CASE Release(p) \/ PruneCrash(p)
      BY <3>5 DEF Release, PruneCrash
    <3>6. QED
      BY <2>3, <3>1, <3>2, <3>3, <3>4, <3>5 DEF PruneStep
  <2>4. ASSUME NEW d \in Deleters, DeleterStep(d) PROVE RegisteredWhileWriting'
    BY <2>4 DEF DeleterStep, DeleteStart, DeleteNext
  <2>5. CASE Tick
    BY <2>5 DEF Tick, Less
  <2>6. CASE UNCHANGED vars
    BY <2>6 DEF vars
  <2>7. QED
    BY <2>1, <2>2, <2>3, <2>4, <2>5, <2>6 DEF Next
<1>3. QED
  BY <1>1, <1>2, TypeCorrect, KeyInvariant, PTL DEF Spec
=============================================================================
