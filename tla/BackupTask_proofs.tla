-------------------------- MODULE BackupTask_proofs --------------------------
(***************************************************************************)
(* Safety of BackupTask for every number of runs, workers, ticks, operators*)
(* and viewers, every retry limit, and every mix of lost workers, second   *)
(* deliveries, expiries and other orchestrators.                           *)
(*                                                                         *)
(* TypeOK is inductive together with HoldInv (a busy worker has a run, a   *)
(* Stop under way has read one); Typing is the two of them.  The stop flag *)
(* names a stopped run (FlagInv), and a run shown as running is alive      *)
(* (AliveInv), which is stronger than EndedIsLogged: `finally` is no life. *)
(***************************************************************************)
EXTENDS BackupTask, TLAPS

HoldInv ==
    /\ \A w \in Workers : pc[w] # "idle" => task[w] \in Tasks
    /\ \A c \in Clients : at[c] = "ask" => raw[c] \in Tasks

Typing == TypeOK /\ HoldInv

FlagInv == cancel # NoTask => cancel \in stopped

\* A success about to be logged already has its row.
RowInv ==
    /\ LoggedSuccessHasRow
    /\ \A w \in Workers : pc[w] = "log" /\ out[w] = "success" => "SUCCESS" \in rows[task[w]]

\* A message of the run waits, or a worker is short of its `finally`.
Alive(t) ==
    \/ Queued(t)
    \/ \E w \in Workers :
          /\ task[w] = t
          /\ pc[w] \in {"check", "open", "launch", "transfer", "record", "log",
                       "retry"}

AliveInv == \A t \in Tasks \ (gaveUp \cup unlogged) : log[t] = "RUNNING" => Alive(t)

\* Typing is inductive.
LEMMA TypingInvariant == Spec => []Typing
<1> USE BackupTaskAssumption DEF Typing, WorkerPc, ClientPc, Outcomes, Interruptions, Messages
<1>1. Init => Typing
  BY DEF Init, TypeOK, HoldInv
<1>2. Typing /\ [Next]_vars => Typing'
  <2> SUFFICES ASSUME Typing, [Next]_vars PROVE Typing'
    OBVIOUS
  <2> USE DEF TypeOK, HoldInv, workerVars, recordVars, clientVars, clientRest,
              Goto, Move, ReadKey, Leave, Forget, AddFault, LogStatus
  <2>1. ASSUME NEW w \in Workers, NEW m \in queue, Begin(w, m) PROVE Typing'
    BY <2>1 DEF Begin
  <2>2. ASSUME NEW w \in Workers, WorkerStep(w) PROVE Typing'
    <3>1. CASE GiveUpStopped(w) \/ NotStopped(w)
      BY <3>1 DEF GiveUpStopped, NotStopped, CancelRequested, LogFailed
    <3>2. CASE Refuse(w) \/ Open(w)
      BY <3>2 DEF Refuse, Open, LogFailed
    <3>3. CASE Launch(w)
      BY <3>3 DEF Launch
    <3>4. CASE TransferEnds(w)
      BY <3>4 DEF TransferEnds
    <3>5. CASE PollCancel(w) \/ SoftLimit(w)
      BY <3>5 DEF PollCancel, SoftLimit, CancelRequested, LogFailed
    <3>6. CASE Record(w)
      BY <3>6 DEF Record, Final
    <3>7. CASE LogOutcome(w)
      BY <3>7 DEF LogOutcome, Final
    <3>8. CASE Retry(w)
      BY <3>8 DEF Retry, LogRunning
    <3>9. CASE Exhausted(w)
      BY <3>9 DEF Exhausted, LogRunning
    <3>10. CASE DropKey(w) \/ DropCancel(w) \/ StoreResult(w)
      BY <3>10 DEF DropKey, DropCancel, StoreResult
    <3>11. QED
      BY <2>2, <3>1, <3>2, <3>3, <3>4, <3>5, <3>6, <3>7, <3>8, <3>9, <3>10
      DEF WorkerStep
  <2>3. CASE NodeStep
    BY <2>3 DEF NodeStep, OrphanEnds, ForeignStarts, ForeignEnds
  <2>4. CASE FaultStep
    <3>1. ASSUME NEW w \in Workers, WorkerLost(w) \/ Redeliver(w) PROVE Typing'
      BY <3>1 DEF WorkerLost, Redeliver, Return
    <3>2. CASE KeyExpires \/ CancelExpires
      BY <3>2 DEF KeyExpires, CancelExpires
    <3>3. ASSUME NEW t \in Tasks, ResultExpires(t) PROVE Typing'
      BY <3>3 DEF ResultExpires
    <3>4. QED
      BY <2>4, <3>1, <3>2, <3>3 DEF FaultStep
  <2>5. ASSUME NEW c \in Clients, ClientStep(c) PROVE Typing'
    <3>1. CASE TickRead(c) \/ PressBackup(c) \/ ViewNode(c)
      BY <3>1 DEF TickRead, PressBackup, ViewNode
    <3>2. CASE Judge(c)
      BY <3>2 DEF Judge, Judging, AfterJudgement
    <3>3. CASE PressClear(c) \/ Decline(c) \/ TickSetKey(c)
      BY <3>3 DEF PressClear, Decline, TickSetKey
    <3>4. ASSUME NEW t \in Tasks, PressDispatch(c, t) \/ TickDispatch(c, t) PROVE Typing'
      BY <3>4 DEF PressDispatch, TickDispatch, Dispatch
    <3>5. CASE PressStop(c) \/ StopUnsetsKey(c)
      BY <3>5 DEF PressStop, StopUnsetsKey
    <3>6. CASE RequestCancel(c)
      BY <3>6 DEF RequestCancel
    <3>7. QED
      BY <2>5, <3>1, <3>2, <3>3, <3>4, <3>5, <3>6 DEF ClientStep
  <2>6. CASE UNCHANGED vars
    BY <2>6 DEF vars
  <2>7. QED
    BY <2>1, <2>2, <2>3, <2>4, <2>5, <2>6 DEF Next
<1>3. QED
  BY <1>1, <1>2, PTL DEF Spec

\* Type correctness: every variable stays in its set.
THEOREM TypeCorrect == Spec => []TypeOK
  BY TypingInvariant, PTL DEF Typing

\* The stop flag only ever names a run an operator has stopped.
LEMMA FlagInvariant == Spec => []FlagInv
<1> USE BackupTaskAssumption DEF FlagInv, Typing
<1>1. Init => FlagInv
  BY DEF Init, TypeOK, HoldInv
<1>2. Typing /\ FlagInv /\ [Next]_vars => FlagInv'
  <2> SUFFICES ASSUME Typing, FlagInv, [Next]_vars PROVE FlagInv'
    OBVIOUS
  <2> USE DEF TypeOK, HoldInv, workerVars, recordVars, clientVars, clientRest,
              Goto, Move, ReadKey, Leave, Forget, AddFault, LogStatus
  <2>1. ASSUME NEW w \in Workers, NEW m \in queue, Begin(w, m) PROVE FlagInv'
    BY <2>1 DEF Begin
  <2>2. ASSUME NEW w \in Workers, WorkerStep(w) PROVE FlagInv'
    <3>1. CASE GiveUpStopped(w) \/ NotStopped(w)
      BY <3>1 DEF GiveUpStopped, NotStopped, CancelRequested, LogFailed
    <3>2. CASE Refuse(w) \/ Open(w)
      BY <3>2 DEF Refuse, Open, LogFailed
    <3>3. CASE Launch(w)
      BY <3>3 DEF Launch
    <3>4. CASE TransferEnds(w)
      BY <3>4 DEF TransferEnds
    <3>5. CASE PollCancel(w) \/ SoftLimit(w)
      BY <3>5 DEF PollCancel, SoftLimit, CancelRequested, LogFailed
    <3>6. CASE Record(w)
      BY <3>6 DEF Record, Final
    <3>7. CASE LogOutcome(w)
      BY <3>7 DEF LogOutcome, Final
    <3>8. CASE Retry(w)
      BY <3>8 DEF Retry, LogRunning
    <3>9. CASE Exhausted(w)
      BY <3>9 DEF Exhausted, LogRunning
    <3>10. CASE DropKey(w) \/ DropCancel(w) \/ StoreResult(w)
      BY <3>10 DEF DropKey, DropCancel, StoreResult
    <3>11. QED
      BY <2>2, <3>1, <3>2, <3>3, <3>4, <3>5, <3>6, <3>7, <3>8, <3>9, <3>10
      DEF WorkerStep
  <2>3. CASE NodeStep
    BY <2>3 DEF NodeStep, OrphanEnds, ForeignStarts, ForeignEnds
  <2>4. CASE FaultStep
    <3>1. ASSUME NEW w \in Workers, WorkerLost(w) \/ Redeliver(w) PROVE FlagInv'
      BY <3>1 DEF WorkerLost, Redeliver, Return
    <3>2. CASE KeyExpires \/ CancelExpires
      BY <3>2 DEF KeyExpires, CancelExpires
    <3>3. ASSUME NEW t \in Tasks, ResultExpires(t) PROVE FlagInv'
      BY <3>3 DEF ResultExpires
    <3>4. QED
      BY <2>4, <3>1, <3>2, <3>3 DEF FaultStep
  <2>5. ASSUME NEW c \in Clients, ClientStep(c) PROVE FlagInv'
    <3>1. CASE TickRead(c) \/ PressBackup(c) \/ ViewNode(c)
      BY <3>1 DEF TickRead, PressBackup, ViewNode
    <3>2. CASE Judge(c)
      BY <3>2 DEF Judge, Judging, AfterJudgement
    <3>3. CASE PressClear(c) \/ Decline(c) \/ TickSetKey(c)
      BY <3>3 DEF PressClear, Decline, TickSetKey
    <3>4. ASSUME NEW t \in Tasks, PressDispatch(c, t) \/ TickDispatch(c, t) PROVE FlagInv'
      BY <3>4 DEF PressDispatch, TickDispatch, Dispatch
    <3>5. CASE PressStop(c) \/ StopUnsetsKey(c)
      BY <3>5 DEF PressStop, StopUnsetsKey
    <3>6. CASE RequestCancel(c)
      BY <3>6 DEF RequestCancel
    <3>7. QED
      BY <2>5, <3>1, <3>2, <3>3, <3>4, <3>5, <3>6 DEF ClientStep
  <2>6. CASE UNCHANGED vars
    BY <2>6 DEF vars
  <2>7. QED
    BY <2>1, <2>2, <2>3, <2>4, <2>5, <2>6 DEF Next
<1>3. QED
  BY <1>1, <1>2, TypingInvariant, PTL DEF Spec

\* A run is only given up or cut off as stopped when an operator named it.
THEOREM CancelSafety == Spec => CancelOnlyIfAsked
<1>1. Typing /\ FlagInv /\ [Next]_vars
        => [ \A w \in Workers :
               GiveUpStopped(w) \/ PollCancel(w) => task[w] \in stopped ]_vars
  BY BackupTaskAssumption
  DEF Typing, HoldInv, FlagInv, GiveUpStopped, PollCancel, CancelRequested
<1>2. QED
  BY <1>1, TypingInvariant, FlagInvariant, PTL DEF Spec, CancelOnlyIfAsked

\* Two transfers never run on the node together, and a transfer has its lock.
THEOREM TransfersExclude == Spec => []OneTransferOnNode
<1> USE BackupTaskAssumption DEF OneTransferOnNode, Typing
<1>1. Init => OneTransferOnNode
  BY DEF Init, TypeOK, HoldInv
<1>2. Typing /\ OneTransferOnNode /\ [Next]_vars => OneTransferOnNode'
  <2> SUFFICES ASSUME Typing, OneTransferOnNode, [Next]_vars PROVE OneTransferOnNode'
    OBVIOUS
  <2> USE DEF TypeOK, HoldInv, workerVars, recordVars, clientVars, clientRest,
              Goto, Move, ReadKey, Leave, Forget, AddFault, LogStatus
  <2>1. ASSUME NEW w \in Workers, NEW m \in queue, Begin(w, m) PROVE OneTransferOnNode'
    BY <2>1 DEF Begin
  <2>2. ASSUME NEW w \in Workers, WorkerStep(w) PROVE OneTransferOnNode'
    <3>1. CASE GiveUpStopped(w) \/ NotStopped(w)
      BY <3>1 DEF GiveUpStopped, NotStopped, CancelRequested, LogFailed
    <3>2. CASE Refuse(w) \/ Open(w)
      BY <3>2 DEF Refuse, Open, LogFailed
    <3>3. CASE Launch(w)
      BY <3>3 DEF Launch
    <3>4. CASE TransferEnds(w)
      BY <3>4 DEF TransferEnds
    <3>5. CASE PollCancel(w) \/ SoftLimit(w)
      BY <3>5 DEF PollCancel, SoftLimit, CancelRequested, LogFailed
    <3>6. CASE Record(w)
      BY <3>6 DEF Record, Final
    <3>7. CASE LogOutcome(w)
      BY <3>7 DEF LogOutcome, Final
    <3>8. CASE Retry(w)
      BY <3>8 DEF Retry, LogRunning
    <3>9. CASE Exhausted(w)
      BY <3>9 DEF Exhausted, LogRunning
    <3>10. CASE DropKey(w) \/ DropCancel(w) \/ StoreResult(w)
      BY <3>10 DEF DropKey, DropCancel, StoreResult
    <3>11. QED
      BY <2>2, <3>1, <3>2, <3>3, <3>4, <3>5, <3>6, <3>7, <3>8, <3>9, <3>10
      DEF WorkerStep
  <2>3. CASE NodeStep
    BY <2>3 DEF NodeStep, OrphanEnds, ForeignStarts, ForeignEnds
  <2>4. CASE FaultStep
    <3>1. ASSUME NEW w \in Workers, WorkerLost(w) \/ Redeliver(w) PROVE OneTransferOnNode'
      BY <3>1 DEF WorkerLost, Redeliver, Return
    <3>2. CASE KeyExpires \/ CancelExpires
      BY <3>2 DEF KeyExpires, CancelExpires
    <3>3. ASSUME NEW t \in Tasks, ResultExpires(t) PROVE OneTransferOnNode'
      BY <3>3 DEF ResultExpires
    <3>4. QED
      BY <2>4, <3>1, <3>2, <3>3 DEF FaultStep
  <2>5. ASSUME NEW c \in Clients, ClientStep(c) PROVE OneTransferOnNode'
    <3>1. CASE TickRead(c) \/ PressBackup(c) \/ ViewNode(c)
      BY <3>1 DEF TickRead, PressBackup, ViewNode
    <3>2. CASE Judge(c)
      BY <3>2 DEF Judge, Judging, AfterJudgement
    <3>3. CASE PressClear(c) \/ Decline(c) \/ TickSetKey(c)
      BY <3>3 DEF PressClear, Decline, TickSetKey
    <3>4. ASSUME NEW t \in Tasks, PressDispatch(c, t) \/ TickDispatch(c, t) PROVE OneTransferOnNode'
      BY <3>4 DEF PressDispatch, TickDispatch, Dispatch
    <3>5. CASE PressStop(c) \/ StopUnsetsKey(c)
      BY <3>5 DEF PressStop, StopUnsetsKey
    <3>6. CASE RequestCancel(c)
      BY <3>6 DEF RequestCancel
    <3>7. QED
      BY <2>5, <3>1, <3>2, <3>3, <3>4, <3>5, <3>6 DEF ClientStep
  <2>6. CASE UNCHANGED vars
    BY <2>6 DEF vars
  <2>7. QED
    BY <2>1, <2>2, <2>3, <2>4, <2>5, <2>6 DEF Next
<1>3. QED
  BY <1>1, <1>2, TypingInvariant, PTL DEF Spec

\* The row is written before the status that reports it.
LEMMA RowInvariant == Spec => []RowInv
<1> USE BackupTaskAssumption DEF RowInv, LoggedSuccessHasRow, Typing
<1>1. Init => RowInv
  BY DEF Init, TypeOK, HoldInv
<1>2. Typing /\ RowInv /\ [Next]_vars => RowInv'
  <2> SUFFICES ASSUME Typing, RowInv, [Next]_vars PROVE RowInv'
    OBVIOUS
  <2> USE DEF TypeOK, HoldInv, workerVars, recordVars, clientVars, clientRest,
              Goto, Move, ReadKey, Leave, Forget, AddFault, LogStatus
  <2>1. ASSUME NEW w \in Workers, NEW m \in queue, Begin(w, m) PROVE RowInv'
    BY <2>1 DEF Begin
  <2>2. ASSUME NEW w \in Workers, WorkerStep(w) PROVE RowInv'
    <3>1. CASE GiveUpStopped(w) \/ NotStopped(w)
      BY <3>1 DEF GiveUpStopped, NotStopped, CancelRequested, LogFailed
    <3>2. CASE Refuse(w) \/ Open(w)
      BY <3>2 DEF Refuse, Open, LogFailed
    <3>3. CASE Launch(w)
      BY <3>3 DEF Launch
    <3>4. CASE TransferEnds(w)
      BY <3>4 DEF TransferEnds
    <3>5. CASE PollCancel(w) \/ SoftLimit(w)
      BY <3>5 DEF PollCancel, SoftLimit, CancelRequested, LogFailed
    <3>6. CASE Record(w)
      BY <3>6 DEF Record, Final
    <3>7. CASE LogOutcome(w)
      BY <3>7 DEF LogOutcome, Final
    <3>8. CASE Retry(w)
      BY <3>8 DEF Retry, LogRunning
    <3>9. CASE Exhausted(w)
      BY <3>9 DEF Exhausted, LogRunning
    <3>10. CASE DropKey(w) \/ DropCancel(w) \/ StoreResult(w)
      BY <3>10 DEF DropKey, DropCancel, StoreResult
    <3>11. QED
      BY <2>2, <3>1, <3>2, <3>3, <3>4, <3>5, <3>6, <3>7, <3>8, <3>9, <3>10
      DEF WorkerStep
  <2>3. CASE NodeStep
    BY <2>3 DEF NodeStep, OrphanEnds, ForeignStarts, ForeignEnds
  <2>4. CASE FaultStep
    <3>1. ASSUME NEW w \in Workers, WorkerLost(w) \/ Redeliver(w) PROVE RowInv'
      BY <3>1 DEF WorkerLost, Redeliver, Return
    <3>2. CASE KeyExpires \/ CancelExpires
      BY <3>2 DEF KeyExpires, CancelExpires
    <3>3. ASSUME NEW t \in Tasks, ResultExpires(t) PROVE RowInv'
      BY <3>3 DEF ResultExpires
    <3>4. QED
      BY <2>4, <3>1, <3>2, <3>3 DEF FaultStep
  <2>5. ASSUME NEW c \in Clients, ClientStep(c) PROVE RowInv'
    <3>1. CASE TickRead(c) \/ PressBackup(c) \/ ViewNode(c)
      BY <3>1 DEF TickRead, PressBackup, ViewNode
    <3>2. CASE Judge(c)
      BY <3>2 DEF Judge, Judging, AfterJudgement
    <3>3. CASE PressClear(c) \/ Decline(c) \/ TickSetKey(c)
      BY <3>3 DEF PressClear, Decline, TickSetKey
    <3>4. ASSUME NEW t \in Tasks, PressDispatch(c, t) \/ TickDispatch(c, t) PROVE RowInv'
      BY <3>4 DEF PressDispatch, TickDispatch, Dispatch
    <3>5. CASE PressStop(c) \/ StopUnsetsKey(c)
      BY <3>5 DEF PressStop, StopUnsetsKey
    <3>6. CASE RequestCancel(c)
      BY <3>6 DEF RequestCancel
    <3>7. QED
      BY <2>5, <3>1, <3>2, <3>3, <3>4, <3>5, <3>6 DEF ClientStep
  <2>6. CASE UNCHANGED vars
    BY <2>6 DEF vars
  <2>7. QED
    BY <2>1, <2>2, <2>3, <2>4, <2>5, <2>6 DEF Next
<1>3. QED
  BY <1>1, <1>2, TypingInvariant, PTL DEF Spec

\* A TaskLog that reports success has a SUCCESS row in the history.
THEOREM SuccessHasRow == Spec => []LoggedSuccessHasRow
  BY RowInvariant, PTL DEF RowInv

\* A run shown as running waits for a worker or is short of its `finally`.
LEMMA AliveInvariant == Spec => []AliveInv
<1> USE BackupTaskAssumption DEF AliveInv, Alive, Queued, Typing
<1>1. Init => AliveInv
  BY DEF Init, TypeOK, HoldInv
<1>2. Typing /\ AliveInv /\ [Next]_vars => AliveInv'
  <2> SUFFICES ASSUME Typing, AliveInv, [Next]_vars PROVE AliveInv'
    OBVIOUS
  <2> USE DEF TypeOK, HoldInv, workerVars, recordVars, clientVars, clientRest,
              Goto, Move, ReadKey, Leave, Forget, AddFault, LogStatus
  <2>1. ASSUME NEW w \in Workers, NEW m \in queue, Begin(w, m) PROVE AliveInv'
    BY <2>1 DEF Begin
  <2>2. ASSUME NEW w \in Workers, WorkerStep(w) PROVE AliveInv'
    <3>1. CASE GiveUpStopped(w) \/ NotStopped(w)
      BY <3>1 DEF GiveUpStopped, NotStopped, CancelRequested, LogFailed
    <3>2. CASE Refuse(w) \/ Open(w)
      BY <3>2 DEF Refuse, Open, LogFailed
    <3>3. CASE Launch(w)
      BY <3>3 DEF Launch
    <3>4. CASE TransferEnds(w)
      BY <3>4 DEF TransferEnds
    <3>5. CASE PollCancel(w) \/ SoftLimit(w)
      BY <3>5 DEF PollCancel, SoftLimit, CancelRequested, LogFailed
    <3>6. CASE Record(w)
      BY <3>6 DEF Record, Final
    <3>7. CASE LogOutcome(w)
      BY <3>7 DEF LogOutcome, Final
    <3>8. CASE Retry(w)
      <4> DEFINE m == [task |-> task[w], tries |-> tries[w] + 1]
      <4>1. m \in queue' /\ queue \subseteq queue' /\ m.task = task[w]
        BY <3>8 DEF Retry
      <4>2. ASSUME NEW t \in Tasks \ (gaveUp \cup unlogged), log'[t] = "RUNNING", t # task[w]
            PROVE  Alive(t)'
        <5>1. log[t] = "RUNNING"
          BY <3>8, <4>2 DEF Retry, LogRunning
        <5>2. Alive(t)
          BY <5>1, <4>2
        <5>3. QED
          BY <5>2, <4>1, <4>2, <3>8 DEF Retry
      <4>3. ASSUME NEW t \in Tasks, t = task[w]
            PROVE  Alive(t)'
        BY <4>1, <4>3
      <4>4. gaveUp' = gaveUp /\ unlogged' = unlogged
        BY <3>8 DEF Retry
      <4>5. QED
        BY <4>2, <4>3, <4>4
    <3>9. CASE Exhausted(w)
      BY <3>9 DEF Exhausted, LogRunning
    <3>10. CASE DropKey(w) \/ DropCancel(w) \/ StoreResult(w)
      BY <3>10 DEF DropKey, DropCancel, StoreResult
    <3>11. QED
      BY <2>2, <3>1, <3>2, <3>3, <3>4, <3>5, <3>6, <3>7, <3>8, <3>9, <3>10
      DEF WorkerStep
  <2>3. CASE NodeStep
    BY <2>3 DEF NodeStep, OrphanEnds, ForeignStarts, ForeignEnds
  <2>4. CASE FaultStep
    <3>1. ASSUME NEW w \in Workers, WorkerLost(w) \/ Redeliver(w) PROVE AliveInv'
      <4> DEFINE m == [task |-> task[w], tries |-> tries[w]]
      <4>1. m \in queue' /\ queue \subseteq queue' /\ m.task = task[w]
        BY <3>1 DEF WorkerLost, Redeliver, Return
      <4>2. log' = log /\ gaveUp' = gaveUp /\ unlogged' = unlogged
        BY <3>1 DEF WorkerLost, Redeliver
      <4>3. \A v \in Workers : v # w => pc'[v] = pc[v] /\ task'[v] = task[v]
        BY <3>1 DEF WorkerLost, Redeliver
      <4>4. ASSUME NEW t \in Tasks \ (gaveUp \cup unlogged), log[t] = "RUNNING"
            PROVE  Alive(t)'
        <5>1. CASE t = task[w]
          BY <5>1, <4>1
        <5>2. CASE t # task[w]
          BY <5>2, <4>1, <4>2, <4>3, <4>4
        <5>3. QED
          BY <5>1, <5>2
      <4>5. QED
        BY <4>2, <4>4
    <3>2. CASE KeyExpires \/ CancelExpires
      BY <3>2 DEF KeyExpires, CancelExpires
    <3>3. ASSUME NEW t \in Tasks, ResultExpires(t) PROVE AliveInv'
      BY <3>3 DEF ResultExpires
    <3>4. QED
      BY <2>4, <3>1, <3>2, <3>3 DEF FaultStep
  <2>5. ASSUME NEW c \in Clients, ClientStep(c) PROVE AliveInv'
    <3>1. CASE TickRead(c) \/ PressBackup(c) \/ ViewNode(c)
      BY <3>1 DEF TickRead, PressBackup, ViewNode
    <3>2. CASE Judge(c)
      BY <3>2 DEF Judge, Judging, AfterJudgement
    <3>3. CASE PressClear(c) \/ Decline(c) \/ TickSetKey(c)
      BY <3>3 DEF PressClear, Decline, TickSetKey
    <3>4. ASSUME NEW t \in Tasks, PressDispatch(c, t) \/ TickDispatch(c, t) PROVE AliveInv'
      BY <3>4 DEF PressDispatch, TickDispatch, Dispatch
    <3>5. CASE PressStop(c) \/ StopUnsetsKey(c)
      BY <3>5 DEF PressStop, StopUnsetsKey
    <3>6. CASE RequestCancel(c)
      BY <3>6 DEF RequestCancel
    <3>7. QED
      BY <2>5, <3>1, <3>2, <3>3, <3>4, <3>5, <3>6 DEF ClientStep
  <2>6. CASE UNCHANGED vars
    BY <2>6 DEF vars
  <2>7. QED
    BY <2>1, <2>2, <2>3, <2>4, <2>5, <2>6 DEF Next
<1>3. QED
  BY <1>1, <1>2, TypingInvariant, PTL DEF Spec

\* A run that has ended is not shown as running, unless it spent its retries or
\* its last report was refused by the database.
THEOREM EndedRunsAreLogged == Spec => []EndedIsLogged
<1>1. Typing /\ AliveInv => EndedIsLogged
  BY DEF Typing, TypeOK, AliveInv, Alive, EndedIsLogged, Unfinished, HeldBy
<1>2. QED
  BY <1>1, TypingInvariant, AliveInvariant, PTL

----------------------------------------------------------------------------
(* BackupTask implements RunSlot, its fairness apart.                      *)

\* One scheduler and nothing else that reads, writes or loses the node's key:
\* presses, stops and looks, lost workers and redeliveries, expiries and a Redis
\* that does not answer each break RunSlot.
Undisturbed ==
    /\ \A c \in Ticks, d \in Ticks : c = d
    /\ Operators = {} /\ Viewers = {}
    /\ MaxFaults = 0 /\ ~RedisMayFail

\* A run is one message or in the hands of one worker.
OneTokenInv ==
    /\ \A m \in queue, n \in queue : m.task = n.task => m = n
    /\ \A m \in queue, w \in Workers : ~HeldBy(w, m.task)
    /\ \A v \in Workers, w \in Workers, t \in Tasks : HeldBy(v, t) /\ HeldBy(w, t) => v = w

\* A run under way has been drawn, and its result is not ready.
PendingInv ==
    /\ ready \subseteq drawn
    /\ \A t \in Tasks : Unfinished(t) => t \in drawn \ ready

\* The key names whoever has the node, or the tick is about to write it.
KeyInv ==
    \A t \in Tasks : Occupies(t) =>
        key = t \/ \E c \in Ticks : at[c] = "setKey" /\ raw[c] = t

\* What the tick has read is still so: only it gives the node to a run.
TickInv ==
    \A c \in Ticks, t \in Tasks : Occupies(t) =>
        /\ at[c] \in {"count", "admit", "setKey"} => raw[c] = t
        /\ at[c] # "dispatch"

SlotInv == OneTokenInv /\ PendingInv /\ KeyInv /\ TickInv

\* Only the tick has places to be.
Stations == \A c \in Ticks : at[c] \in {"idle", "count", "admit", "dispatch", "setKey"}

\* Who has the node, when one has.
OccupiedBy(t) == \A u \in Tasks : Occupies(u) <=> u = t

\* At most one run has the node: Occupant is the one, or nobody.
LEMMA OccupantIs == Undisturbed /\ KeyInv /\ TickInv => OccupiedBy(Occupant)
<1> SUFFICES ASSUME Undisturbed, KeyInv, TickInv PROVE OccupiedBy(Occupant)
  OBVIOUS
<1> USE DEF OccupiedBy
<1>1. CASE \E t \in Tasks : Occupies(t)
  <2>1. \A t \in Tasks, u \in Tasks : Occupies(t) /\ Occupies(u) => t = u
    BY DEF Undisturbed, KeyInv, TickInv
  <2>2. Occupant = CHOOSE u \in Tasks : Occupies(u)
    BY <1>1 DEF Occupant
  <2>3. Occupant \in Tasks /\ Occupies(Occupant)
    BY <1>1, <2>2
  <2>4. QED
    BY <2>1, <2>3
<1>2. CASE ~\E t \in Tasks : Occupies(t)
  BY <1>2, BackupTaskAssumption DEF Occupant, BackupTaskAssumption
<1>3. QED
  BY <1>1, <1>2

----------------------------------------------------------------------------
(* What a step does to who has the node.                                   *)

\* A worker goes on in run_backup_task.
Works(w) ==
    /\ pc[w] # "idle" /\ pc'[w] # "idle"
    /\ \A v \in Workers \ {w} : pc'[v] = pc[v]
    /\ pc[w] \in {"dropCancel", "finish"} => pc'[w] \in {"dropCancel", "finish"}
    /\ \/ key' = key
       \/ pc[w] = "dropKey" /\ pc'[w] = "dropCancel" /\ key' = NoTask
    /\ UNCHANGED <<queue, task, ready, at, raw, drawn>>

TickStep(c) ==
    TickRead(c) \/ Judge(c) \/ Decline(c) \/ TickSetKey(c) \/ \E t \in Tasks : TickDispatch(c, t)

\* A step of the node, or a result that lapses.
Apart == ready' \subseteq ready /\ UNCHANGED <<queue, pc, task, key, at, raw, drawn>>

LEMMA Kinds ==
  ASSUME Undisturbed, Typing, Stations, [Next]_vars
  PROVE  \/ \E w \in Workers, m \in queue : Begin(w, m)
         \/ \E w \in Workers : Works(w) \/ Retry(w) \/ StoreResult(w)
         \/ \E c \in Ticks : TickStep(c)
         \/ Apart
<1> USE BackupTaskAssumption
    DEF Undisturbed, Typing, TypeOK, workerVars, recordVars, clientVars,
        clientRest, Goto, Move, Leave, AddFault, LogStatus
<1>1. ASSUME NEW w \in Workers, WorkerStep(w) PROVE Works(w) \/ Retry(w) \/ StoreResult(w)
  <2> USE DEF Works
  <2>1. CASE GiveUpStopped(w) \/ NotStopped(w)
    BY <2>1 DEF GiveUpStopped, NotStopped
  <2>2. CASE Refuse(w) \/ Open(w)
    BY <2>2 DEF Refuse, Open
  <2>3. CASE Launch(w)
    BY <2>3 DEF Launch
  <2>4. CASE TransferEnds(w)
    BY <2>4 DEF TransferEnds
  <2>5. CASE PollCancel(w) \/ SoftLimit(w)
    BY <2>5 DEF PollCancel, SoftLimit
  <2>6. CASE Record(w) \/ LogOutcome(w)
    BY <2>6 DEF Record, LogOutcome
  <2>7. CASE Exhausted(w)
    BY <2>7 DEF Exhausted
  <2>8. CASE DropKey(w) \/ DropCancel(w)
    BY <2>8 DEF DropKey, DropCancel
  <2>9. QED
    BY <1>1, <2>1, <2>2, <2>3, <2>4, <2>5, <2>6, <2>7, <2>8 DEF WorkerStep
<1>2. CASE NodeStep
  BY <1>2 DEF NodeStep, OrphanEnds, ForeignStarts, ForeignEnds, Apart
<1>3. CASE FaultStep
  <2>1. ~KeyExpires /\ ~CancelExpires
    BY DEF KeyExpires, CancelExpires
  <2>2. \A w \in Workers : ~WorkerLost(w) /\ ~Redeliver(w)
    BY DEF WorkerLost, Redeliver
  <2>3. QED
    BY <1>3, <2>1, <2>2 DEF FaultStep, ResultExpires, Apart
<1>4. ASSUME NEW c \in Clients, ClientStep(c) PROVE c \in Ticks /\ TickStep(c)
  <2>1. c \in Ticks
    BY DEF Clients
  <2>2. QED
    BY <1>4, <2>1 DEF ClientStep, TickStep, Stations, PressBackup, ViewNode, PressClear,
                      PressDispatch, PressStop, RequestCancel, StopUnsetsKey
<1>5. CASE UNCHANGED vars
  BY <1>5 DEF vars, Apart
<1>6. QED
  BY <1>1, <1>2, <1>3, <1>4, <1>5 DEF Next

\* Nobody is given the node, and no run is drawn.
Shrinks == drawn' = drawn /\ \A t \in Tasks : Occupies(t)' => Occupies(t)

LEMMA BeginKeeps ==
  ASSUME Undisturbed, Typing, SlotInv, NEW w \in Workers, NEW m \in queue, Begin(w, m)
  PROVE  SlotInv' /\ Shrinks
<1> USE DEF Typing, TypeOK, Messages, SlotInv, clientVars, Goto
<1>1. /\ m.task \in Tasks /\ task' = [task EXCEPT ![w] = m.task] /\ pc' = [pc EXCEPT ![w] = "check"]
      /\ queue' = queue \ {m} /\ pc[w] = "idle" /\ key' = m.task
      /\ UNCHANGED <<ready, at, raw, drawn>>
  BY DEF Begin
<1>2. /\ \A v \in Workers \ {w} : \A t : HeldBy(v, t)' <=> HeldBy(v, t)
      /\ \A t : HeldBy(w, t)' <=> t = m.task
      /\ \A t : ~HeldBy(w, t)
  BY <1>1 DEF HeldBy
<1>3. \A t \in Tasks : Queued(t)' => Queued(t) /\ t # m.task
  BY <1>1 DEF Queued, OneTokenInv
<1>4. Queued(m.task)
  BY DEF Queued
<1>5. OneTokenInv'
  BY <1>1, <1>2, <1>4 DEF OneTokenInv
<1>6. \A t \in Tasks : Unfinished(t)' => Unfinished(t)
  BY <1>2, <1>3, <1>4 DEF Unfinished
<1>7. \A t \in Tasks : Occupies(t)' => Occupies(t)
  BY <1>1, <1>2, <1>3, <1>4 DEF Occupies
<1>8. OccupiedBy(m.task)
  BY <1>1, <1>4, OccupantIs DEF OccupiedBy, Occupies
<1>9. PendingInv' /\ KeyInv' /\ TickInv'
  BY <1>1, <1>6, <1>7, <1>8 DEF PendingInv, KeyInv, TickInv, OccupiedBy
<1>10. QED
  BY <1>1, <1>5, <1>7, <1>9 DEF Shrinks

LEMMA WorkKeeps ==
  ASSUME Undisturbed, Typing, SlotInv, NEW w \in Workers, Works(w)
  PROVE  SlotInv' /\ Shrinks
<1> USE DEF Typing, TypeOK, SlotInv, Works
<1>1. \A v \in Workers : \A t : HeldBy(v, t)' <=> HeldBy(v, t)
  BY DEF HeldBy
<1>2. \A t : Queued(t)' <=> Queued(t)
  BY DEF Queued
<1>3. OneTokenInv'
  BY <1>1 DEF OneTokenInv
<1>4. PendingInv'
  BY <1>1, <1>2 DEF PendingInv, Unfinished
<1>5. \A t \in Tasks : Occupies(t)' => Occupies(t)
  BY <1>1, <1>2 DEF Occupies
<1>6. ASSUME key' # key, NEW t \in Tasks PROVE ~Occupies(t)'
  <2>1. pc[w] = "dropKey" /\ pc'[w] = "dropCancel" /\ task[w] \in Tasks /\ HeldBy(w, task[w])
    BY <1>6 DEF HoldInv, HeldBy
  <2>2. Occupies(task[w])
    BY <2>1 DEF Occupies
  <2>3. OccupiedBy(task[w])
    BY <2>1, <2>2, OccupantIs DEF OccupiedBy
  <2>4. ~Queued(task[w])
    BY <2>1 DEF OneTokenInv, Queued
  <2>5. ~Occupies(task[w])'
    BY <2>1, <2>4, <1>1, <1>2 DEF Occupies, OneTokenInv
  <2>6. QED
    BY <2>3, <2>5, <1>5 DEF OccupiedBy
<1>7. KeyInv' /\ TickInv'
  BY <1>5, <1>6 DEF KeyInv, TickInv
<1>8. QED
  BY <1>3, <1>4, <1>5, <1>7 DEF Shrinks

LEMMA RetryKeeps ==
  ASSUME Undisturbed, Typing, SlotInv, NEW w \in Workers, Retry(w)
  PROVE  SlotInv' /\ Shrinks
<1> USE DEF Typing, TypeOK, SlotInv, Goto, Leave, clientVars
<1> DEFINE m == [task |-> task[w], tries |-> tries[w] + 1]
<1>1. /\ pc[w] = "retry" /\ task[w] \in Tasks /\ m.task = task[w]
      /\ queue' = queue \cup {m} /\ pc' = [pc EXCEPT ![w] = "idle"]
      /\ \A v \in Workers \ {w} : task'[v] = task[v]
      /\ ready' \subseteq ready
      /\ UNCHANGED <<key, at, raw, drawn>>
  BY DEF Retry, HoldInv
<1> HIDE DEF m
<1>2. /\ HeldBy(w, task[w]) /\ Occupies(task[w])
      /\ \A t : ~HeldBy(w, t)'
      /\ \A v \in Workers \ {w} : \A t : HeldBy(v, t)' <=> HeldBy(v, t)
  BY <1>1 DEF HeldBy, Occupies
<1>3. \A t \in Tasks : Queued(t)' <=> Queued(t) \/ t = task[w]
  BY <1>1 DEF Queued
<1>4. OneTokenInv'
  BY <1>1, <1>2 DEF OneTokenInv
<1>5. \A t \in Tasks : Unfinished(t)' => Unfinished(t)
  BY <1>2, <1>3 DEF Unfinished
<1>6. \A t \in Tasks : Occupies(t)' => Occupies(t)
  BY <1>1, <1>2, <1>3 DEF Occupies
<1>7. PendingInv' /\ KeyInv' /\ TickInv'
  BY <1>1, <1>5, <1>6 DEF PendingInv, KeyInv, TickInv
<1>8. QED
  BY <1>1, <1>4, <1>6, <1>7 DEF Shrinks

LEMMA StoreKeeps ==
  ASSUME Undisturbed, Typing, SlotInv, NEW w \in Workers, StoreResult(w)
  PROVE  SlotInv' /\ Shrinks
<1> USE DEF Typing, TypeOK, SlotInv, Goto, Leave, clientVars
<1>1. /\ pc[w] = "finish" /\ task[w] \in Tasks /\ pc' = [pc EXCEPT ![w] = "idle"]
      /\ \A v \in Workers \ {w} : task'[v] = task[v]
      /\ ready' = ready \cup {task[w]}
      /\ UNCHANGED <<queue, key, at, raw, drawn>>
  BY DEF StoreResult, HoldInv
<1>2. /\ HeldBy(w, task[w])
      /\ \A t : ~HeldBy(w, t)'
      /\ \A v \in Workers \ {w} : \A t : HeldBy(v, t)' <=> HeldBy(v, t)
      /\ \A t : Queued(t)' <=> Queued(t)
  BY <1>1 DEF HeldBy, Queued
<1>3. OneTokenInv'
  BY <1>1, <1>2 DEF OneTokenInv
<1>4. \A t \in Tasks : Unfinished(t)' => Unfinished(t) /\ t # task[w]
  BY <1>1, <1>2 DEF Unfinished, OneTokenInv, Queued
<1>5. \A t \in Tasks : Occupies(t)' => Occupies(t)
  BY <1>1, <1>2 DEF Occupies
<1>6. task[w] \in drawn
  BY <1>1, <1>2 DEF PendingInv, Unfinished
<1>7. PendingInv' /\ KeyInv' /\ TickInv'
  BY <1>1, <1>4, <1>5, <1>6 DEF PendingInv, KeyInv, TickInv
<1>8. QED
  BY <1>1, <1>3, <1>5, <1>7 DEF Shrinks

LEMMA ApartKeeps ==
  ASSUME SlotInv, Apart
  PROVE  SlotInv' /\ Shrinks
<1> USE DEF SlotInv, Apart
<1>1. /\ \A v \in Workers : \A t : HeldBy(v, t)' <=> HeldBy(v, t)
      /\ \A t : Queued(t)' <=> Queued(t)
  BY DEF HeldBy, Queued
<1>2. OneTokenInv' /\ PendingInv'
  BY <1>1 DEF OneTokenInv, PendingInv, Unfinished
<1>3. \A t \in Tasks : Occupies(t)' <=> Occupies(t)
  BY <1>1 DEF Occupies
<1>4. QED
  BY <1>2, <1>3 DEF KeyInv, TickInv, Shrinks

LEMMA TickKeeps ==
  ASSUME Undisturbed, Typing, Stations, SlotInv, NEW c \in Ticks,
         TickRead(c) \/ Judge(c) \/ Decline(c) \/ TickSetKey(c)
  PROVE  SlotInv' /\ Shrinks
<1> USE BackupTaskAssumption
    DEF Typing, TypeOK, SlotInv, Undisturbed, Clients, workerVars, clientRest, Move, Forget
<1>1. UNCHANGED <<queue, pc, task, ready, drawn>>
  BY DEF TickRead, Judge, Decline, TickSetKey
<1>2. /\ \A v \in Workers : \A t : HeldBy(v, t)' <=> HeldBy(v, t)
      /\ \A t : Queued(t)' <=> Queued(t)
  BY <1>1 DEF HeldBy, Queued
<1>3. OneTokenInv' /\ PendingInv'
  BY <1>1, <1>2 DEF OneTokenInv, PendingInv, Unfinished
<1>4. \A t \in Tasks : Occupies(t)' <=> Occupies(t)
  BY <1>1, <1>2 DEF Occupies
<1>5. \A t \in Tasks : Occupies(t) => t \notin ready
  BY DEF Occupies, PendingInv, Unfinished
<1> SUFFICES ASSUME NEW t \in Tasks, Occupies(t)
             PROVE  /\ key' = t \/ (at'[c] = "setKey" /\ raw'[c] = t)
                    /\ at'[c] \in {"count", "admit", "setKey"} => raw'[c] = t
                    /\ at'[c] # "dispatch"
  <2>1. \A d \in Ticks : d = c
    OBVIOUS
  <2>2. KeyInv' /\ TickInv'
    BY <1>4, <2>1 DEF KeyInv, TickInv
  <2>3. QED
    BY <1>1, <1>3, <1>4, <2>2 DEF Shrinks
<1>6. /\ key = t \/ (at[c] = "setKey" /\ raw[c] = t)
      /\ at[c] \in {"count", "admit", "setKey"} => raw[c] = t
      /\ at[c] # "dispatch"
  BY DEF KeyInv, TickInv
<1>7. CASE TickRead(c)
  <2>1. at[c] = "idle" /\ at'[c] = "count" /\ key' = key
    BY <1>7 DEF TickRead
  <2>2. ReadKey(c)
    BY <1>7 DEF TickRead
  <2>3. QED
    BY <1>6, <2>1, <2>2 DEF ReadKey
<1>8. CASE Judge(c)
  <2>1. at[c] \in {"count", "admit"} /\ raw[c] = t /\ t # NoTask /\ t \notin ready
    BY <1>5, <1>6, <1>8 DEF Judge, Judging, Stations
  <2>2. raw' = IF at[c] # "count" THEN [raw EXCEPT ![c] = NoTask] ELSE raw
    BY <1>8 DEF Judge
  <2>3. PICK stale \in {raw[c] \in ready} :
            /\ at' = [at EXCEPT ![c] = AfterJudgement(at[c], raw[c] # NoTask /\ ~stale)]
            /\ key' = IF stale THEN NoTask ELSE key
    BY <1>8 DEF Judge
  <2>4. key' = key /\ at' = [at EXCEPT ![c] = AfterJudgement(at[c], TRUE)]
    BY <2>1, <2>3
  <2>5. QED
    BY <1>6, <2>1, <2>2, <2>4 DEF AfterJudgement
<1>9. CASE Decline(c)
  BY <1>6, <1>9 DEF Decline
<1>10. CASE TickSetKey(c)
  BY <1>6, <1>10 DEF TickSetKey
<1>11. QED
  BY <1>7, <1>8, <1>9, <1>10

\* The tick gives a run the node, which nobody has.
LEMMA DispatchKeeps ==
  ASSUME Undisturbed, Typing, SlotInv, NEW c \in Ticks, NEW t \in Tasks, TickDispatch(c, t)
  PROVE  /\ SlotInv'
         /\ \A u \in Tasks : ~Occupies(u)
         /\ Occupies(t)'
         /\ t \notin drawn /\ drawn' = drawn \cup {t}
<1> USE DEF Typing, TypeOK, SlotInv, Undisturbed, Clients, Move, workerVars
<1> DEFINE m == [task |-> t, tries |-> 0]
<1>1. /\ at[c] = "dispatch" /\ t \notin drawn /\ drawn' = drawn \cup {t}
      /\ queue' = queue \cup {m} /\ m.task = t
      /\ at' = [at EXCEPT ![c] = "setKey"] /\ raw' = [raw EXCEPT ![c] = t]
      /\ UNCHANGED <<pc, task, key, ready>>
  BY DEF TickDispatch, Dispatch
<1> HIDE DEF m
<1>2. /\ \A v \in Workers : \A u : HeldBy(v, u)' <=> HeldBy(v, u)
      /\ \A u \in Tasks : Queued(u)' <=> Queued(u) \/ u = t
  BY <1>1 DEF HeldBy, Queued
<1>3. ~Unfinished(t) /\ t \notin ready
  BY <1>1 DEF PendingInv
<1>4. \A u \in Tasks : ~Occupies(u)
  BY <1>1 DEF TickInv
<1>5. OneTokenInv'
  BY <1>1, <1>2, <1>3 DEF OneTokenInv, Unfinished, Queued
<1>6. PendingInv'
  BY <1>1, <1>2, <1>3 DEF PendingInv, Unfinished
<1>7. \A u \in Tasks : Occupies(u)' <=> u = t
  BY <1>1, <1>2, <1>4 DEF Occupies
<1>8. KeyInv' /\ TickInv'
  BY <1>1, <1>7 DEF KeyInv, TickInv
<1>9. QED
  BY <1>1, <1>4, <1>5, <1>6, <1>7, <1>8

\* Stations are all a tick ever visits.
LEMMA StationsKept ==
  ASSUME Undisturbed, Typing, Stations, [Next]_vars
  PROVE  Stations'
<1> USE DEF Typing, TypeOK, Stations, Clients, Move
<1>1. CASE at' = at
  BY <1>1
<1>2. ASSUME NEW c \in Ticks, TickStep(c) PROVE Stations'
  <2>1. CASE TickRead(c) \/ Decline(c) \/ TickSetKey(c)
    BY <2>1 DEF TickRead, Decline, TickSetKey
  <2>2. CASE Judge(c)
    BY <2>2 DEF Judge, Judging, AfterJudgement
  <2>3. ASSUME NEW t \in Tasks, TickDispatch(c, t) PROVE Stations'
    BY <2>3 DEF TickDispatch
  <2>4. QED
    BY <1>2, <2>1, <2>2, <2>3 DEF TickStep
<1>3. QED
  BY <1>1, <1>2, Kinds DEF Begin, Works, Retry, StoreResult, Apart, clientVars

\* Every step keeps the invariant, and gives the node to a run that is new when
\* nobody has it, or takes it away, or neither.
LEMMA SlotKept ==
  ASSUME Undisturbed, Typing, Stations, SlotInv, [Next]_vars
  PROVE  /\ SlotInv'
         /\ \/ Shrinks
            \/ \E t \in Tasks : /\ \A u \in Tasks : ~Occupies(u)
                                /\ Occupies(t)'
                                /\ t \notin drawn /\ drawn' = drawn \cup {t}
<1> DEFINE Gives(t) == /\ \A u \in Tasks : ~Occupies(u)
                       /\ Occupies(t)'
                       /\ t \notin drawn /\ drawn' = drawn \cup {t}
<1>1. ASSUME NEW w \in Workers, NEW m \in queue, Begin(w, m) PROVE SlotInv' /\ Shrinks
  BY <1>1, BeginKeeps
<1>2. ASSUME NEW w \in Workers, Works(w) \/ Retry(w) \/ StoreResult(w)
      PROVE  SlotInv' /\ Shrinks
  BY <1>2, WorkKeeps, RetryKeeps, StoreKeeps
<1>3. CASE Apart
  BY <1>3, ApartKeeps
<1>4. ASSUME NEW c \in Ticks, TickStep(c)
      PROVE  SlotInv' /\ (Shrinks \/ \E t \in Tasks : Gives(t))
  <2>1. ASSUME NEW t \in Tasks, TickDispatch(c, t) PROVE SlotInv' /\ Gives(t)
    BY <2>1, DispatchKeeps
  <2>2. QED
    BY <1>4, <2>1, TickKeeps DEF TickStep
<1>5. QED
  BY <1>1, <1>2, <1>3, <1>4, Kinds

\* One scheduler, undisturbed, gives the node to one run at a time, each once.
THEOREM ImplementsSlot == Undisturbed => (Spec => Slot!Init /\ [][Slot!Next]_Slot!vars)
<1> SUFFICES ASSUME Undisturbed PROVE Spec => Slot!Init /\ [][Slot!Next]_Slot!vars
  OBVIOUS
<1> DEFINE Inv == Stations /\ SlotInv
<1>1. Init => Inv
  <2> SUFFICES ASSUME Init PROVE Inv
    OBVIOUS
  <2>1. \A t : ~Queued(t) /\ \A w \in Workers : ~HeldBy(w, t)
    BY DEF Init, Queued, HeldBy
  <2>2. \A t : ~Unfinished(t) /\ ~Occupies(t)
    BY <2>1 DEF Unfinished, Occupies
  <2>3. Stations
    BY DEF Init, Stations, Clients
  <2>4. SlotInv
    BY <2>1, <2>2 DEF Init, SlotInv, OneTokenInv, PendingInv, KeyInv, TickInv
  <2>5. QED
    BY <2>3, <2>4
<1>2. Init => Slot!Init
  <2> SUFFICES ASSUME Init PROVE Slot!Init
    OBVIOUS
  <2>1. \A t \in Tasks : ~Occupies(t)
    BY DEF Init, Queued, HeldBy, Occupies
  <2>2. QED
    BY <2>1 DEF Init, Occupant, Slot!Init
<1>3. Typing /\ Inv /\ [Next]_vars => Inv'
  BY StationsKept, SlotKept
<1>4. SlotInv => OccupiedBy(Occupant)
  BY OccupantIs DEF SlotInv
<1>5. Typing /\ Inv /\ OccupiedBy(Occupant) /\ OccupiedBy(Occupant)' /\ [Next]_vars
         => [Slot!Next]_Slot!vars
  <2> SUFFICES ASSUME Typing, Inv, OccupiedBy(Occupant), OccupiedBy(Occupant)', [Next]_vars
               PROVE  [Slot!Next]_Slot!vars
    OBVIOUS
  <2> USE DEF Slot!Next, Slot!vars, Slot!Begin, Slot!End
  <2>1. Occupant \in Tasks \cup {NoTask} /\ Occupant' \in Tasks \cup {NoTask}
    BY DEF Occupant
  <2>2. CASE Shrinks
    BY <2>1, <2>2, BackupTaskAssumption DEF Shrinks, OccupiedBy
  <2>3. ASSUME NEW t \in Tasks, \A u \in Tasks : ~Occupies(u), Occupies(t)',
               t \notin drawn, drawn' = drawn \cup {t}
        PROVE  Slot!Begin(t)
    BY <2>1, <2>3, BackupTaskAssumption DEF OccupiedBy
  <2>4. QED
    BY <2>2, <2>3, SlotKept
<1>6. QED
  BY <1>1, <1>2, <1>3, <1>4, <1>5, TypingInvariant, PTL DEF Spec
=============================================================================
