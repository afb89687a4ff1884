------------------------- MODULE OwnedProcessProofs -------------------------
(***************************************************************************)
(* What holds of an OwnedProcess for any streams, any launches and every   *)
(* fault the model has.                                                    *)
(***************************************************************************)
EXTENDS OwnedProcess, FiniteSetTheorems, TLAPS

----------------------------------------------------------------------------
(* Types, by the part of the process that takes the step. *)

LEMMA SettingFailures == setting \in Settings => setting.failures \in Nat
  BY ProcessAssumption

LEMMA Capacity == OutputCapacity \in Nat /\ OutputCapacity > 0
  BY ProcessAssumption

LEMMA InitTypes == ProcessInit => ProcessTypeOK
<1> SUFFICES ASSUME ProcessInit PROVE ProcessTypeOK
  OBVIOUS
<1>1. LauncherType /\ ChildType /\ ReaderType /\ PipeType
  BY DEF ProcessInit, SettingUp, LauncherType, ChildType, ReaderType, PipeType
<1>2. OutputType
  BY Capacity DEF ProcessInit, OutputType
<1>5. EndType /\ StopType
  BY DEF ProcessInit, EndType, StopType
<1>6. KeeperType
  BY DEF ProcessInit, KeeperType
<1>3. ActionType /\ StatusType /\ CallType
  BY DEF ProcessInit, ActionType, StatusType, CallType, Status, Pending, Kinds
<1>4. FailureType
  BY SettingFailures DEF ProcessInit, FailureType
<1>7. QED
  BY <1>1, <1>2, <1>3, <1>4, <1>5, <1>6 DEF ProcessInit, ProcessTypeOK

\* What a step leaves alone keeps its type.
LEMMA UnchangedTypes ==
  ASSUME ProcessTypeOK, setting' = setting
  PROVE  /\ (setting \in Settings)'
         /\ UNCHANGED launchVars => LauncherType'
         /\ UNCHANGED childVars => ChildType'
         /\ UNCHANGED readerVars => ReaderType'
         /\ UNCHANGED pipeVars => PipeType'
         /\ UNCHANGED outputVars => OutputType'
         /\ UNCHANGED endVars => EndType'
         /\ UNCHANGED stopVars => StopType'
         /\ UNCHANGED keeper => KeeperType'
         /\ UNCHANGED actionVars => ActionType'
         /\ UNCHANGED failureVars => FailureType'
         /\ UNCHANGED <<lifecycle, resultDelivered>> => StatusType'
         /\ UNCHANGED callVars => CallType'
<1>1. /\ (setting \in Settings)'
      /\ UNCHANGED launchVars => LauncherType'
      /\ UNCHANGED childVars => ChildType'
      /\ UNCHANGED readerVars => ReaderType'
      /\ UNCHANGED pipeVars => PipeType'
  BY DEF ProcessTypeOK, launchVars, childVars, readerVars, pipeVars, LauncherType, ChildType,
         ReaderType, PipeType
<1>2. /\ UNCHANGED outputVars => OutputType'
      /\ UNCHANGED endVars => EndType'
      /\ UNCHANGED stopVars => StopType'
      /\ UNCHANGED keeper => KeeperType'
  BY DEF ProcessTypeOK, outputVars, endVars, stopVars, OutputType, EndType, StopType, KeeperType
<1>3. /\ UNCHANGED actionVars => ActionType'
      /\ UNCHANGED failureVars => FailureType'
      /\ UNCHANGED <<lifecycle, resultDelivered>> => StatusType'
      /\ UNCHANGED callVars => CallType'
  BY DEF ProcessTypeOK, actionVars, failureVars, callVars, ActionType, FailureType, StatusType,
         CallType, Actions
<1>4. QED
  BY <1>1, <1>2, <1>3

LEMMA FaultTypes ==
  ASSUME ProcessTypeOK, setting' = setting, NEW what,
         NoFault \/ Fails(what) \/ Interrupts(what)
  PROVE  FailureType'
<1>1. setting.failures \in Nat
  BY SettingFailures DEF ProcessTypeOK
<1>2. UNCHANGED failureVars \/ Fault(what, "error") \/ Fault(what, "interruption")
  BY DEF NoFault, Fails, Interrupts
<1>3. (faults \in 0..setting.failures)'
  BY <1>1, <1>2 DEF ProcessTypeOK, FailureType, failureVars, Fault
<1>4. (ledger \subseteq Kinds)'
  BY <1>2 DEF ProcessTypeOK, FailureType, failureVars, Fault, Kinds
<1>5. QED
  BY <1>3, <1>4 DEF FailureType

LEMMA OutcomeTypes ==
  ASSUME EndType, UNCHANGED toldEnd, NEW s, NEW o \in Terminals,
         SetOutcome(s, o) \/ AbortAcquired \/ UNCHANGED streamOutcome
  PROVE  EndType'
  BY DEF EndType, SetOutcome, AbortAcquired, Terminals

LEMMA RequestTypes ==
  ASSUME StopType, EndType, UNCHANGED toldEnd, NEW why \in {"natural", "abnormal"},
         RequestStop(why)
  PROVE  StopType' /\ EndType'
<1>1. StopType'
  BY DEF StopType, RequestStop, stopVars
<1>2. UNCHANGED streamOutcome \/ AbortAcquired
  BY DEF RequestStop
<1>3. QED
  BY <1>1, <1>2, OutcomeTypes DEF Terminals

LEMMA LaunchTypes ==
  ASSUME ProcessTypeOK, Launch
  PROVE  ProcessTypeOK'
<1> USE DEF ProcessTypeOK
<1>1. CASE Prepare
  <2>1. setting' = setting
    BY <1>1 DEF Prepare
  <2>2. LauncherType' /\ ChildType'
    BY <1>1 DEF Prepare, Call, LauncherType, ChildType, SettingUp
  <2>3. StopType' /\ EndType' /\ CallType'
    BY <1>1, <2>1, RequestTypes, UnchangedTypes DEF Prepare, Call, NoCall, CallType, endVars
  <2>4. ActionType'
    BY <1>1, <2>1 DEF Prepare, ActionType, Actions
  <2>5. FailureType'
    BY <1>1, <2>1, FaultTypes DEF Prepare
  <2>6. QED
    BY <1>1, <2>1, <2>2, <2>3, <2>4, <2>5, UnchangedTypes DEF Prepare
<1>2. CASE Factory
  <2>1. setting' = setting
    BY <1>2 DEF Factory
  <2>2. LauncherType' /\ ChildType'
    BY <1>2 DEF Factory, Call, LauncherType, ChildType, SettingUp
  <2>4. PipeType'
    BY <1>2 DEF Factory, PipeType
  <2>3. StopType' /\ EndType' /\ CallType'
    BY <1>2, <2>1, RequestTypes, UnchangedTypes DEF Factory, Call, NoCall, CallType, endVars
  <2>5. FailureType'
    BY <1>2, <2>1, FaultTypes DEF Factory
  <2>6. QED
    BY <1>2, <2>1, <2>2, <2>3, <2>4, <2>5, UnchangedTypes DEF Factory
<1>3. CASE Transfer
  <2>1. LauncherType'
    BY <1>3 DEF Transfer, LauncherType, SettingUp
  <2>2. QED
    BY <1>3, <2>1, UnchangedTypes DEF Transfer
<1>4. CASE StartReader
  <2>1. LauncherType' /\ ReaderType'
    BY <1>4 DEF StartReader, LauncherType, ReaderType, SettingUp
  <2>2. QED
    BY <1>4, <2>1, UnchangedTypes DEF StartReader
<1>5. CASE KnowReader
  <2>1. setting' = setting
    BY <1>5 DEF KnowReader
  <2>2. LauncherType' /\ ReaderType'
    BY <1>5 DEF KnowReader, Call, LauncherType, ReaderType, SettingUp
  <2>3. StopType' /\ EndType' /\ CallType'
    BY <1>5, <2>1, RequestTypes, UnchangedTypes DEF KnowReader, Call, NoCall, CallType, endVars
  <2>4. FailureType'
    BY <1>5, <2>1, FaultTypes DEF KnowReader
  <2>5. QED
    BY <1>5, <2>1, <2>2, <2>3, <2>4, UnchangedTypes DEF KnowReader
<1>6. CASE FailSetup
  <2>1. setting' = setting
    BY <1>6 DEF FailSetup
  <2>2. LauncherType'
    BY <1>6 DEF FailSetup, Call, LauncherType, SettingUp
  <2>3. StopType' /\ EndType' /\ CallType'
    BY <1>6, <2>1, RequestTypes DEF FailSetup, Call, CallType
  <2>4. FailureType'
    BY <1>6, <2>1, FaultTypes DEF FailSetup
  <2>5. QED
    BY <1>6, <2>1, <2>2, <2>3, <2>4, UnchangedTypes DEF FailSetup
<1>7. CASE EndLaunch
  <2>1. LauncherType' /\ StatusType'
    BY <1>7 DEF EndLaunch, LauncherType, StatusType, SettingUp
  <2>2. QED
    BY <1>7, <2>1, UnchangedTypes DEF EndLaunch
<1>8. QED
  BY <1>1, <1>2, <1>3, <1>4, <1>5, <1>6, <1>7 DEF Launch

LEMMA ReaderTypes ==
  ASSUME ProcessTypeOK, NEW s \in Streams, ReaderStep(s)
  PROVE  ProcessTypeOK'
<1> USE DEF ProcessTypeOK
<1>0. ASSUME ReaderUnchanged
      PROVE  /\ setting' = setting
             /\ LauncherType' /\ ChildType' /\ PipeType' /\ KeeperType' /\ ActionType'
             /\ StatusType' /\ CallType'
             /\ UNCHANGED <<readerStarted, dispatched, toldEnd>>
  BY <1>0, UnchangedTypes DEF ReaderUnchanged
<1>r. ASSUME UNCHANGED readerStarted,
             NEW p \in {"read", "put", "failed", "finish", "stopped"}, ReaderMoves(s, p)
      PROVE  ReaderType'
  BY <1>r DEF ReaderType, ReaderMoves
<1>o. ASSUME UNCHANGED <<output, readCount, dispatched>> PROVE OutputType'
  BY <1>o DEF OutputType
<1>e. ASSUME UNCHANGED <<streamOutcome, toldEnd>> PROVE EndType'
  BY <1>e DEF EndType
<1>t. Terminals = {"EOF", "READ_FAILED", "ABORTED"}
  BY DEF Terminals
<1>1. CASE FirstRead(s)
  BY <1>1, <1>0, <1>r, <1>o, <1>e, UnchangedTypes DEF FirstRead
<1>2. CASE ReadChunk(s)
  <2>1. OutputType'
    BY <1>2, <1>0 DEF ReadChunk, OutputType
  <2>2. QED
    BY <1>2, <2>1, <1>0, <1>r, <1>e, UnchangedTypes DEF ReadChunk
<1>3. CASE ReadNothing(s)
  BY <1>3, <1>0, <1>r, <1>o, <1>e, UnchangedTypes DEF ReadNothing, ReadsOn
<1>4. CASE ReadEnd(s)
  <2>1. EndType'
    BY <1>4, <1>0, <1>t, OutcomeTypes DEF ReadEnd
  <2>2. QED
    BY <1>4, <2>1, <1>0, <1>r, <1>o, UnchangedTypes DEF ReadEnd
<1>5. CASE ReadFails(s)
  <2>1. EndType'
    BY <1>5, <1>0, <1>t, OutcomeTypes DEF ReadFails
  <2>2. FailureType'
    BY <1>5, <1>0, FaultTypes DEF ReadFails
  <2>3. QED
    BY <1>5, <2>1, <2>2, <1>0, <1>r, <1>o, UnchangedTypes DEF ReadFails
<1>6. CASE Put(s)
  <2>1. OutputType'
    <3>1. CASE output' = output
      BY <3>1, <1>6, <1>0 DEF Put, OutputType
    <3>2. CASE output' = Append(output, s) /\ ~(Len(output) >= OutputCapacity)
      BY <3>2, <1>6, <1>0, Capacity DEF Put, OutputType
    <3>3. QED
      BY <3>1, <3>2, <1>6 DEF Put
  <2>2. QED
    BY <1>6, <2>1, <1>0, <1>r, <1>e, UnchangedTypes DEF Put, ReadsOn
<1>7. CASE FailedReaderStops(s)
  <2>1. StopType' /\ EndType'
    BY <1>7, <1>0, RequestTypes DEF FailedReaderStops
  <2>2. QED
    BY <1>7, <2>1, <1>0, <1>r, <1>o, UnchangedTypes DEF FailedReaderStops
<1>8. CASE FinishReader(s)
  <2>1. EndType'
    BY <1>8, <1>0, <1>t, OutcomeTypes DEF FinishReader
  <2>2. QED
    BY <1>8, <2>1, <1>0, <1>r, <1>o, UnchangedTypes DEF FinishReader
<1>9. QED
  BY <1>1, <1>2, <1>3, <1>4, <1>5, <1>6, <1>7, <1>8 DEF ReaderStep

LEMMA KeeperTypes ==
  ASSUME ProcessTypeOK, KeeperStep \/ CheckDeadline
  PROVE  ProcessTypeOK'
<1> USE DEF ProcessTypeOK
<1>0. ASSUME KeeperUnchanged
      PROVE  /\ setting' = setting
             /\ LauncherType' /\ ReaderType' /\ OutputType' /\ CallType'
             /\ UNCHANGED <<child, pipes, toldEnd, resultDelivered>>
  BY <1>0, UnchangedTypes DEF KeeperUnchanged
<1>k. ASSUME NEW p \in {"policy", "stage", "observe stage", "cancel", "await termination",
                        "await kill", "observe", "late", "gone"},
             KeeperGoes(p)
      PROVE  KeeperType'
  BY <1>k DEF KeeperType, KeeperGoes
<1>n. ASSUME NextStage PROVE KeeperType'
  <2>1. keeper.stage \in Nat \ {0}
    BY DEF KeeperType
  <2>2. keeper.stage + 1 \in Nat \ {0}
    BY <2>1
  <2>3. QED
    BY <2>2, <1>n DEF KeeperType, NextStage
<1>c. ASSUME UNCHANGED <<child, childReaped>> PROVE ChildType'
  BY <1>c DEF ChildType
<1>p. ASSUME UNCHANGED <<pipes, releasedPipes>> PROVE PipeType'
  BY <1>p DEF PipeType
<1>e. ASSUME UNCHANGED <<streamOutcome, toldEnd>> PROVE EndType'
  BY <1>e DEF EndType
<1>s. ASSUME UNCHANGED <<lifecycle, resultDelivered>> PROVE StatusType'
  BY <1>s DEF StatusType
<1>1. CASE Supervise
  BY <1>1, <1>0, <1>k, <1>c, <1>p, <1>e, <1>s, UnchangedTypes DEF Supervise
<1>2. CASE CheckDeadline
  <2>1. StopType' /\ EndType'
    BY <1>2, <1>0, RequestTypes DEF CheckDeadline
  <2>2. QED
    BY <1>2, <2>1, <1>0, <1>c, <1>p, <1>s, UnchangedTypes DEF CheckDeadline
<1>3. CASE EnterStage
  BY <1>3, <1>0, <1>k, <1>n, <1>c, <1>p, <1>e, <1>s, UnchangedTypes DEF EnterStage
<1>4. CASE StartStage
  <2>1. ActionType'
    BY <1>4, <1>0 DEF StartStage, Engage, ActionType, Actions
  <2>2. FailureType'
    BY <1>4, <1>0, FaultTypes DEF StartStage
  <2>3. QED
    BY <1>4, <2>1, <2>2, <1>0, <1>k, <1>n, <1>c, <1>p, <1>e, <1>s, UnchangedTypes DEF StartStage
<1>5. CASE ObserveStage
  <2>1. ActionType'
    BY <1>5, <1>0 DEF ObserveStage, ActionType, Actions
  <2>2. FailureType'
    BY <1>5, <1>0, FaultTypes, UnchangedTypes DEF ObserveStage
  <2>3. KeeperType'
    BY <1>5, <1>0, <1>n, UnchangedTypes DEF ObserveStage
  <2>4. QED
    BY <1>5, <2>1, <2>2, <2>3, <1>0, <1>c, <1>p, <1>e, <1>s, UnchangedTypes DEF ObserveStage
<1>6. CASE CancelAll
  <2>1. ActionType'
    BY <1>6, <1>0 DEF CancelAll, Engage, ActionType, Actions
  <2>2. FailureType'
    BY <1>6, <1>0, FaultTypes DEF CancelAll
  <2>3. EndType'
    BY <1>6, <1>0, OutcomeTypes DEF CancelAll, Terminals
  <2>4. StopType'
    BY <1>6 DEF CancelAll, StopType
  <2>5. QED
    BY <1>6, <2>1, <2>2, <2>3, <2>4, <1>0, <1>k, <1>c, <1>p, <1>s, UnchangedTypes DEF CancelAll
<1>7. CASE AwaitTermination
  <2>1. ChildType'
    BY <1>7, <1>0 DEF AwaitTermination, ChildType
  <2>2. QED
    BY <1>7, <2>1, <1>0, <1>k, <1>p, <1>e, <1>s, UnchangedTypes DEF AwaitTermination
<1>8. CASE AwaitKill
  <2>1. ChildType'
    BY <1>8, <1>0 DEF AwaitKill, ChildType
  <2>2. FailureType'
    BY <1>8, <1>0 DEF AwaitKill, FailureType, Kinds
  <2>3. QED
    BY <1>8, <2>1, <2>2, <1>0, <1>k, <1>p, <1>e, <1>s, UnchangedTypes DEF AwaitKill
<1>9. ASSUME ReleaseSafe, ObserveActions, KeeperUnchanged, UNCHANGED <<prepared, work>>
      PROVE  PipeType' /\ ActionType'
  BY <1>9, <1>0 DEF ReleaseSafe, ObserveActions, PipeType, ActionType, Actions
<1>10. ASSUME PublishStatus, FailureType', ChildType', UNCHANGED resultDelivered
       PROVE  StatusType'
  <2>1. (Settled \in BOOLEAN)'
    BY DEF Settled
  <2>2. QED
    BY <2>1, <1>10 DEF PublishStatus, StatusType, FailureType, Status
<1>11. CASE Observe
  <2>1. PipeType' /\ ActionType' /\ ChildType' /\ EndType'
    BY <1>11, <1>9, <1>0, <1>c, <1>e DEF Observe
  <2>2. FailureType'
    BY <1>11, <1>0, FaultTypes DEF Observe
  <2>3. StatusType' /\ KeeperType'
    BY <1>11, <2>1, <2>2, <1>10, <1>0, <1>k, <1>s, UnchangedTypes DEF Observe
  <2>4. QED
    BY <1>11, <2>1, <2>2, <2>3, <1>0, UnchangedTypes DEF Observe
<1>12. CASE WatchLate
  <2>1. PipeType' /\ ActionType' /\ EndType'
    BY <1>12, <1>9, <1>0, <1>e DEF WatchLate
  <2>2. ChildType'
    BY <1>12, <1>0 DEF WatchLate, ChildType
  <2>3. FailureType'
    BY <1>12, <1>0, FaultTypes DEF WatchLate
  <2>4. StatusType' /\ KeeperType'
    BY <1>12, <2>2, <2>3, <1>10, <1>0, <1>k, UnchangedTypes DEF WatchLate
  <2>5. QED
    BY <1>12, <2>1, <2>2, <2>3, <2>4, <1>0, UnchangedTypes DEF WatchLate
<1>13. QED
  BY <1>1, <1>2, <1>3, <1>4, <1>5, <1>6, <1>7, <1>8, <1>11, <1>12 DEF KeeperStep

LEMMA CollectTypes ==
  ASSUME ProcessTypeOK, Collection \/ Leave
  PROVE  ProcessTypeOK'
<1> USE DEF ProcessTypeOK
<1>0. ASSUME CollectUnchanged
      PROVE  /\ setting' = setting
             /\ ChildType' /\ ReaderType' /\ PipeType' /\ KeeperType' /\ ActionType'
             /\ UNCHANGED readCount
  BY <1>0, UnchangedTypes DEF CollectUnchanged
<1>g. ASSUME GoesOn
      PROVE  CollectUnchanged /\ StopType' /\ StatusType' /\ CallType' /\ UNCHANGED got
  <2>1. UNCHANGED callVars /\ UNCHANGED stopVars /\ UNCHANGED <<lifecycle, resultDelivered>>
    BY <1>g DEF GoesOn
  <2>2. QED
    BY <2>1, <1>g, <1>0, UnchangedTypes DEF GoesOn, callVars
<1>l. ASSUME NEW p \in {"loop", "looping", "wait", "close", "flush", "flushing", "collected",
                        "exited", "leaving", "left"},
             launcher' = p,
             UNCHANGED collectFailed \/ collectFailed' = TRUE
      PROVE  LauncherType'
  BY <1>l DEF LauncherType
<1>o. ASSUME UNCHANGED <<output, readCount, dispatched>> PROVE OutputType'
  BY <1>o DEF OutputType
<1>e. ASSUME UNCHANGED <<streamOutcome, toldEnd>> PROVE EndType'
  BY <1>e DEF EndType
<1>n. ASSUME NEW force, Notify(force), EndType, UNCHANGED streamOutcome \/ AbortAcquired
      PROVE  EndType'
  <2>1. streamOutcome' \in [Streams -> Terminals \cup {"PENDING"}]
    BY <1>n DEF EndType, AbortAcquired, Terminals
  <2>2. QED
    BY <2>1, <1>n DEF EndType, Notify
<1>f. ASSUME NoFault \/ Interrupts("callback"), setting' = setting PROVE FailureType'
  BY <1>f, FaultTypes
<1>i. ASSUME NotInterrupted \/ Interrupted
      PROVE  /\ NoFault \/ Interrupts("callback")
             /\ UNCHANGED collectFailed \/ collectFailed' = TRUE
  BY <1>i DEF NotInterrupted, Interrupted
<1>1. CASE TakeChunk
  <2>1. OutputType'
    <3>1. output # <<>> /\ output' = Tail(output) /\ UNCHANGED readCount
      BY <1>1, <1>0, <1>g DEF TakeChunk
    <3>2. Head(output) \in Streams /\ Tail(output) \in Seq(Streams)
          /\ Len(Tail(output)) <= OutputCapacity
      BY <3>1, Capacity DEF OutputType
    <3>3. (dispatched \in [Streams -> Nat])'
      BY <1>1, <3>2 DEF TakeChunk, OutputType
    <3>4. QED
      BY <3>1, <3>2, <3>3 DEF OutputType
  <2>2. LauncherType'
    BY <1>1, <1>i, <1>l DEF TakeChunk
  <2>3. FailureType'
    BY <1>1, <1>0, <1>g, <1>i, <1>f DEF TakeChunk
  <2>4. QED
    BY <1>1, <2>1, <2>2, <2>3, <1>0, <1>g, UnchangedTypes DEF TakeChunk
<1>2. CASE SettleChunk
  <2>1. EndsCalled => NotInterrupted \/ Interrupted
    BY DEF EndsCalled
  <2>2. LauncherType'
    BY <1>2, <2>1, <1>i, <1>l DEF SettleChunk
  <2>3. EndType'
    BY <1>2, <1>n DEF SettleChunk
  <2>4. FailureType'
    BY <1>2, <2>1, <1>0, <1>g, <1>i, <1>f DEF SettleChunk
  <2>5. QED
    BY <1>2, <2>2, <2>3, <2>4, <1>0, <1>g, <1>o, UnchangedTypes DEF SettleChunk
<1>3. CASE NoChunk
  <2>1. EndsCalled => NotInterrupted \/ Interrupted
    BY DEF EndsCalled
  <2>2. LauncherType'
    BY <1>3, <2>1, <1>i, <1>l DEF NoChunk
  <2>3. EndType'
    BY <1>3, <1>n DEF NoChunk
  <2>4. FailureType'
    BY <1>3, <2>1, <1>0, <1>g, <1>i, <1>f DEF NoChunk
  <2>5. QED
    BY <1>3, <2>2, <2>3, <2>4, <1>0, <1>g, <1>o, UnchangedTypes DEF NoChunk
<1>c. ASSUME NEW why \in {"natural", "abnormal"}, NEW p, Call(why, p), UNCHANGED <<got, toldEnd>>
      PROVE  StopType' /\ EndType' /\ CallType'
  BY <1>c, RequestTypes DEF Call, CallType
<1>4. CASE AwaitChild
  <2>1. setting' = setting
    BY <1>4, <1>0 DEF AwaitChild
  <2>2. LauncherType'
    BY <1>4, <1>l DEF AwaitChild, Call, NotInterrupted
  <2>3. StopType' /\ EndType' /\ CallType'
    BY <1>4, <1>c DEF AwaitChild
  <2>4. FailureType'
    BY <1>4, <2>1, FaultTypes DEF AwaitChild, NotInterrupted
  <2>5. QED
    BY <1>4, <2>2, <2>3, <2>4, <1>0, <1>o, UnchangedTypes DEF AwaitChild
<1>5. CASE Close
  <2>1. LauncherType'
    BY <1>5, <1>l DEF Close
  <2>2. QED
    BY <1>5, <2>1, <1>0, <1>g, <1>o, UnchangedTypes DEF Close
<1>6. CASE EndFlush
  <2>1. setting' = setting
    BY <1>6, <1>0 DEF EndFlush
  <2>2. LauncherType'
    BY <1>6, <1>l DEF EndFlush, Interrupted
  <2>3. EndType'
    BY <1>6, <1>n DEF EndFlush
  <2>4. FailureType'
    <3>1. CASE Interrupted
      BY <3>1, <2>1, <1>f DEF Interrupted
    <3>2. CASE ledger' = (IF ~got.complete /\ ledger = {} THEN {"incomplete"} ELSE ledger)
               /\ UNCHANGED faults
      BY <3>2, <2>1 DEF FailureType, Kinds
    <3>3. QED
      BY <3>1, <3>2, <1>6 DEF EndFlush
  <2>5. StatusType'
    BY <1>6, <2>4 DEF EndFlush, StatusType, Status, Refresh, FailureType
  <2>6. QED
    BY <1>6, <2>2, <2>3, <2>4, <2>5, <1>0, <1>o, UnchangedTypes DEF EndFlush
<1>7. CASE RaiseResult
  <2>1. setting' = setting
    BY <1>7, <1>0 DEF RaiseResult
  <2>2. LauncherType'
    BY <1>7, <1>l DEF RaiseResult
  <2>3. FailureType'
    BY <1>7, <2>1 DEF RaiseResult, FailureType, Kinds
  <2>4. StatusType'
    BY <1>7, <2>3 DEF RaiseResult, StatusType, Status, Refresh, FailureType
  <2>5. QED
    BY <1>7, <2>2, <2>3, <2>4, <1>0, <1>o, UnchangedTypes DEF RaiseResult
<1>8. CASE Leave
  <2>1. LauncherType'
    BY <1>8, <1>l DEF Leave, Call
  <2>2. StopType' /\ EndType' /\ CallType'
    BY <1>8, <1>c DEF Leave
  <2>3. QED
    BY <1>8, <2>1, <2>2, <1>0, <1>o, UnchangedTypes DEF Leave
<1>9. QED
  BY <1>1, <1>2, <1>3, <1>4, <1>5, <1>6, <1>7, <1>8 DEF Collection

LEMMA CallTypes ==
  ASSUME ProcessTypeOK,
         CallShutdown \/ \E t \in Threads : DeliverStatus(t) \/ InterruptWait(t)
  PROVE  ProcessTypeOK'
<1> USE DEF ProcessTypeOK
<1>0. ASSUME CallUnchanged
      PROVE  /\ setting' = setting
             /\ LauncherType' /\ ChildType' /\ ReaderType' /\ PipeType' /\ OutputType'
             /\ KeeperType' /\ ActionType' /\ UNCHANGED toldEnd
  BY <1>0, UnchangedTypes DEF CallUnchanged
<1>e. ASSUME UNCHANGED <<streamOutcome, toldEnd>> PROVE EndType'
  BY <1>e DEF EndType
<1>1. CASE CallShutdown
  <2>1. CallType'
    BY <1>1 DEF CallShutdown, CallGoes, CallType
  <2>2. StopType' /\ EndType'
    BY <1>1, <1>0, RequestTypes DEF CallShutdown
  <2>3. QED
    BY <1>1, <2>1, <2>2, <1>0, UnchangedTypes DEF CallShutdown
<1>2. ASSUME NEW t \in Threads, InterruptWait(t) PROVE ProcessTypeOK'
  <2>1. FailureType'
    BY <1>2, <1>0, FaultTypes DEF InterruptWait
  <2>2. QED
    BY <1>2, <2>1, <1>0, <1>e, UnchangedTypes DEF InterruptWait
<1>3. ASSUME NEW t \in Threads, DeliverStatus(t) PROVE ProcessTypeOK'
  <2>1. FailureType'
    BY <1>3, <1>0, FaultTypes DEF DeliverStatus
  <2>2. lifecycle' \in Status
    BY <1>3, <2>1 DEF DeliverStatus, Refresh, StatusType, Status, FailureType
  <2>3. (resultDelivered \in BOOLEAN)'
    BY <1>3 DEF DeliverStatus, StatusType, Delivers
  <2>4. CallType'
    BY <1>3, <2>2 DEF DeliverStatus, CallGoes, CallType
  <2>5. StatusType'
    BY <2>2, <2>3 DEF StatusType
  <2>6. QED
    BY <1>3, <2>1, <2>4, <2>5, <1>0, <1>e, UnchangedTypes DEF DeliverStatus
<1>4. QED
  BY <1>1, <1>2, <1>3

LEMMA WorldTypes ==
  ASSUME ProcessTypeOK, ChildExits \/ BudgetPasses \/ \E k \in Actions : ActionMoves(k)
  PROVE  ProcessTypeOK'
<1> USE DEF ProcessTypeOK
<1>1. CASE ChildExits
  <2>1. ChildType'
    BY <1>1 DEF ChildExits, ChildType
  <2>2. QED
    BY <1>1, <2>1, UnchangedTypes DEF ChildExits
<1>2. CASE BudgetPasses
  <2>1. StopType'
    BY <1>2 DEF BudgetPasses, StopType
  <2>2. QED
    BY <1>2, <2>1, UnchangedTypes DEF BudgetPasses
<1>3. ASSUME NEW k \in Actions, ActionMoves(k) PROVE ProcessTypeOK'
  <2>1. ActionType'
    BY <1>3 DEF ActionMoves, ActionType, Actions
  <2>2. QED
    BY <1>3, <2>1, UnchangedTypes DEF ActionMoves
<1>4. QED
  BY <1>1, <1>2, <1>3

LEMMA StepTypes == ProcessTypeOK /\ [ProcessNext]_processVars => ProcessTypeOK'
<1>1. ASSUME ProcessTypeOK, UNCHANGED processVars PROVE ProcessTypeOK'
  <2>1. UNCHANGED <<lifecycle, resultDelivered>>
    BY <1>1 DEF processVars
  <2>2. QED
    BY <1>1, <2>1, UnchangedTypes DEF processVars, ProcessTypeOK
<1>2. QED
  BY <1>1, LaunchTypes, ReaderTypes, KeeperTypes, CollectTypes, CallTypes, WorldTypes
     DEF ProcessNext

\* The variables of an OwnedProcess keep their types, whatever fails; the queue
\* between the readers and the collection keeps its capacity (_read, Queue).
THEOREM ProcessTypesCorrect == ProcessSpec => []ProcessTypeOK
  BY InitTypes, StepTypes, PTL DEF ProcessSpec

----------------------------------------------------------------------------
(* Release.  _safe believes _started, which launch writes after the thread   *)
(* of a reader has begun to run.  It is sound because nobody can ask for     *)
(* cleanup in between: a request implies that every running reader is known. *)

\* Cleanup is asked for only once every reader has been set up.
RequestsAfterSetup == Requested => launcher \notin SettingUp \ {"callback"}
\* Only within _start_reader does a reader run that is not known.
ReadersKnown == launcher # "starting" => \A s \in Streams : rpc[s] # "none" => readerStarted[s]
\* The continuation acts, and releases, on request only, and what is acquired.
ReleasedOnRequest ==
  /\ keeper.pc # "waiting" \/ releasedPipes # {} => Requested
  /\ releasedPipes \subseteq pipes

ReleaseInv == RequestsAfterSetup /\ ReadersKnown /\ ReleasedOnRequest /\ PipesOutliveReaders

LEMMA RequestLasts ==
  ASSUME NEW why, why # "none", RequestStop(why)
  PROVE  Requested'
  BY DEF RequestStop, Requested, stopVars

LEMMA ReleaseInit == ProcessInit => ReleaseInv
  BY DEF ProcessInit, ReleaseInv, RequestsAfterSetup, ReadersKnown, ReleasedOnRequest,
         PipesOutliveReaders, Requested, SettingUp

\* A step that starts no reader, moves none and releases nothing.
LEMMA ReleaseKept ==
  ASSUME ReleaseInv, UNCHANGED <<pipes, releasedPipes, rpc, readerStarted>>,
         Requested => Requested',
         Requested' => launcher' \notin SettingUp \ {"callback"},
         launcher = "starting" => launcher' = "starting",
         keeper'.pc # "waiting" => keeper.pc # "waiting" \/ Requested
  PROVE  ReleaseInv'
  BY DEF ReleaseInv, RequestsAfterSetup, ReadersKnown, ReleasedOnRequest, PipesOutliveReaders

LEMMA LaunchReleases ==
  ASSUME ProcessTypeOK, ReleaseInv, Launch
  PROVE  ReleaseInv'
<1>1. CASE Prepare
  BY <1>1, ReleaseKept, RequestLasts
     DEF Prepare, Call, NoCall, stopVars, readerVars, pipeVars, SettingUp, ReleaseInv,
         RequestsAfterSetup, Requested
<1>2. CASE Factory
  BY <1>2, RequestLasts
     DEF Factory, Call, NoCall, stopVars, readerVars, SettingUp, ReleaseInv, RequestsAfterSetup,
         ReadersKnown, ReleasedOnRequest, PipesOutliveReaders, Requested
<1>3. CASE Transfer
  BY <1>3, ReleaseKept
     DEF Transfer, stopVars, readerVars, pipeVars, SettingUp, ReleaseInv, RequestsAfterSetup,
         Requested
<1>4. CASE StartReader
  BY <1>4 DEF StartReader, stopVars, pipeVars, SettingUp, ReleaseInv, RequestsAfterSetup,
              ReadersKnown, ReleasedOnRequest, PipesOutliveReaders, Requested
<1>5. CASE KnowReader
  BY <1>5, RequestLasts
     DEF KnowReader, Running, Call, NoCall, stopVars, pipeVars, SettingUp, ReleaseInv,
         RequestsAfterSetup, ReadersKnown, ReleasedOnRequest, PipesOutliveReaders, Requested
<1>6. CASE FailSetup
  BY <1>6, ReleaseKept, RequestLasts
     DEF FailSetup, Call, readerVars, pipeVars, SettingUp, Requested
<1>7. CASE EndLaunch
  BY <1>7, ReleaseKept DEF EndLaunch, stopVars, readerVars, pipeVars, SettingUp, Requested
<1>8. QED
  BY <1>1, <1>2, <1>3, <1>4, <1>5, <1>6, <1>7 DEF Launch

\* A reader moves only while it has not stopped, and never back to none.
LEMMA ReaderReleases ==
  ASSUME ProcessTypeOK, ReleaseInv, NEW s \in Streams, ReaderStep(s)
  PROVE  ReleaseInv'
<1>1. ReaderUnchanged /\ rpc[s] \notin {"none", "stopped"}
  BY DEF ReaderStep, FirstRead, ReadChunk, ReadNothing, ReadEnd, ReadFails, Put,
         FailedReaderStops, FinishReader
<1>2. PICK p \in {"read", "put", "failed", "finish", "stopped"} : ReaderMoves(s, p)
  BY DEF ReaderStep, FirstRead, ReadChunk, ReadNothing, ReadEnd, ReadFails, Put,
         FailedReaderStops, FinishReader, ReadsOn
<1>3. UNCHANGED stopVars \/ (SetupDone /\ RequestStop("abnormal"))
  BY DEF ReaderStep, FirstRead, ReadChunk, ReadNothing, ReadEnd, ReadFails, Put,
         FailedReaderStops, FinishReader
<1>4. UNCHANGED <<launcher, readerStarted, pipes, releasedPipes, keeper>>
  BY <1>1 DEF ReaderUnchanged, launchVars, pipeVars
<1>5. RequestsAfterSetup' /\ (Requested => Requested')
  BY <1>3, <1>4, RequestLasts
     DEF SetupDone, RequestsAfterSetup, ReleaseInv, stopVars, Requested
<1>6. /\ rpc' = [rpc EXCEPT ![s] = p]
      /\ rpc \in [Streams -> {"none", "top", "read", "put", "failed", "finish", "stopped"}]
  BY <1>2 DEF ReaderMoves, ProcessTypeOK, ReaderType
<1>7. ReadersKnown' /\ PipesOutliveReaders'
  BY <1>1, <1>4, <1>6 DEF ReleaseInv, ReadersKnown, PipesOutliveReaders
<1>8. QED
  BY <1>4, <1>5, <1>7 DEF ReleaseInv, ReleasedOnRequest

LEMMA KeeperReleases ==
  ASSUME ProcessTypeOK, ReleaseInv, KeeperStep \/ CheckDeadline
  PROVE  ReleaseInv'
<1>0. ASSUME KeeperUnchanged PROVE UNCHANGED <<launcher, rpc, readerStarted, pipes>>
  BY <1>0 DEF KeeperUnchanged, launchVars, readerVars
<1>1. CASE Supervise
  BY <1>1, <1>0, ReleaseKept
     DEF Supervise, stopVars, ReleaseInv, RequestsAfterSetup, Requested
<1>2. CASE CheckDeadline
  BY <1>2, <1>0, ReleaseKept, RequestLasts
     DEF CheckDeadline, Supervising, SetupDone, SettingUp, Requested
<1>3. CASE EnterStage \/ StartStage \/ ObserveStage
  BY <1>3, <1>0, ReleaseKept
     DEF EnterStage, StartStage, ObserveStage, KeeperGoes, NextStage, stopVars, ReleaseInv,
         RequestsAfterSetup, Requested
<1>4. CASE CancelAll \/ AwaitTermination \/ AwaitKill
  BY <1>4, <1>0, ReleaseKept
     DEF CancelAll, AwaitTermination, AwaitKill, stopVars, ReleaseInv, RequestsAfterSetup,
         Requested
<1>5. CASE Observe \/ WatchLate
  <2>1. /\ keeper.pc # "waiting" /\ ReleaseSafe
        /\ UNCHANGED <<launcher, rpc, readerStarted, pipes, stopReason>>
    BY <1>5, <1>0 DEF Observe, WatchLate, stopVars
  <2>2. Requested /\ launcher # "starting"
    BY <2>1 DEF ReleaseInv, ReleasedOnRequest, RequestsAfterSetup, SettingUp
  <2>3. PipesOutliveReaders'
    BY <2>1, <2>2 DEF ReleaseSafe, Safe, ReleaseInv, ReadersKnown, PipesOutliveReaders,
                      ProcessTypeOK, PipeType
  <2>4. QED
    BY <2>1, <2>2, <2>3
       DEF ReleaseSafe, ReleaseInv, ReadersKnown, ReleasedOnRequest, RequestsAfterSetup, Requested
<1>6. QED
  BY <1>1, <1>2, <1>3, <1>4, <1>5 DEF KeeperStep

LEMMA CollectReleases ==
  ASSUME ReleaseInv, Collection \/ Leave
  PROVE  ReleaseInv'
<1>1. UNCHANGED <<keeper, rpc, readerStarted, pipes, releasedPipes>>
  BY DEF Collection, Leave, TakeChunk, SettleChunk, NoChunk, AwaitChild, Close, EndFlush,
         RaiseResult, GoesOn, CollectUnchanged, readerVars, pipeVars
<1>2. launcher # "starting" /\ launcher' \notin SettingUp
  BY DEF Collection, Leave, TakeChunk, SettleChunk, NoChunk, AwaitChild, Close, EndFlush,
         RaiseResult, Call, SettingUp
<1>3. UNCHANGED stopReason \/ RequestStop("natural") \/ RequestStop("abnormal")
  BY DEF Collection, Leave, TakeChunk, SettleChunk, NoChunk, AwaitChild, Close, EndFlush,
         RaiseResult, GoesOn, Call, stopVars
<1>4. Requested => Requested'
  BY <1>3, RequestLasts DEF Requested
<1>5. QED
  BY <1>1, <1>2, <1>4, ReleaseKept

LEMMA OtherReleases ==
  ASSUME ReleaseInv,
         \/ CallShutdown \/ ChildExits \/ BudgetPasses
         \/ \E t \in Threads : DeliverStatus(t) \/ InterruptWait(t)
         \/ \E k \in Actions : ActionMoves(k)
  PROVE  ReleaseInv'
<1>1. UNCHANGED <<keeper, launcher, rpc, readerStarted, pipes, releasedPipes>>
  BY DEF CallShutdown, ChildExits, BudgetPasses, DeliverStatus, InterruptWait, ActionMoves,
         CallUnchanged, launchVars, readerVars, pipeVars
<1>2. UNCHANGED stopReason \/ (launcher \notin SettingUp /\ RequestStop("abnormal"))
  BY DEF CallShutdown, ChildExits, BudgetPasses, DeliverStatus, InterruptWait, ActionMoves,
         stopVars
<1>3. (Requested => Requested') /\ RequestsAfterSetup'
  BY <1>1, <1>2, RequestLasts DEF Requested, ReleaseInv, RequestsAfterSetup
<1>4. QED
  BY <1>1, <1>3, ReleaseKept DEF RequestsAfterSetup

LEMMA ReleaseAlways == ProcessSpec => [](ProcessTypeOK /\ ReleaseInv)
<1>1. ASSUME ProcessTypeOK, ReleaseInv, UNCHANGED processVars PROVE ReleaseInv'
  BY <1>1, ReleaseKept
     DEF processVars, launchVars, readerVars, pipeVars, stopVars, ReleaseInv,
         RequestsAfterSetup, Requested
<1>2. ProcessTypeOK /\ ReleaseInv /\ [ProcessNext]_processVars => ReleaseInv'
  BY <1>1, LaunchReleases, ReaderReleases, KeeperReleases, CollectReleases, OtherReleases
     DEF ProcessNext
<1>3. QED
  BY <1>2, ReleaseInit, ProcessTypesCorrect, PTL DEF ProcessSpec

\* No stream with a descriptor is ever closed under its reader, for any number
\* of streams, in any order of starts, failures and requests (_safe,
\* _release_safe).
THEOREM PipesNeverPulled == ProcessSpec => []PipesOutliveReaders
<1>1. ReleaseInv => PipesOutliveReaders
  BY DEF ReleaseInv
<1>2. QED
  BY <1>1, ReleaseAlways, PTL

----------------------------------------------------------------------------
(* Settlement.  What _complete reads was observed earlier and is still so.   *)

\* What the continuation has observed is true of the things themselves, and
\* the factory was the last to bring anything into being.
ObservedSettled ==
  /\ childReaped => Requested /\ child # "running"
  /\ launcher \in {"prepare", "factory"} => child = "none"
  /\ \A k \in seen : work[k] = "settled"
CompleteWhenGone ==
  /\ lifecycle.complete => keeper.pc = "gone"
  /\ keeper.pc = "gone" => Settled

SettledInv == ObservedSettled /\ CompleteWhenGone

LEMMA SettledInit == ProcessInit => SettledInv
  BY DEF ProcessInit, SettledInv, ObservedSettled, CompleteWhenGone, Pending

\* Nothing of what _complete looks at changes back.
SettledLasts ==
  /\ childReaped => childReaped'
  /\ \A s \in Streams : Safe(s) => Safe(s)'
  /\ pipes \subseteq releasedPipes => pipes' \subseteq releasedPipes'
  /\ prepared \subseteq seen => prepared' \subseteq seen'

LEMMA SettledKept ==
  ASSUME Settled, SettledLasts
  PROVE  Settled'
  BY DEF Settled, SettledLasts

LEMMA SettledStays ==
  ASSUME ProcessTypeOK, ReleaseInv, SettledInv, Requested, ProcessNext
  PROVE  SettledLasts
<1>1. CASE Launch
  <2>1. launcher \in {"callback", "failing", "raising"}
    BY <1>1 DEF ReleaseInv, RequestsAfterSetup, SettingUp, Launch, Prepare, Factory, Transfer,
                StartReader, KnowReader, FailSetup, EndLaunch
  <2>2. UNCHANGED <<childReaped, rpc, readerStarted, pipes, releasedPipes, prepared, seen>>
    BY <1>1, <2>1 DEF Launch, Prepare, Factory, Transfer, StartReader, KnowReader, FailSetup,
                      EndLaunch, childVars, readerVars, pipeVars, actionVars
  <2>3. QED
    BY <2>2 DEF SettledLasts, Safe
<1>2. CASE Leave \/ Collection
  <2>1. UNCHANGED <<childReaped, rpc, readerStarted, pipes, releasedPipes, prepared, seen>>
    BY <1>2 DEF Collection, Leave, TakeChunk, SettleChunk, NoChunk, AwaitChild, Close, EndFlush,
                RaiseResult, GoesOn, CollectUnchanged, childVars, readerVars, pipeVars, actionVars
  <2>2. QED
    BY <2>1 DEF SettledLasts, Safe
<1>3. ASSUME NEW s \in Streams, ReaderStep(s) PROVE SettledLasts
  <2>1. ReaderUnchanged /\ rpc[s] # "stopped" /\ (\E p : ReaderMoves(s, p))
    BY <1>3 DEF ReaderStep, FirstRead, ReadChunk, ReadNothing, ReadEnd, ReadFails, Put,
                FailedReaderStops, FinishReader, ReadsOn
  <2>2. UNCHANGED <<childReaped, readerStarted, pipes, releasedPipes, prepared, seen>>
    BY <2>1 DEF ReaderUnchanged, childVars, pipeVars, actionVars
  <2>3. \A r \in Streams : rpc[r] = "stopped" => rpc'[r] = "stopped"
    BY <2>1 DEF ReaderMoves, ProcessTypeOK, ReaderType
  <2>4. QED
    BY <2>2, <2>3 DEF SettledLasts, Safe
<1>4. CASE KeeperStep \/ CheckDeadline
  <2>1. KeeperUnchanged /\ UNCHANGED prepared
    BY <1>4 DEF KeeperStep, CheckDeadline, Supervise, EnterStage, StartStage, ObserveStage,
                CancelAll, AwaitTermination, AwaitKill, Observe, WatchLate, actionVars
  <2>2. CASE Observe \/ WatchLate
    <3>1. childReaped => childReaped'
      BY <2>2 DEF Observe, WatchLate
    <3>2. releasedPipes \subseteq releasedPipes' /\ seen \subseteq seen'
      BY <2>2 DEF Observe, WatchLate, ReleaseSafe, ObserveActions
    <3>3. QED
      BY <3>1, <3>2, <2>1 DEF SettledLasts, Safe, KeeperUnchanged, readerVars
  <2>3. CASE ~(Observe \/ WatchLate)
    <3>0. UNCHANGED releasedPipes
      BY <1>4, <2>3 DEF KeeperStep, CheckDeadline, Supervise, EnterStage, StartStage,
                        ObserveStage, CancelAll, AwaitTermination, AwaitKill
    <3>1. childReaped => childReaped'
      BY <1>4, <2>3 DEF KeeperStep, CheckDeadline, Supervise, EnterStage, StartStage,
                        ObserveStage, CancelAll, AwaitTermination, AwaitKill
    <3>2. UNCHANGED seen \/ seen' = seen \cup {k \in Actions : k = keeper.stage /\ Observed(k)}
      BY <1>4, <2>3 DEF KeeperStep, CheckDeadline, Supervise, EnterStage, StartStage,
                        ObserveStage, CancelAll, AwaitTermination, AwaitKill, actionVars
    <3>3. seen \subseteq seen'
      BY <3>2
    <3>4. QED
      BY <3>0, <3>1, <3>3, <2>1 DEF SettledLasts, Safe, KeeperUnchanged, readerVars
  <2>4. QED
    BY <2>2, <2>3
<1>5. CASE \/ CallShutdown \/ ChildExits \/ BudgetPasses
           \/ \E t \in Threads : DeliverStatus(t) \/ InterruptWait(t)
           \/ \E k \in Actions : ActionMoves(k)
  <2>1. UNCHANGED <<childReaped, rpc, readerStarted, pipes, releasedPipes, prepared, seen>>
    BY <1>5 DEF CallShutdown, ChildExits, BudgetPasses, DeliverStatus, InterruptWait,
                ActionMoves, CallUnchanged, childVars, readerVars, pipeVars, actionVars
  <2>2. QED
    BY <2>1 DEF SettledLasts, Safe
<1>6. QED
  BY <1>1, <1>2, <1>3, <1>4, <1>5 DEF ProcessNext

LEMMA KeeperMoved ==
  ASSUME KeeperType, NEW p, KeeperGoes(p)
  PROVE  keeper'.pc = p
  BY DEF KeeperType, KeeperGoes

\* Only the first request counts.
LEMMA ReasonStays ==
  ASSUME ProcessNext, Requested
  PROVE  stopReason' = stopReason
<1> USE DEF RequestStop, Requested, stopVars
<1>1. CASE Launch
  BY <1>1 DEF Launch, Prepare, Factory, Transfer, StartReader, KnowReader, FailSetup, EndLaunch,
              Call, NoCall
<1>2. CASE Leave \/ Collection
  BY <1>2 DEF Collection, Leave, TakeChunk, SettleChunk, NoChunk, AwaitChild, Close, EndFlush,
              RaiseResult, GoesOn, Call
<1>3. ASSUME NEW s \in Streams, ReaderStep(s) PROVE stopReason' = stopReason
  BY <1>3 DEF ReaderStep, FirstRead, ReadChunk, ReadNothing, ReadEnd, ReadFails, Put,
              FailedReaderStops, FinishReader
<1>4. CASE KeeperStep \/ CheckDeadline
  BY <1>4 DEF KeeperStep, CheckDeadline, Supervise, EnterStage, StartStage, ObserveStage,
              CancelAll, AwaitTermination, AwaitKill, Observe, WatchLate
<1>5. CASE \/ CallShutdown \/ ChildExits \/ BudgetPasses
           \/ \E t \in Threads : DeliverStatus(t) \/ InterruptWait(t)
           \/ \E k \in Actions : ActionMoves(k)
  BY <1>5 DEF CallShutdown, ChildExits, BudgetPasses, DeliverStatus, InterruptWait, ActionMoves
<1>6. QED
  BY <1>1, <1>2, <1>3, <1>4, <1>5 DEF ProcessNext

LEMMA RequestStays ==
  ASSUME ProcessNext, Requested
  PROVE  Requested'
  BY ReasonStays DEF Requested

\* A step that neither starts nor observes anything, nor publishes.
LEMMA SettledIdle ==
  ASSUME ProcessTypeOK, ReleaseInv, SettledInv, ProcessNext,
         UNCHANGED <<child, childReaped, keeper, seen, work>>,
         launcher' \in {"prepare", "factory"} => launcher \in {"prepare", "factory"},
         lifecycle'.complete => lifecycle.complete
  PROVE  SettledInv'
<1>1. ObservedSettled'
  BY RequestStays DEF SettledInv, ObservedSettled
<1>2. keeper.pc = "gone" => Requested
  BY DEF ReleaseInv, ReleasedOnRequest
<1>3. CompleteWhenGone'
  BY <1>2, SettledStays, SettledKept DEF SettledInv, CompleteWhenGone
<1>4. QED
  BY <1>1, <1>3 DEF SettledInv

LEMMA SettledStep ==
  ASSUME ProcessTypeOK, ReleaseInv, SettledInv, ProcessNext
  PROVE  SettledInv'
<1>1. CASE Prepare \/ Factory
  <2>1. ~Requested /\ ~childReaped /\ child = "none" /\ keeper.pc = "waiting" /\ ~lifecycle.complete
    BY <1>1 DEF Prepare, Factory, SettledInv, ObservedSettled, CompleteWhenGone, ReleaseInv,
                RequestsAfterSetup, ReleasedOnRequest, SettingUp
  <2>2. UNCHANGED <<keeper, lifecycle, seen, work>>
    BY <1>1 DEF Prepare, Factory, actionVars
  <2>3. CompleteWhenGone'
    BY <2>1, <2>2 DEF CompleteWhenGone
  <2>4. (childReaped => Requested /\ child # "running")'
    BY <1>1, <2>1, RequestLasts DEF Prepare, Factory, Call
  <2>5. launcher' \in {"prepare", "factory"} => child' = "none"
    BY <1>1, <2>1 DEF Prepare, Factory, Call
  <2>6. QED
    BY <2>2, <2>3, <2>4, <2>5 DEF SettledInv, ObservedSettled
<1>2. CASE Transfer \/ StartReader \/ KnowReader \/ FailSetup \/ EndLaunch
  BY <1>2, SettledIdle
     DEF Transfer, StartReader, KnowReader, FailSetup, EndLaunch, Call, childVars, actionVars
<1>3. CASE Leave \/ Collection
  <2>1. UNCHANGED <<child, childReaped, keeper, seen, work>>
    BY <1>3 DEF Collection, Leave, TakeChunk, SettleChunk, NoChunk, AwaitChild, Close, EndFlush,
                RaiseResult, GoesOn, CollectUnchanged, childVars, actionVars
  <2>2. launcher' \notin {"prepare", "factory"}
    BY <1>3 DEF Collection, Leave, TakeChunk, SettleChunk, NoChunk, AwaitChild, Close, EndFlush,
                RaiseResult, Call
  <2>3. UNCHANGED lifecycle \/ Refresh
    BY <1>3 DEF Collection, Leave, TakeChunk, SettleChunk, NoChunk, AwaitChild, Close, EndFlush,
                RaiseResult, GoesOn
  <2>4. lifecycle'.complete = lifecycle.complete
    BY <2>3 DEF Refresh, ProcessTypeOK, StatusType, Status
  <2>5. QED
    BY <2>1, <2>2, <2>4, SettledIdle
<1>4. ASSUME NEW s \in Streams, ReaderStep(s) PROVE SettledInv'
  <2>1. ReaderUnchanged
    BY <1>4 DEF ReaderStep, FirstRead, ReadChunk, ReadNothing, ReadEnd, ReadFails, Put,
                FailedReaderStops, FinishReader
  <2>2. QED
    BY <2>1, SettledIdle DEF ReaderUnchanged, launchVars, childVars, actionVars
<1>5. CASE CallShutdown \/ BudgetPasses \/ \E t \in Threads : DeliverStatus(t) \/ InterruptWait(t)
  <2>1. UNCHANGED <<launcher, child, childReaped, keeper, seen, work>>
    BY <1>5 DEF CallShutdown, BudgetPasses, DeliverStatus, InterruptWait, CallUnchanged,
                launchVars, childVars, actionVars
  <2>2. UNCHANGED lifecycle \/ Refresh
    BY <1>5 DEF CallShutdown, BudgetPasses, DeliverStatus, InterruptWait
  <2>3. lifecycle'.complete = lifecycle.complete
    BY <2>2 DEF Refresh, ProcessTypeOK, StatusType, Status
  <2>4. QED
    BY <2>1, <2>3, SettledIdle
<1>6. CASE ChildExits \/ \E k \in Actions : ActionMoves(k)
  <2>1. UNCHANGED <<launcher, childReaped, keeper, lifecycle, seen, stopReason>>
    BY <1>6 DEF ChildExits, ActionMoves, launchVars, childVars, actionVars, stopVars
  <2>2. \A k \in seen : work'[k] = "settled"
    BY <1>6 DEF ChildExits, ActionMoves, actionVars, SettledInv, ObservedSettled, ProcessTypeOK,
                ActionType
  <2>3. child' # child => child = "running" /\ child' = "exited"
    BY <1>6 DEF ChildExits, ActionMoves, childVars
  <2>4. ObservedSettled'
    BY <2>1, <2>2, <2>3 DEF SettledInv, ObservedSettled, Requested
  <2>5. CompleteWhenGone'
    BY <2>1, SettledStays, SettledKept
       DEF SettledInv, CompleteWhenGone, ReleaseInv, ReleasedOnRequest
  <2>6. QED
    BY <2>4, <2>5 DEF SettledInv
<1>7. CASE KeeperStep \/ CheckDeadline
  <2>1. UNCHANGED <<launcher, child>>
    BY <1>7 DEF KeeperStep, CheckDeadline, Supervise, EnterStage, StartStage, ObserveStage,
                CancelAll, AwaitTermination, AwaitKill, Observe, WatchLate, KeeperUnchanged,
                launchVars
  <2>2. CASE Observe \/ WatchLate
    <3>1. Requested /\ UNCHANGED <<stopReason, work>>
      BY <2>2 DEF Observe, WatchLate, ReleaseInv, ReleasedOnRequest, stopVars
    <3>2. childReaped' => childReaped \/ child = "exited"
      BY <2>2 DEF Observe, WatchLate
    <3>3. \A k \in seen' : work[k] = "settled"
      BY <2>2 DEF Observe, WatchLate, ObserveActions, Observed, SettledInv, ObservedSettled
    <3>4. ObservedSettled'
      BY <2>1, <3>1, <3>2, <3>3 DEF SettledInv, ObservedSettled, Requested
    <3>5. keeper.pc # "gone"
      BY <2>2 DEF Observe, WatchLate
    <3>6. ASSUME UNCHANGED <<keeper, lifecycle>> PROVE CompleteWhenGone'
      BY <3>5, <3>6 DEF SettledInv, CompleteWhenGone
    <3>7. ASSUME PublishStatus, KeeperGoes(IF Settled' THEN "gone" ELSE "late")
          PROVE  CompleteWhenGone'
      <4>1. lifecycle'.complete = Settled'
        BY <3>7 DEF PublishStatus
      <4>2. keeper'.pc = IF Settled' THEN "gone" ELSE "late"
        BY <3>7, KeeperMoved DEF ProcessTypeOK
      <4>3. QED
        BY <4>1, <4>2 DEF CompleteWhenGone
    <3>8. QED
      BY <2>2, <3>4, <3>6, <3>7 DEF Observe, WatchLate, SettledInv
  <2>3. CASE ~(Observe \/ WatchLate)
    <3>1. UNCHANGED lifecycle /\ keeper.pc # "gone"
      BY <1>7, <2>3 DEF KeeperStep, CheckDeadline, Supervise, EnterStage, StartStage,
                        ObserveStage, CancelAll, AwaitTermination, AwaitKill
    <3>2. keeper'.pc # "gone"
      <4>1. UNCHANGED keeper \/ NextStage \/ \E p : p # "gone" /\ KeeperGoes(p)
        BY <1>7, <2>3 DEF KeeperStep, CheckDeadline, Supervise, EnterStage, StartStage,
                          ObserveStage, CancelAll, AwaitTermination, AwaitKill
      <4>2. QED
        BY <4>1, <3>1, KeeperMoved DEF NextStage, ProcessTypeOK
    <3>3. CompleteWhenGone'
      BY <3>1, <3>2 DEF SettledInv, CompleteWhenGone
    <3>4. childReaped' => childReaped \/ (child = "exited" /\ keeper.pc # "waiting")
      BY <1>7, <2>3 DEF KeeperStep, CheckDeadline, Supervise, EnterStage, StartStage,
                        ObserveStage, CancelAll, AwaitTermination, AwaitKill
    <3>5. keeper.pc # "waiting" => Requested
      BY DEF ReleaseInv, ReleasedOnRequest
    <3>6. \A k \in seen' : work'[k] = "settled"
      <4>1. CASE ObserveStage
        BY <4>1 DEF ObserveStage, Observed, SettledInv, ObservedSettled
      <4>2. CASE ~ObserveStage
        <5>1. UNCHANGED seen /\ (UNCHANGED work \/ \E S : Engage(S))
          BY <1>7, <2>3, <4>2 DEF KeeperStep, CheckDeadline, Supervise, EnterStage, StartStage,
                                  CancelAll, AwaitTermination, AwaitKill, actionVars
        <5>2. QED
          BY <5>1 DEF Engage, SettledInv, ObservedSettled, ProcessTypeOK, ActionType
      <4>3. QED
        BY <4>1, <4>2
    <3>7. ObservedSettled'
      BY <2>1, <3>4, <3>5, <3>6, RequestStays DEF SettledInv, ObservedSettled
    <3>8. QED
      BY <3>3, <3>7 DEF SettledInv
  <2>4. QED
    BY <2>2, <2>3
<1>8. QED
  BY <1>1, <1>2, <1>3, <1>4, <1>5, <1>6, <1>7 DEF ProcessNext, Launch

LEMMA SettledAlways == ProcessSpec => [](ProcessTypeOK /\ ReleaseInv /\ SettledInv)
<1>1. ASSUME ProcessTypeOK, ReleaseInv, SettledInv, UNCHANGED processVars PROVE SettledInv'
  <2>1. Settled => Settled'
    BY <1>1 DEF processVars, Settled, Safe, childVars, readerVars, pipeVars, actionVars
  <2>2. ObservedSettled'
    BY <1>1 DEF processVars, SettledInv, ObservedSettled, Requested, launchVars, childVars,
                stopVars, actionVars
  <2>3. QED
    BY <1>1, <2>1, <2>2 DEF processVars, SettledInv, CompleteWhenGone
<1>2. ProcessTypeOK /\ ReleaseInv /\ SettledInv /\ [ProcessNext]_processVars => SettledInv'
  BY <1>1, SettledStep
<1>3. QED
  BY <1>2, SettledInit, ReleaseAlways, PTL DEF ProcessSpec

LEMMA NothingOwnedOnceComplete ==
  ASSUME ReleaseInv, SettledInv, lifecycle.complete
  PROVE  NothingOwned
<1>1. Settled /\ keeper.pc = "gone" /\ Requested /\ launcher # "starting"
  BY DEF SettledInv, CompleteWhenGone, ReleaseInv, ReleasedOnRequest, RequestsAfterSetup,
         SettingUp
<1>2. \A s \in Streams : rpc[s] \in {"none", "stopped"}
  BY <1>1 DEF Settled, Safe, ReleaseInv, ReadersKnown
<1>3. pipes = releasedPipes
  BY <1>1 DEF Settled, ReleaseInv, ReleasedOnRequest
<1>4. child # "running" /\ \A k \in prepared : work[k] = "settled"
  BY <1>1 DEF Settled, SettledInv, ObservedSettled
<1>5. QED
  BY <1>2, <1>3, <1>4 DEF NothingOwned

\* Only what the continuation publishes makes a status complete.
LEMMA PublishedBy ==
  ASSUME ProcessNext
  PROVE  UNCHANGED lifecycle \/ Refresh \/ keeper.pc \in {"observe", "late"}
<1>1. CASE Launch
  BY <1>1 DEF Launch, Prepare, Factory, Transfer, StartReader, KnowReader, FailSetup, EndLaunch
<1>2. CASE Leave \/ Collection
  BY <1>2 DEF Collection, Leave, TakeChunk, SettleChunk, NoChunk, AwaitChild, Close, EndFlush,
              RaiseResult, GoesOn
<1>3. ASSUME NEW s \in Streams, ReaderStep(s) PROVE UNCHANGED lifecycle
  BY <1>3 DEF ReaderStep, FirstRead, ReadChunk, ReadNothing, ReadEnd, ReadFails, Put,
              FailedReaderStops, FinishReader, ReaderUnchanged
<1>4. CASE KeeperStep \/ CheckDeadline
  BY <1>4 DEF KeeperStep, CheckDeadline, Supervise, EnterStage, StartStage, ObserveStage,
              CancelAll, AwaitTermination, AwaitKill, Observe, WatchLate
<1>5. CASE \/ CallShutdown \/ ChildExits \/ BudgetPasses
           \/ \E t \in Threads : DeliverStatus(t) \/ InterruptWait(t)
           \/ \E k \in Actions : ActionMoves(k)
  BY <1>5 DEF CallShutdown, ChildExits, BudgetPasses, DeliverStatus, InterruptWait, ActionMoves
<1>6. QED
  BY <1>1, <1>2, <1>3, <1>4, <1>5 DEF ProcessNext

LEMMA CompleteStays ==
  ASSUME ProcessTypeOK, SettledInv, lifecycle.complete, [ProcessNext]_processVars
  PROVE  lifecycle'.complete
<1>1. keeper.pc = "gone"
  BY DEF SettledInv, CompleteWhenGone
<1>2. UNCHANGED lifecycle \/ Refresh
  BY <1>1, PublishedBy DEF processVars
<1>3. QED
  BY <1>2 DEF Refresh, ProcessTypeOK, StatusType, Status

\* A complete status is never taken back, and says that child, reader threads,
\* pipes and actions are gone, though each was observed at another time
\* (_complete, _publish).
THEOREM CompleteIsSettled == ProcessSpec => SettledForGood
<1>1. ReleaseInv /\ SettledInv => (lifecycle.complete => NothingOwned)
  BY NothingOwnedOnceComplete
<1>2. (ReleaseInv /\ SettledInv => (lifecycle.complete => NothingOwned))'
  BY <1>1, PTL
<1>3. /\ ProcessTypeOK /\ SettledInv /\ (ReleaseInv /\ SettledInv)'
      /\ [ProcessNext]_processVars
      => [lifecycle.complete \/ lifecycle'.complete
            => lifecycle'.complete /\ NothingOwned']_processVars
  BY <1>2, CompleteStays
<1>4. QED
  BY <1>3, SettledAlways, PTL DEF ProcessSpec, SettledForGood

----------------------------------------------------------------------------
(* Reporting.  A failure that the status does not show yet is going to be    *)
(* published by somebody: the continuation, a call that still waits, or the  *)
(* end of the collection.                                                    *)

Collecting == {"loop", "looping", "wait", "close", "flush", "flushing"}
Reporting ==
  \/ lifecycle.failures = ledger
  \/ keeper.pc # "gone"
  \/ \E t \in Threads : shut[t] = "await"
  \/ launcher \in Collecting

LEMMA ReportingStep ==
  ASSUME ProcessTypeOK, ReleaseInv, SettledInv, Reporting, ProcessNext
  PROVE  Reporting'
<1> SUFFICES ASSUME keeper'.pc = "gone" PROVE Reporting'
  BY DEF Reporting
<1>p. ASSUME Refresh PROVE Reporting'
  BY <1>p DEF Refresh, Reporting, ProcessTypeOK, StatusType, Status
<1>a. ASSUME NEW t \in Threads, shut' = [shut EXCEPT ![t] = "await"] PROVE Reporting'
  BY <1>a DEF Reporting, ProcessTypeOK, CallType
<1>c. ASSUME NEW why, NEW place, Call(why, place) PROVE Reporting'
  BY <1>c, <1>a DEF Call, Threads
<1>u. ASSUME UNCHANGED <<ledger, lifecycle, keeper, shut>>,
             launcher \in Collecting => launcher' \in Collecting
      PROVE  Reporting'
  BY <1>u DEF Reporting
<1>1. CASE keeper.pc # "gone"
  <2>1. (Observe \/ WatchLate) /\ ~UNCHANGED keeper
    <3>1. CASE KeeperStep \/ CheckDeadline
      <4>1. \/ Observe \/ WatchLate \/ UNCHANGED keeper \/ NextStage
            \/ \E p : p # "gone" /\ KeeperGoes(p)
        BY <3>1 DEF KeeperStep, CheckDeadline, Supervise, EnterStage, StartStage, ObserveStage,
                    CancelAll, AwaitTermination, AwaitKill
      <4>2. QED
        BY <4>1, <1>1, KeeperMoved DEF NextStage, ProcessTypeOK
    <3>2. CASE ~(KeeperStep \/ CheckDeadline)
      <4>1. UNCHANGED keeper
        BY <3>2 DEF ProcessNext, Launch, Prepare, Factory, Transfer, StartReader, KnowReader,
                    FailSetup, EndLaunch, Leave, Collection, TakeChunk, SettleChunk, NoChunk,
                    AwaitChild, Close, EndFlush, RaiseResult, GoesOn, CollectUnchanged,
                    ReaderStep, FirstRead, ReadChunk, ReadNothing, ReadEnd, ReadFails, Put,
                    FailedReaderStops, FinishReader, ReaderUnchanged, CallShutdown,
                    DeliverStatus, InterruptWait, CallUnchanged, ChildExits, BudgetPasses,
                    ActionMoves
      <4>2. QED
        BY <4>1, <1>1
    <3>3. QED
      BY <3>1, <3>2
  <2>2. PublishStatus
    BY <2>1 DEF Observe, WatchLate
  <2>3. QED
    BY <2>2 DEF PublishStatus, Reporting
<1>2. CASE keeper.pc = "gone"
  <2>1. Settled /\ Requested /\ launcher \notin SettingUp \ {"callback"}
    BY <1>2 DEF SettledInv, CompleteWhenGone, ReleaseInv, ReleasedOnRequest, RequestsAfterSetup
  <2>2. \A s \in Streams : rpc[s] \in {"none", "stopped"}
    BY <2>1 DEF Settled, Safe, ReleaseInv, ReadersKnown, SettingUp
  <2>3. CASE Launch
    <3>1. FailSetup \/ EndLaunch
      BY <2>1, <2>3 DEF SettingUp, Launch, Prepare, Factory, Transfer, StartReader, KnowReader
    <3>2. QED
      BY <3>1, <1>c, <1>u DEF FailSetup, EndLaunch, failureVars, callVars, Collecting
  <2>4. CASE Leave \/ AwaitChild
    BY <2>4, <1>c DEF Leave, AwaitChild
  <2>5. CASE EndFlush \/ RaiseResult
    BY <2>5, <1>p DEF EndFlush, RaiseResult
  <2>6. CASE TakeChunk \/ SettleChunk \/ NoChunk \/ Close
    <3>1. launcher' \in Collecting
      BY <2>6 DEF TakeChunk, SettleChunk, NoChunk, Close, Collecting
    <3>2. QED
      BY <3>1 DEF Reporting
  <2>7. ASSUME NEW s \in Streams, ReaderStep(s) PROVE Reporting'
    BY <2>2, <2>7 DEF ReaderStep, FirstRead, ReadChunk, ReadNothing, ReadEnd, ReadFails, Put,
                      FailedReaderStops, FinishReader
  <2>8. CASE KeeperStep \/ CheckDeadline
    BY <1>2, <2>8 DEF KeeperStep, CheckDeadline, Supervise, EnterStage, StartStage, ObserveStage,
                      CancelAll, AwaitTermination, AwaitKill, Observe, WatchLate
  <2>9. CASE CallShutdown
    BY <2>9, <1>a DEF CallShutdown, CallGoes, Threads
  <2>10. ASSUME NEW t \in Threads, DeliverStatus(t) PROVE Reporting'
    BY <2>10, <1>p DEF DeliverStatus
  <2>11. ASSUME NEW t \in Threads, InterruptWait(t) PROVE Reporting'
    BY <2>11 DEF InterruptWait, callVars, Reporting
  <2>12. CASE ChildExits \/ BudgetPasses \/ \E k \in Actions : ActionMoves(k)
    BY <2>12, <1>u DEF ChildExits, BudgetPasses, ActionMoves, launchVars, failureVars, callVars
  <2>13. QED
    BY <2>3, <2>4, <2>5, <2>6, <2>7, <2>8, <2>9, <2>10, <2>11, <2>12 DEF ProcessNext, Collection
<1>3. QED
  BY <1>1, <1>2

\* Once the continuation and every call are done, and the launching thread has
\* left the collection, the status has every failure of the ledger, whoever met
\* it last (_shutdown, _collect).
THEOREM NoFailureLost == ProcessSpec => []FailuresReported
<1>1. ProcessInit => Reporting
  BY DEF ProcessInit, Reporting
<1>2. ASSUME Reporting, UNCHANGED processVars PROVE Reporting'
  BY <1>2 DEF processVars, Reporting, launchVars, failureVars, callVars
<1>3. ProcessTypeOK /\ ReleaseInv /\ SettledInv /\ Reporting /\ [ProcessNext]_processVars
      => Reporting'
  BY <1>2, ReportingStep
<1>4. Reporting => FailuresReported
  BY DEF Reporting, FailuresReported, AtRest, Collecting
<1>5. QED
  BY <1>1, <1>3, <1>4, SettledAlways, PTL DEF ProcessSpec

----------------------------------------------------------------------------
(* Ends.  A stream whose end was told has no chunk left anywhere: none in    *)
(* the queue, and a reader that will not add one.                            *)

NoMoreChunks(s) ==
  /\ \A i \in DOMAIN output : output[i] # s
  /\ rpc[s] \in {"none", "failed", "finish", "stopped"}

StartsFresh ==
  /\ launcher \in {"prepare", "factory", "transfer"} => \A s \in Streams : ~readerStarted[s]
  /\ launcher = "start" => Streams = {} \/ \E s \in Streams : ~readerStarted[s]
EndedByReader ==
  \A s \in Streams :
    streamOutcome[s] \in {"EOF", "READ_FAILED"} => rpc[s] \in {"failed", "finish", "stopped"}
ToldTruly ==
  \A s \in Streams : toldEnd[s] # "none" =>
    /\ streamOutcome[s] = toldEnd[s]
    /\ launcher \notin SettingUp \cup {"failing", "raising"}
    /\ launcher \in Collecting => NoMoreChunks(s)

EndInv == StartsFresh /\ EndedByReader /\ ToldTruly

LEMMA EndInit == ProcessInit => EndInv
  BY DEF ProcessInit, EndInv, StartsFresh, EndedByReader, ToldTruly

\* Outcomes are final.
OutcomesStay ==
  \A s \in Streams : streamOutcome[s] # "PENDING" => streamOutcome'[s] = streamOutcome[s]

LEMMA FinalOutcomes ==
  ASSUME EndType, UNCHANGED streamOutcome \/ AbortAcquired \/ \E s, o : SetOutcome(s, o)
  PROVE  OutcomesStay
  BY DEF OutcomesStay, EndType, AbortAcquired, SetOutcome

LEMMA OutcomeStep ==
  ASSUME ProcessNext
  PROVE  \/ UNCHANGED streamOutcome \/ AbortAcquired
         \/ \E s \in Streams : ReaderStep(s) /\ \E o : SetOutcome(s, o)
<1> USE DEF RequestStop, stopVars
<1>1. CASE Launch
  BY <1>1 DEF Launch, Prepare, Factory, Transfer, StartReader, KnowReader, FailSetup, EndLaunch,
              Call, NoCall, endVars
<1>2. CASE Leave \/ Collection
  BY <1>2 DEF Collection, Leave, TakeChunk, SettleChunk, NoChunk, AwaitChild, Close, EndFlush,
              RaiseResult, Call, endVars
<1>3. ASSUME NEW s \in Streams, ReaderStep(s)
      PROVE  UNCHANGED streamOutcome \/ AbortAcquired \/ \E o : SetOutcome(s, o)
  BY <1>3 DEF ReaderStep, FirstRead, ReadChunk, ReadNothing, ReadEnd, ReadFails, Put,
              FailedReaderStops, FinishReader
<1>4. CASE KeeperStep \/ CheckDeadline
  BY <1>4 DEF KeeperStep, CheckDeadline, Supervise, EnterStage, StartStage, ObserveStage,
              CancelAll, AwaitTermination, AwaitKill, Observe, WatchLate
<1>5. CASE \/ CallShutdown \/ ChildExits \/ BudgetPasses
           \/ \E t \in Threads : DeliverStatus(t) \/ InterruptWait(t)
           \/ \E k \in Actions : ActionMoves(k)
  BY <1>5 DEF CallShutdown, ChildExits, BudgetPasses, DeliverStatus, InterruptWait, ActionMoves,
              endVars
<1>6. QED
  BY <1>1, <1>2, <1>3, <1>4, <1>5 DEF ProcessNext

\* A step outside the readers, the collection and the start of readers.
LEMMA EndKept ==
  ASSUME ProcessTypeOK, EndInv, UNCHANGED <<rpc, readerStarted, toldEnd>>,
         UNCHANGED output \/ launcher' \notin Collecting,
         UNCHANGED streamOutcome \/ AbortAcquired,
         \/ UNCHANGED launcher
         \/ launcher' \notin SettingUp \cup {"failing", "raising"} \cup Collecting
         \/ /\ launcher \in SettingUp \cup {"failing", "raising"}
            /\ launcher' \notin {"prepare", "factory", "transfer", "start"}
         \/ launcher \in Collecting /\ launcher' \in Collecting
  PROVE  EndInv'
<1>1. StartsFresh'
  BY DEF EndInv, StartsFresh, SettingUp, Collecting
<1>2. EndedByReader'
  BY DEF EndInv, EndedByReader, AbortAcquired, ProcessTypeOK, EndType
<1>3. OutcomesStay
  BY FinalOutcomes DEF ProcessTypeOK
<1>4. \A s \in Streams : toldEnd[s] # "none" => toldEnd[s] # "PENDING"
  BY DEF ProcessTypeOK, EndType, Terminals
<1>5. ToldTruly'
  BY <1>3, <1>4 DEF EndInv, ToldTruly, NoMoreChunks, OutcomesStay, Collecting, SettingUp
<1>6. QED
  BY <1>1, <1>2, <1>5 DEF EndInv

LEMMA LaunchEnds ==
  ASSUME ProcessTypeOK, ReleaseInv, EndInv, Launch
  PROVE  EndInv'
<1>0. \A s \in Streams : launcher \in SettingUp \cup {"failing", "raising"} => toldEnd[s] = "none"
  BY DEF EndInv, ToldTruly
<1>1. CASE Prepare \/ Factory \/ Transfer
  <2>1. launcher \in {"prepare", "factory", "transfer"}
        /\ UNCHANGED <<rpc, readerStarted, toldEnd>>
        /\ (UNCHANGED streamOutcome \/ AbortAcquired)
    BY <1>1 DEF Prepare, Factory, Transfer, Call, NoCall, RequestStop, readerVars, endVars
  <2>2. StartsFresh'
    BY <1>1, <2>1 DEF EndInv, StartsFresh, Prepare, Factory, Transfer, Call
  <2>3. EndedByReader'
    BY <2>1 DEF EndInv, EndedByReader, AbortAcquired, ProcessTypeOK, EndType
  <2>4. ToldTruly'
    BY <2>1, <1>0 DEF ToldTruly, SettingUp
  <2>5. QED
    BY <2>2, <2>3, <2>4 DEF EndInv
<1>2. CASE StartReader
  <2>1. launcher = "start" /\ launcher' = "starting" /\ rpc' = [rpc EXCEPT ![NextReader] = "top"]
        /\ UNCHANGED <<readerStarted, streamOutcome, toldEnd>>
    BY <1>2 DEF StartReader, endVars
  <2>2. StartsFresh' /\ ToldTruly'
    BY <2>1, <1>0 DEF StartsFresh, ToldTruly, SettingUp
  <2>3. \A s \in Streams : s = NextReader => rpc[s] = "none"
    BY <2>1 DEF EndInv, StartsFresh, NextReader, ReleaseInv, ReadersKnown
  <2>4. EndedByReader'
    BY <2>1, <2>3 DEF EndInv, EndedByReader, ProcessTypeOK, ReaderType
  <2>5. QED
    BY <2>2, <2>4 DEF EndInv
<1>3. CASE KnowReader
  <2>1. launcher = "starting" /\ UNCHANGED <<rpc, toldEnd>>
        /\ (UNCHANGED streamOutcome \/ AbortAcquired)
    BY <1>3 DEF KnowReader, Call, NoCall, RequestStop
  <2>2. launcher' \in {"callback", "failing"} \/ (launcher' = "start" /\ Running # Streams)
    BY <1>3 DEF KnowReader, Call
  <2>3. \A s \in Streams : readerStarted'[s] = (s \in Running)
    BY <1>3 DEF KnowReader
  <2>4. StartsFresh'
    BY <2>2, <2>3 DEF StartsFresh, Running
  <2>5. EndedByReader'
    BY <2>1 DEF EndInv, EndedByReader, AbortAcquired, ProcessTypeOK, EndType
  <2>6. ToldTruly'
    BY <2>1, <1>0 DEF ToldTruly, SettingUp
  <2>7. QED
    BY <2>4, <2>5, <2>6 DEF EndInv
<1>4. CASE FailSetup
  BY <1>4, EndKept DEF FailSetup, Call, RequestStop, readerVars, outputVars, SettingUp
<1>5. CASE EndLaunch
  BY <1>5, EndKept DEF EndLaunch, readerVars, outputVars, endVars, SettingUp
<1>6. QED
  BY <1>1, <1>2, <1>3, <1>4, <1>5 DEF Launch

LEMMA ReaderEnds ==
  ASSUME ProcessTypeOK, EndInv, NEW s \in Streams, ReaderStep(s)
  PROVE  EndInv'
<1>1. UNCHANGED <<launcher, readerStarted, toldEnd>>
  BY DEF ReaderStep, FirstRead, ReadChunk, ReadNothing, ReadEnd, ReadFails, Put,
         FailedReaderStops, FinishReader, ReaderUnchanged, launchVars
<1>2. PICK p \in {"read", "put", "failed", "finish", "stopped"} : ReaderMoves(s, p)
  BY DEF ReaderStep, FirstRead, ReadChunk, ReadNothing, ReadEnd, ReadFails, Put,
         FailedReaderStops, FinishReader, ReadsOn
<1>3. rpc[s] \in {"failed", "finish"} => p \in {"finish", "stopped"} /\ UNCHANGED output
  BY <1>2 DEF ReaderStep, FirstRead, ReadChunk, ReadNothing, ReadEnd, ReadFails, Put,
              FailedReaderStops, FinishReader, ReadsOn, ReaderMoves, ProcessTypeOK, ReaderType
<1>4. rpc[s] \notin {"none", "stopped"} /\ (UNCHANGED output \/ output' = Append(output, s))
  BY DEF ReaderStep, FirstRead, ReadChunk, ReadNothing, ReadEnd, ReadFails, Put,
         FailedReaderStops, FinishReader
<1>5. /\ rpc'[s] = p
      /\ \A r \in Streams \ {s} : rpc'[r] = rpc[r]
  BY <1>2 DEF ReaderMoves, ProcessTypeOK, ReaderType
<1>6. UNCHANGED streamOutcome \/ AbortAcquired \/ \E o : SetOutcome(s, o)
  BY DEF ReaderStep, FirstRead, ReadChunk, ReadNothing, ReadEnd, ReadFails, Put,
         FailedReaderStops, FinishReader, RequestStop
<1>7. OutcomesStay
  BY <1>6, FinalOutcomes DEF ProcessTypeOK
<1>8. EndedByReader'
  <2>1. \A r \in Streams \ {s} :
          streamOutcome'[r] \in {"EOF", "READ_FAILED"} => streamOutcome'[r] = streamOutcome[r]
    BY <1>6 DEF AbortAcquired, SetOutcome, ProcessTypeOK, EndType
  <2>2. streamOutcome'[s] \in {"EOF", "READ_FAILED"}
        => streamOutcome'[s] = streamOutcome[s] \/ p \in {"finish", "failed"}
    <3>1. CASE ReadEnd(s) \/ ReadFails(s)
      BY <3>1, <1>5 DEF ReadEnd, ReadFails, ReaderMoves, ProcessTypeOK, ReaderType
    <3>2. CASE ~(ReadEnd(s) \/ ReadFails(s))
      BY <3>2 DEF ReaderStep, FirstRead, ReadChunk, ReadNothing, Put, FailedReaderStops,
                  FinishReader, RequestStop, AbortAcquired, SetOutcome, ProcessTypeOK, EndType
    <3>3. QED
      BY <3>1, <3>2
  <2>3. QED
    BY <2>1, <2>2, <1>3, <1>4, <1>5 DEF EndInv, EndedByReader
<1>9. ToldTruly'
  <2>1. ASSUME NEW r \in Streams, toldEnd[r] # "none"
        PROVE  /\ streamOutcome'[r] = toldEnd[r]
               /\ launcher \in Collecting => NoMoreChunks(r)'
    <3>1. streamOutcome[r] = toldEnd[r] /\ toldEnd[r] # "PENDING"
      BY <2>1 DEF EndInv, ToldTruly, ProcessTypeOK, EndType, Terminals
    <3>2. ASSUME launcher \in Collecting PROVE NoMoreChunks(r)'
      <4>1. NoMoreChunks(r)
        BY <2>1, <3>2 DEF EndInv, ToldTruly
      <4>2. rpc'[r] \in {"none", "failed", "finish", "stopped"}
        BY <4>1, <1>3, <1>4, <1>5 DEF NoMoreChunks
      <4>3. UNCHANGED output \/ (output' = Append(output, s) /\ r # s)
        BY <4>1, <1>3, <1>4 DEF NoMoreChunks
      <4>4. \A i \in DOMAIN output' : output'[i] # r
        <5>1. CASE UNCHANGED output
          BY <4>1, <5>1 DEF NoMoreChunks
        <5>2. CASE output' = Append(output, s) /\ r # s
          <6>1. output \in Seq(Streams) /\ DOMAIN output = 1..Len(output)
            BY DEF ProcessTypeOK, OutputType
          <6>2. /\ DOMAIN output' = 1..Len(output) + 1
                /\ \A i \in 1..Len(output) : output'[i] = output[i]
                /\ output'[Len(output) + 1] = s
            BY <5>2, <6>1
          <6>3. QED
            BY <4>1, <5>2, <6>1, <6>2 DEF NoMoreChunks
        <5>3. QED
          BY <4>3, <5>1, <5>2
      <4>5. QED
        BY <4>2, <4>4 DEF NoMoreChunks
    <3>3. QED
      BY <3>1, <3>2, <1>7 DEF OutcomesStay
  <2>2. QED
    BY <2>1, <1>1 DEF EndInv, ToldTruly
<1>10. StartsFresh'
  BY <1>1 DEF EndInv, StartsFresh
<1>11. QED
  BY <1>8, <1>9, <1>10 DEF EndInv

LEMMA CollectEnds ==
  ASSUME ProcessTypeOK, ReleaseInv, EndInv, Collection \/ Leave
  PROVE  EndInv'
<1>1. UNCHANGED <<rpc, readerStarted>>
  BY DEF Collection, Leave, TakeChunk, SettleChunk, NoChunk, AwaitChild, Close, EndFlush,
         RaiseResult, GoesOn, CollectUnchanged, readerVars
<1>2. CASE TakeChunk
  <2>1. /\ launcher \in Collecting /\ launcher' \in Collecting /\ output # <<>>
        /\ output' = Tail(output) /\ UNCHANGED endVars
    BY <1>2 DEF TakeChunk, Collecting
  <2>2. ASSUME NEW s \in Streams, NoMoreChunks(s) PROVE NoMoreChunks(s)'
    <3>1. output \in Seq(Streams) /\ DOMAIN output = 1..Len(output)
      BY DEF ProcessTypeOK, OutputType
    <3>2. /\ DOMAIN output' = 1..Len(output) - 1
          /\ \A i \in 1..Len(output) - 1 : output'[i] = output[i + 1] /\ i + 1 \in DOMAIN output
      BY <2>1, <3>1
    <3>3. QED
      BY <1>1, <2>2, <3>1, <3>2 DEF NoMoreChunks
  <2>3. StartsFresh' /\ EndedByReader'
    BY <1>1, <2>1 DEF EndInv, StartsFresh, EndedByReader, endVars, Collecting
  <2>4. ToldTruly'
    BY <2>1, <2>2 DEF EndInv, ToldTruly, endVars, Collecting, SettingUp
  <2>5. QED
    BY <2>3, <2>4 DEF EndInv
<1>3. ASSUME NEW force, Notify(force), UNCHANGED streamOutcome \/ AbortAcquired,
             launcher \in Collecting,
             launcher' \notin SettingUp \cup {"failing", "raising"},
             launcher' \in Collecting => ~force /\ UNCHANGED <<output, streamOutcome>>
      PROVE  EndInv'
  <2>1. StartsFresh' /\ EndedByReader'
    BY <1>1, <1>3 DEF EndInv, StartsFresh, EndedByReader, AbortAcquired, ProcessTypeOK, EndType,
                      SettingUp
  <2>2. ASSUME NEW s \in Streams, toldEnd'[s] # "none"
        PROVE  streamOutcome'[s] = toldEnd'[s]
    <3>1. OutcomesStay
      BY <1>3, FinalOutcomes DEF ProcessTypeOK
    <3>2. toldEnd[s] # "none" => streamOutcome[s] = toldEnd[s] /\ toldEnd[s] # "PENDING"
      BY DEF EndInv, ToldTruly, ProcessTypeOK, EndType, Terminals
    <3>3. QED
      BY <1>3, <2>2, <3>1, <3>2 DEF Notify, OutcomesStay
  <2>3. ASSUME NEW s \in Streams, toldEnd'[s] # "none", launcher' \in Collecting
        PROVE  NoMoreChunks(s)'
    <3>1. UNCHANGED <<output, streamOutcome, rpc>> /\ ~force
      BY <1>1, <1>3, <2>3
    <3>2. CASE toldEnd[s] # "none"
      BY <1>3, <3>1, <3>2 DEF EndInv, ToldTruly, NoMoreChunks
    <3>3. CASE toldEnd[s] = "none"
      <4>1. /\ streamOutcome[s] # "PENDING" /\ ~Queued(s)
            /\ streamOutcome[s] # "ABORTED" \/ Safe(s)
        BY <1>3, <2>3, <3>1, <3>3 DEF Notify
      <4>2. \A i \in DOMAIN output' : output'[i] # s
        BY <4>1 DEF Queued
      <4>3. CASE Safe(s)
        BY <1>3, <3>1, <4>2, <4>3
           DEF Safe, NoMoreChunks, ReleaseInv, ReadersKnown, Collecting
      <4>4. CASE streamOutcome[s] # "ABORTED"
        BY <3>1, <4>1, <4>2, <4>4
           DEF NoMoreChunks, EndInv, EndedByReader, ProcessTypeOK, EndType, Terminals
      <4>5. QED
        BY <4>1, <4>3, <4>4
    <3>4. QED
      BY <3>2, <3>3
  <2>4. ToldTruly'
    BY <1>3, <2>2, <2>3 DEF ToldTruly
  <2>5. QED
    BY <2>1, <2>4 DEF EndInv
<1>4. CASE SettleChunk \/ NoChunk
  BY <1>3, <1>4 DEF SettleChunk, NoChunk, Collecting, SettingUp
<1>5. CASE EndFlush
  BY <1>3, <1>5 DEF EndFlush, Collecting, SettingUp
<1>6. CASE AwaitChild \/ Leave
  BY <1>1, <1>6, EndKept DEF AwaitChild, Leave, Call, RequestStop, Collecting, SettingUp
<1>7. CASE Close \/ RaiseResult
  BY <1>1, <1>7, EndKept DEF Close, RaiseResult, endVars, Collecting, SettingUp
<1>8. QED
  BY <1>2, <1>4, <1>5, <1>6, <1>7 DEF Collection

LEMMA OtherEnds ==
  ASSUME ProcessTypeOK, EndInv,
         \/ KeeperStep \/ CheckDeadline \/ CallShutdown \/ ChildExits \/ BudgetPasses
         \/ \E t \in Threads : DeliverStatus(t) \/ InterruptWait(t)
         \/ \E k \in Actions : ActionMoves(k)
  PROVE  EndInv'
<1>1. CASE KeeperStep \/ CheckDeadline
  <2>1. KeeperUnchanged
    BY <1>1 DEF KeeperStep, CheckDeadline, Supervise, EnterStage, StartStage, ObserveStage,
                CancelAll, AwaitTermination, AwaitKill, Observe, WatchLate
  <2>2. UNCHANGED streamOutcome \/ AbortAcquired
    BY <1>1 DEF KeeperStep, CheckDeadline, Supervise, EnterStage, StartStage, ObserveStage,
                CancelAll, AwaitTermination, AwaitKill, Observe, WatchLate, RequestStop
  <2>3. QED
    BY <2>1, <2>2, EndKept DEF KeeperUnchanged, launchVars, readerVars, outputVars
<1>2. CASE \/ CallShutdown \/ ChildExits \/ BudgetPasses
           \/ \E t \in Threads : DeliverStatus(t) \/ InterruptWait(t)
           \/ \E k \in Actions : ActionMoves(k)
  <2>1. UNCHANGED <<rpc, readerStarted, output, toldEnd, launcher>>
    BY <1>2 DEF CallShutdown, ChildExits, BudgetPasses, DeliverStatus, InterruptWait,
                ActionMoves, CallUnchanged, launchVars, readerVars, outputVars, endVars
  <2>2. UNCHANGED streamOutcome \/ AbortAcquired
    BY <1>2 DEF CallShutdown, ChildExits, BudgetPasses, DeliverStatus, InterruptWait,
                ActionMoves, endVars, RequestStop
  <2>3. QED
    BY <2>1, <2>2, EndKept
<1>3. QED
  BY <1>1, <1>2

LEMMA DispatchedBy ==
  ASSUME ProcessNext, ~TakeChunk
  PROVE  UNCHANGED dispatched
<1>1. CASE Launch \/ Leave \/ Collection
  BY <1>1 DEF Launch, Prepare, Factory, Transfer, StartReader, KnowReader, FailSetup, EndLaunch,
              Leave, Collection, SettleChunk, NoChunk, AwaitChild, Close, EndFlush, RaiseResult,
              outputVars
<1>2. ASSUME NEW s \in Streams, ReaderStep(s) PROVE UNCHANGED dispatched
  BY <1>2 DEF ReaderStep, FirstRead, ReadChunk, ReadNothing, ReadEnd, ReadFails, Put,
              FailedReaderStops, FinishReader, ReaderUnchanged
<1>3. CASE KeeperStep \/ CheckDeadline
  BY <1>3 DEF KeeperStep, CheckDeadline, Supervise, EnterStage, StartStage, ObserveStage,
              CancelAll, AwaitTermination, AwaitKill, Observe, WatchLate, KeeperUnchanged,
              outputVars
<1>4. CASE \/ CallShutdown \/ ChildExits \/ BudgetPasses
           \/ \E t \in Threads : DeliverStatus(t) \/ InterruptWait(t)
           \/ \E k \in Actions : ActionMoves(k)
  BY <1>4 DEF CallShutdown, ChildExits, BudgetPasses, DeliverStatus, InterruptWait,
              ActionMoves, CallUnchanged, outputVars
<1>5. QED
  BY <1>1, <1>2, <1>3, <1>4 DEF ProcessNext

LEMMA ToldBy ==
  ASSUME ProcessNext
  PROVE  UNCHANGED toldEnd \/ \E force : Notify(force)
<1>1. CASE Launch \/ Leave \/ Collection
  BY <1>1 DEF Launch, Prepare, Factory, Transfer, StartReader, KnowReader, FailSetup, EndLaunch,
              Leave, Collection, TakeChunk, SettleChunk, NoChunk, AwaitChild, Close, EndFlush,
              RaiseResult, endVars
<1>2. ASSUME NEW s \in Streams, ReaderStep(s) PROVE UNCHANGED toldEnd
  BY <1>2 DEF ReaderStep, FirstRead, ReadChunk, ReadNothing, ReadEnd, ReadFails, Put,
              FailedReaderStops, FinishReader, ReaderUnchanged
<1>3. CASE KeeperStep \/ CheckDeadline
  BY <1>3 DEF KeeperStep, CheckDeadline, Supervise, EnterStage, StartStage, ObserveStage,
              CancelAll, AwaitTermination, AwaitKill, Observe, WatchLate, KeeperUnchanged
<1>4. CASE \/ CallShutdown \/ ChildExits \/ BudgetPasses
           \/ \E t \in Threads : DeliverStatus(t) \/ InterruptWait(t)
           \/ \E k \in Actions : ActionMoves(k)
  BY <1>4 DEF CallShutdown, ChildExits, BudgetPasses, DeliverStatus, InterruptWait,
              ActionMoves, CallUnchanged, endVars
<1>5. QED
  BY <1>1, <1>2, <1>3, <1>4 DEF ProcessNext

LEMMA EndAlways == ProcessSpec => [](ProcessTypeOK /\ ReleaseInv /\ EndInv)
<1>1. ASSUME ProcessTypeOK, EndInv, UNCHANGED processVars PROVE EndInv'
  BY <1>1, EndKept DEF processVars, launchVars, readerVars, outputVars, endVars
<1>2. ProcessTypeOK /\ ReleaseInv /\ EndInv /\ [ProcessNext]_processVars => EndInv'
  BY <1>1, LaunchEnds, ReaderEnds, CollectEnds, OtherEnds DEF ProcessNext
<1>3. QED
  BY <1>2, EndInit, ReleaseAlways, PTL DEF ProcessSpec

\* on_stream_end is called once for a stream, with its final outcome, and after
\* its last chunk, in whatever order readers, cancellation and the flush come
\* (_collect, notify).
THEOREM EndsToldLast == ProcessSpec => EndsAfterChunks
<1> DEFINE Rests(s) ==
             /\ toldEnd[s] # "none" =>
                  /\ toldEnd'[s] = toldEnd[s] /\ streamOutcome'[s] = toldEnd[s]
                  /\ dispatched'[s] = dispatched[s]
             /\ streamOutcome[s] # "PENDING" => streamOutcome'[s] = streamOutcome[s]
<1>1. ASSUME ProcessTypeOK, EndInv, ProcessNext, NEW s \in Streams PROVE Rests(s)
  <2>1. OutcomesStay
    BY <1>1, OutcomeStep, FinalOutcomes DEF ProcessTypeOK
  <2>2. ASSUME toldEnd[s] # "none"
        PROVE  streamOutcome[s] = toldEnd[s] /\ toldEnd[s] # "PENDING"
    BY <1>1, <2>2 DEF EndInv, ToldTruly, ProcessTypeOK, EndType, Terminals
  <2>3. toldEnd[s] # "none" => toldEnd'[s] = toldEnd[s]
    BY <1>1, ToldBy DEF Notify
  <2>4. ASSUME toldEnd[s] # "none" PROVE dispatched'[s] = dispatched[s]
    <3>1. CASE TakeChunk
      <4>1. NoMoreChunks(s) /\ output # <<>>
        BY <1>1, <2>4, <3>1 DEF EndInv, ToldTruly, TakeChunk, Collecting
      <4>2. Head(output) # s
        BY <1>1, <4>1 DEF NoMoreChunks, ProcessTypeOK, OutputType
      <4>3. QED
        BY <1>1, <3>1, <4>2 DEF TakeChunk, ProcessTypeOK, OutputType
    <3>2. CASE ~TakeChunk
      BY <1>1, <3>2, DispatchedBy
    <3>3. QED
      BY <3>1, <3>2
  <2>5. QED
    BY <2>1, <2>2, <2>3, <2>4 DEF OutcomesStay
<1>2. ProcessTypeOK /\ EndInv /\ [ProcessNext]_processVars
      => [\A s \in Streams : Rests(s)]_processVars
  BY <1>1
<1>3. QED
  BY <1>2, EndAlways, PTL DEF ProcessSpec, EndsAfterChunks

----------------------------------------------------------------------------
(* Completeness.  Until somebody asks for cleanup, a chunk that was read is  *)
(* with the callback, in the queue or in the hands of its reader.            *)

Occurrences(q, s) == {i \in DOMAIN q : q[i] = s}
Waiting(q, s) == Cardinality(Occurrences(q, s))

LEMMA FiniteOccurrences ==
  ASSUME NEW S, NEW q \in Seq(S), NEW s
  PROVE  IsFiniteSet(Occurrences(q, s)) /\ Waiting(q, s) \in Nat
<1>1. Occurrences(q, s) \in SUBSET (1..Len(q)) /\ Len(q) \in Nat
  BY DEF Occurrences
<1>2. IsFiniteSet(1..Len(q))
  BY <1>1, FS_Interval
<1>3. IsFiniteSet(Occurrences(q, s))
  BY <1>1, <1>2, FS_Subset
<1>4. QED
  BY <1>3, FS_CardinalityType DEF Waiting

LEMMA WaitingEmpty ==
  ASSUME NEW s
  PROVE  Waiting(<<>>, s) = 0
<1>1. Occurrences(<<>>, s) = {}
  BY DEF Occurrences
<1>2. QED
  BY <1>1, FS_EmptySet DEF Waiting

LEMMA WaitingAppend ==
  ASSUME NEW S, NEW q \in Seq(S), NEW s \in S, NEW r \in S
  PROVE  Waiting(Append(q, s), r) = Waiting(q, r) + (IF r = s THEN 1 ELSE 0)
<1>1. /\ DOMAIN q = 1..Len(q) /\ Len(q) \in Nat
      /\ DOMAIN Append(q, s) = 1..Len(q) + 1
      /\ \A i \in 1..Len(q) : Append(q, s)[i] = q[i]
      /\ Append(q, s)[Len(q) + 1] = s
  OBVIOUS
<1>2. IsFiniteSet(Occurrences(q, r)) /\ Waiting(q, r) \in Nat
  BY FiniteOccurrences
<1>3. Len(q) + 1 \notin Occurrences(q, r)
  BY <1>1 DEF Occurrences
<1>4. CASE r = s
  <2>1. Occurrences(Append(q, s), r) = Occurrences(q, r) \cup {Len(q) + 1}
    BY <1>1, <1>4 DEF Occurrences
  <2>2. QED
    BY <2>1, <1>2, <1>3, <1>4, FS_AddElement DEF Waiting
<1>5. CASE r # s
  <2>1. Occurrences(Append(q, s), r) = Occurrences(q, r)
    BY <1>1, <1>5 DEF Occurrences
  <2>2. QED
    BY <2>1, <1>2, <1>5 DEF Waiting
<1>6. QED
  BY <1>4, <1>5

LEMMA WaitingTail ==
  ASSUME NEW S, NEW q \in Seq(S), q # <<>>, NEW r \in S
  PROVE  Waiting(q, r) = Waiting(Tail(q), r) + (IF r = Head(q) THEN 1 ELSE 0)
<1> DEFINE rest == Occurrences(q, r) \ {1}
           shift == [i \in rest |-> i - 1]
<1>1. /\ DOMAIN q = 1..Len(q) /\ Len(q) \in Nat \ {0} /\ Head(q) = q[1]
      /\ Tail(q) \in Seq(S)
      /\ DOMAIN Tail(q) = 1..Len(q) - 1
      /\ \A i \in 1..Len(q) - 1 : Tail(q)[i] = q[i + 1]
  OBVIOUS
<1>2. IsFiniteSet(Occurrences(q, r)) /\ Waiting(q, r) \in Nat
  BY FiniteOccurrences
<1>3. /\ IsFiniteSet(rest)
      /\ Cardinality(rest) = IF r = Head(q) THEN Waiting(q, r) - 1 ELSE Waiting(q, r)
  <2>1. 1 \in Occurrences(q, r) <=> r = Head(q)
    BY <1>1 DEF Occurrences
  <2>2. IsFiniteSet(rest)
        /\ Cardinality(rest) = IF 1 \in Occurrences(q, r) THEN Cardinality(Occurrences(q, r)) - 1
                               ELSE Cardinality(Occurrences(q, r))
    BY <1>2, FS_RemoveElement
  <2>3. QED
    BY <2>1, <2>2 DEF Waiting
<1>4. shift \in Bijection(rest, Occurrences(Tail(q), r))
  <2>1. \A i \in rest : i \in 2..Len(q) /\ q[i] = r
    BY <1>1 DEF Occurrences
  <2>2. \A i \in rest : i - 1 \in 1..Len(q) - 1 /\ Tail(q)[i - 1] = r
    BY <2>1, <1>1
  <2>3. shift \in [rest -> Occurrences(Tail(q), r)]
    BY <2>2, <1>1 DEF Occurrences
  <2>4. \A i, j \in rest : shift[i] = shift[j] => i = j
    BY <2>1
  <2>5. \A k \in Occurrences(Tail(q), r) : k + 1 \in rest /\ shift[k + 1] = k
    BY <1>1 DEF Occurrences
  <2>6. QED
    BY <2>3, <2>4, <2>5 DEF Bijection, Injection, IsInjective, Surjection
<1>5. Cardinality(rest) = Waiting(Tail(q), r)
  BY <1>3, <1>4, FS_Bijection DEF ExistsBijection, Waiting
<1>6. QED
  BY <1>2, <1>3, <1>5

Held(s) == IF rpc[s] = "put" THEN 1 ELSE 0
Balanced(s) == readCount[s] = dispatched[s] + Waiting(output, s) + Held(s)
Quiet(s) == rpc[s] \in {"none", "stopped"}

\* As long as nobody asked for cleanup.
Unasked ==
  ~Requested =>
    /\ ~resultDelivered /\ got.failures = {} /\ \A t \in Threads : shut[t] # "await"
    /\ launcher \in SettingUp \cup {"launched", "loop", "looping", "wait"}
    /\ \A s \in Streams : Balanced(s)
    /\ launcher = "wait" /\ ~collectFailed => output = <<>> /\ \A s \in Streams : Quiet(s)
\* The collection was the first to ask, when nothing was left.
Drained ==
  stopReason = "natural" =>
    \/ launcher \in {"leaving", "left"}
    \/ /\ launcher \in {"close", "flush", "flushing", "collected", "exited"}
       /\ output = <<>>
       /\ \A s \in Streams : Quiet(s) /\ dispatched[s] = readCount[s]

LEMMA NaturalInit == ProcessInit => Unasked /\ Drained
<1>1. \A s \in Streams : Waiting(<<>>, s) = 0
  BY WaitingEmpty
<1>2. QED
  BY <1>1 DEF ProcessInit, Unasked, Drained, Requested, SettingUp, Balanced, Held, Pending

LEMMA LaunchUnasked ==
  ASSUME ProcessTypeOK, ReleaseInv, StartsFresh, Unasked, ~Requested, ~Requested', Launch
  PROVE  Unasked'
<1>0. ASSUME NEW why, NEW place, why # "none", Call(why, place) PROVE FALSE
  BY <1>0, RequestLasts DEF Call
<1>1. CASE StartReader
  <2>1. launcher = "start" /\ launcher' = "starting" /\ rpc' = [rpc EXCEPT ![NextReader] = "top"]
        /\ UNCHANGED <<output, readCount, dispatched, resultDelivered, shut, got>>
    BY <1>1 DEF StartReader, outputVars, callVars
  <2>2. \A s \in Streams : s = NextReader => rpc[s] = "none"
    BY <2>1 DEF StartsFresh, NextReader, ReleaseInv, ReadersKnown
  <2>3. \A s \in Streams : Held(s)' = Held(s)
    BY <2>1, <2>2 DEF Held, ProcessTypeOK, ReaderType
  <2>4. QED
    BY <2>1, <2>3 DEF Unasked, Balanced, SettingUp
<1>2. CASE ~StartReader
  <2>1. UNCHANGED <<rpc, output, readCount, dispatched, shut, got>>
    BY <1>0, <1>2 DEF Launch, Prepare, Factory, Transfer, KnowReader, FailSetup, EndLaunch, NoCall,
                      readerVars, outputVars, callVars
  <2>2. launcher' \in SettingUp \cup {"launched", "loop"} /\ UNCHANGED resultDelivered
    <3>1. CASE EndLaunch
      <4>1. launcher = "callback" /\ got.failures = {} /\ ~resultDelivered
        BY <3>1 DEF EndLaunch, Unasked, SettingUp
      <4>2. QED
        BY <3>1, <4>1 DEF EndLaunch, ProcessTypeOK, StatusType
    <3>2. CASE ~EndLaunch
      BY <1>0, <1>2, <3>2 DEF Launch, Prepare, Factory, Transfer, KnowReader, FailSetup, SettingUp
    <3>3. QED
      BY <3>1, <3>2
  <2>3. QED
    BY <2>1, <2>2 DEF Unasked, Balanced, Held, SettingUp
<1>3. QED
  BY <1>1, <1>2

LEMMA ReaderUnasked ==
  ASSUME ProcessTypeOK, ReleaseInv, Unasked, ~Requested, ~Requested', NEW s \in Streams,
         ReaderStep(s)
  PROVE  Unasked'
<1>1. /\ UNCHANGED <<launcher, collectFailed, dispatched, resultDelivered, shut, got>>
      /\ ~Quiet(s)
  BY DEF ReaderStep, FirstRead, ReadChunk, ReadNothing, ReadEnd, ReadFails, Put,
         FailedReaderStops, FinishReader, ReaderUnchanged, launchVars, callVars, Quiet
<1>2. ~(launcher = "wait" /\ ~collectFailed)
  BY <1>1 DEF Unasked
<1>3. PICK p \in {"read", "put", "failed", "finish", "stopped"} : ReaderMoves(s, p)
  BY DEF ReaderStep, FirstRead, ReadChunk, ReadNothing, ReadEnd, ReadFails, Put,
         FailedReaderStops, FinishReader, ReadsOn
<1>4. rpc'[s] = p /\ \A r \in Streams \ {s} : rpc'[r] = rpc[r]
  BY <1>3 DEF ReaderMoves, ProcessTypeOK, ReaderType
<1>5. ~FailedReaderStops(s)
  BY RequestLasts DEF FailedReaderStops
<1>6. CASE ReadChunk(s)
  <2>1. /\ rpc[s] = "read" /\ rpc'[s] = "put" /\ UNCHANGED output
        /\ readCount' = [readCount EXCEPT ![s] = @ + 1]
    BY <1>6 DEF ReadChunk, ReaderMoves, ProcessTypeOK, ReaderType
  <2>2. output \in Seq(Streams)
    BY DEF ProcessTypeOK, OutputType
  <2>3. \A r \in Streams : Waiting(output, r) \in Nat
    BY <2>2, FiniteOccurrences
  <2>4. ASSUME NEW r \in Streams PROVE Balanced(r)'
    <3>1. readCount[r] \in Nat /\ dispatched[r] \in Nat /\ Balanced(r)
      BY DEF Unasked, ProcessTypeOK, OutputType
    <3>2. readCount'[r] = readCount[r] + (IF r = s THEN 1 ELSE 0)
      BY <2>1, <3>1 DEF ProcessTypeOK, OutputType
    <3>3. Held(r)' = Held(r) + (IF r = s THEN 1 ELSE 0)
      BY <1>4, <2>1 DEF Held
    <3>4. Waiting(output, r)' = Waiting(output, r) /\ dispatched'[r] = dispatched[r]
      BY <1>1, <2>1
    <3>5. Held(r) \in Nat /\ Waiting(output, r) \in Nat
      BY <2>3 DEF Held
    <3>6. QED
      BY <3>1, <3>2, <3>3, <3>4, <3>5 DEF Balanced
  <2>5. QED
    BY <1>1, <1>2, <2>4 DEF Unasked
<1>7. CASE Put(s)
  <2>1. ~DispatchClosed /\ ~resultDelivered
    BY DEF Unasked, DispatchClosed, SettingUp
  <2>2. rpc[s] = "put" /\ rpc'[s] # "put" /\ output' = Append(output, s) /\ UNCHANGED readCount
    <3>1. rpc[s] = "put" /\ output' = Append(output, s) /\ UNCHANGED readCount
      BY <1>7, <2>1, Capacity DEF Put, ProcessTypeOK, OutputType
    <3>2. rpc'[s] # "put"
      BY <1>7 DEF Put, ReadsOn, ReaderMoves, ProcessTypeOK, ReaderType
    <3>3. QED
      BY <3>1, <3>2
  <2>3. output \in Seq(Streams)
    BY DEF ProcessTypeOK, OutputType
  <2>4. \A r \in Streams : /\ Waiting(output, r) \in Nat
                            /\ Waiting(output', r) = Waiting(output, r) + (IF r = s THEN 1 ELSE 0)
    BY <2>2, <2>3, FiniteOccurrences, WaitingAppend
  <2>5. ASSUME NEW r \in Streams PROVE Balanced(r)'
    <3>1. readCount[r] \in Nat /\ dispatched[r] \in Nat /\ Balanced(r)
      BY DEF Unasked, ProcessTypeOK, OutputType
    <3>2. Held(r) = Held(r)' + (IF r = s THEN 1 ELSE 0) /\ Held(r)' \in Nat
      BY <1>4, <2>2 DEF Held
    <3>3. Waiting(output, r)' = Waiting(output, r) + (IF r = s THEN 1 ELSE 0)
          /\ Waiting(output, r) \in Nat
      BY <2>4
    <3>4. readCount'[r] = readCount[r] /\ dispatched'[r] = dispatched[r]
      BY <1>1, <2>2
    <3>5. QED
      BY <3>1, <3>2, <3>3, <3>4 DEF Balanced
  <2>6. QED
    BY <1>1, <1>2, <2>5 DEF Unasked
<1>8. CASE FirstRead(s) \/ ReadNothing(s) \/ ReadEnd(s) \/ ReadFails(s) \/ FinishReader(s)
  <2>1. /\ rpc[s] # "put" /\ p # "put" /\ UNCHANGED <<output, readCount>>
    BY <1>4, <1>8 DEF FirstRead, ReadNothing, ReadEnd, ReadFails, FinishReader, ReadsOn,
                      ReaderMoves, ProcessTypeOK, ReaderType
  <2>2. QED
    BY <1>1, <1>2, <1>4, <2>1 DEF Unasked, Balanced, Held
<1>9. QED
  BY <1>5, <1>6, <1>7, <1>8 DEF ReaderStep

LEMMA CollectUnasked ==
  ASSUME ProcessTypeOK, ReleaseInv, Unasked, ~Requested, ~Requested', Collection \/ Leave
  PROVE  Unasked'
<1>1. ~AwaitChild /\ ~Leave
  <2>1. ASSUME NEW why, NEW place, why # "none", Call(why, place) PROVE FALSE
    BY <2>1, RequestLasts DEF Call
  <2>2. QED
    BY <2>1 DEF AwaitChild, Leave
<1>2. TakeChunk \/ SettleChunk \/ NoChunk
  BY <1>1 DEF Collection, Close, EndFlush, RaiseResult, Unasked, SettingUp
<1>3. UNCHANGED <<rpc, readerStarted, readCount, resultDelivered, shut, got>>
  BY <1>2 DEF TakeChunk, SettleChunk, NoChunk, GoesOn, CollectUnchanged, readerVars, callVars
<1>4. CASE TakeChunk
  <2>1. /\ launcher = "loop" /\ launcher' = "looping" /\ output # <<>> /\ output' = Tail(output)
        /\ dispatched' = [dispatched EXCEPT ![Head(output)] = @ + 1]
    BY <1>4 DEF TakeChunk, Unasked, SettingUp
  <2>2. output \in Seq(Streams) /\ Tail(output) \in Seq(Streams) /\ Head(output) \in Streams
    BY <2>1 DEF ProcessTypeOK, OutputType
  <2>3. \A r \in Streams :
          /\ Waiting(output', r) \in Nat
          /\ Waiting(output, r) = Waiting(output', r) + (IF r = Head(output) THEN 1 ELSE 0)
    BY <2>1, <2>2, FiniteOccurrences, WaitingTail
  <2>4. ASSUME NEW r \in Streams PROVE Balanced(r)'
    <3>1. readCount[r] \in Nat /\ dispatched[r] \in Nat /\ Balanced(r)
      BY DEF Unasked, ProcessTypeOK, OutputType
    <3>2. dispatched'[r] = dispatched[r] + (IF r = Head(output) THEN 1 ELSE 0)
      BY <2>1, <2>2, <3>1 DEF ProcessTypeOK, OutputType
    <3>3. Waiting(output, r) = Waiting(output, r)' + (IF r = Head(output) THEN 1 ELSE 0)
          /\ Waiting(output, r)' \in Nat
      BY <2>3
    <3>4. readCount'[r] = readCount[r] /\ Held(r)' = Held(r) /\ Held(r) \in Nat
      BY <1>3 DEF Held
    <3>5. QED
      BY <3>1, <3>2, <3>3, <3>4 DEF Balanced
  <2>5. QED
    BY <1>3, <2>1, <2>4 DEF Unasked
<1>5. CASE SettleChunk \/ NoChunk
  <2>1. UNCHANGED <<output, dispatched>> /\ launcher' \in {"loop", "wait"}
    BY <1>5 DEF SettleChunk, NoChunk, Unasked, SettingUp
  <2>2. ASSUME launcher' = "wait", ~collectFailed'
        PROVE  output' = <<>> /\ \A s \in Streams : Quiet(s)'
    <3>1. NoChunk /\ AllRead /\ output = <<>> /\ launcher = "loop"
      BY <1>5, <2>2 DEF SettleChunk, NoChunk, Unasked, SettingUp
    <3>2. \A s \in Streams : Quiet(s)
      BY <3>1 DEF AllRead, Safe, Quiet, ReleaseInv, ReadersKnown
    <3>3. QED
      BY <1>3, <2>1, <3>1, <3>2 DEF Quiet
  <2>3. QED
    BY <1>3, <2>1, <2>2 DEF Unasked, Balanced, Held
<1>6. QED
  BY <1>2, <1>4, <1>5

LEMMA UnaskedStep ==
  ASSUME ProcessTypeOK, ReleaseInv, StartsFresh, Unasked, ProcessNext
  PROVE  Unasked'
<1> SUFFICES ASSUME ~Requested' PROVE Unasked'
  BY DEF Unasked
<1>1. ~Requested
  BY RequestStays
<1>2. CASE \/ KeeperStep \/ CheckDeadline \/ CallShutdown
           \/ \E t \in Threads : DeliverStatus(t) \/ InterruptWait(t)
  <2>1. keeper.pc = "waiting"
    BY <1>1 DEF ReleaseInv, ReleasedOnRequest
  <2>2. ~KeeperStep
    BY <1>1, <2>1 DEF KeeperStep, Supervise, EnterStage, StartStage, ObserveStage, CancelAll,
                      AwaitTermination, AwaitKill, Observe, WatchLate
  <2>3. ~CheckDeadline /\ ~CallShutdown
    BY RequestLasts DEF CheckDeadline, CallShutdown
  <2>4. QED
    BY <1>1, <1>2, <2>2, <2>3 DEF DeliverStatus, InterruptWait, Unasked
<1>3. CASE ChildExits \/ BudgetPasses \/ \E k \in Actions : ActionMoves(k)
  BY <1>1, <1>3 DEF ChildExits, BudgetPasses, ActionMoves, Unasked, Balanced, Held, Quiet,
                    launchVars, readerVars, outputVars, callVars
<1>4. QED
  BY <1>1, <1>2, <1>3, LaunchUnasked, ReaderUnasked, CollectUnasked DEF ProcessNext

\* Only the end of a collection asks naturally, or the end of the with block
\* of a process that was not collected.
LEMMA NaturalBy ==
  ASSUME ProcessNext, ~Requested, stopReason' = "natural"
  PROVE  \/ Leave /\ launcher' = "leaving"
         \/ AwaitChild /\ ~collectFailed
<1> USE DEF RequestStop, Requested, stopVars
<1>1. CASE Launch
  BY <1>1 DEF Launch, Prepare, Factory, Transfer, StartReader, KnowReader, FailSetup, EndLaunch,
              Call, NoCall
<1>2. CASE Leave
  BY <1>2 DEF Leave, Call
<1>3. CASE AwaitChild
  BY <1>3 DEF AwaitChild, Call, NotInterrupted
<1>4. CASE Collection /\ ~AwaitChild
  BY <1>4 DEF Collection, TakeChunk, SettleChunk, NoChunk, Close, EndFlush, RaiseResult, GoesOn
<1>5. ASSUME NEW s \in Streams, ReaderStep(s) PROVE FALSE
  BY <1>5 DEF ReaderStep, FirstRead, ReadChunk, ReadNothing, ReadEnd, ReadFails, Put,
              FailedReaderStops, FinishReader
<1>6. CASE KeeperStep \/ CheckDeadline
  BY <1>6 DEF KeeperStep, CheckDeadline, Supervise, EnterStage, StartStage, ObserveStage,
              CancelAll, AwaitTermination, AwaitKill, Observe, WatchLate
<1>7. CASE \/ CallShutdown \/ ChildExits \/ BudgetPasses
           \/ \E t \in Threads : DeliverStatus(t) \/ InterruptWait(t)
           \/ \E k \in Actions : ActionMoves(k)
  BY <1>7 DEF CallShutdown, ChildExits, BudgetPasses, DeliverStatus, InterruptWait, ActionMoves
<1>8. QED
  BY <1>1, <1>2, <1>3, <1>4, <1>5, <1>6, <1>7 DEF ProcessNext

LEMMA DrainedStep ==
  ASSUME ProcessTypeOK, Unasked, Drained, ProcessNext
  PROVE  Drained'
<1> SUFFICES ASSUME stopReason' = "natural" PROVE Drained'
  BY DEF Drained
<1>1. CASE ~Requested
  <2>1. CASE Leave /\ launcher' = "leaving"
    BY <2>1 DEF Drained
  <2>2. CASE AwaitChild /\ ~collectFailed
    <3>1. /\ launcher = "wait" /\ launcher' = "close"
          /\ UNCHANGED <<rpc, output, readCount, dispatched>>
      BY <2>2 DEF AwaitChild, Call, CollectUnchanged, readerVars
    <3>2. output = <<>> /\ \A s \in Streams : Quiet(s) /\ Balanced(s)
      BY <1>1, <2>2, <3>1 DEF Unasked
    <3>3. \A s \in Streams : dispatched[s] = readCount[s]
      BY <3>2, WaitingEmpty DEF Balanced, Held, Quiet, ProcessTypeOK, OutputType
    <3>4. QED
      BY <3>1, <3>2, <3>3 DEF Drained, Quiet
  <2>3. QED
    BY <1>1, <2>1, <2>2, NaturalBy
<1>2. CASE Requested
  <2>1. stopReason = "natural"
    BY <1>2, ReasonStays
  <2>2. CASE launcher \in {"leaving", "left"}
    <3>1. launcher' \in {"leaving", "left"}
      BY <2>2 DEF ProcessNext, Launch, Prepare, Factory, Transfer, StartReader, KnowReader,
                  FailSetup, EndLaunch, Leave, Collection, TakeChunk, SettleChunk, NoChunk,
                  AwaitChild, Close, EndFlush, RaiseResult, ReaderStep, FirstRead, ReadChunk,
                  ReadNothing, ReadEnd, ReadFails, Put, FailedReaderStops, FinishReader,
                  ReaderUnchanged, KeeperStep, CheckDeadline, Supervise, EnterStage, StartStage,
                  ObserveStage, CancelAll, AwaitTermination, AwaitKill, Observe, WatchLate,
                  KeeperUnchanged, CallShutdown, DeliverStatus, InterruptWait, CallUnchanged,
                  ChildExits, BudgetPasses, ActionMoves, launchVars
    <3>2. QED
      BY <3>1 DEF Drained
  <2>3. CASE launcher \in {"close", "flush", "flushing", "collected", "exited"}
    <3>1. output = <<>> /\ \A s \in Streams : Quiet(s)
      BY <2>1, <2>3 DEF Drained
    <3>2. \A s \in Streams : ~ReaderStep(s)
      BY <3>1 DEF Quiet, ReaderStep, FirstRead, ReadChunk, ReadNothing, ReadEnd, ReadFails, Put,
                  FailedReaderStops, FinishReader
    <3>3. CASE Launch
      BY <2>3, <3>3 DEF Launch, Prepare, Factory, Transfer, StartReader, KnowReader, FailSetup,
                        EndLaunch
    <3>4. CASE Leave \/ Collection
      <4>1. /\ UNCHANGED <<rpc, output, readCount, dispatched>>
            /\ launcher' \in {"close", "flush", "flushing", "collected", "exited"}
        BY <2>3, <3>1, <3>4
           DEF Leave, Collection, TakeChunk, SettleChunk, NoChunk, AwaitChild, Close, EndFlush,
               RaiseResult, Call, GoesOn, CollectUnchanged, readerVars
      <4>2. QED
        BY <2>1, <2>3, <4>1 DEF Drained, Quiet
    <3>5. CASE KeeperStep \/ CheckDeadline
      <4>1. KeeperUnchanged
        BY <3>5 DEF KeeperStep, CheckDeadline, Supervise, EnterStage, StartStage, ObserveStage,
                    CancelAll, AwaitTermination, AwaitKill, Observe, WatchLate
      <4>2. QED
        BY <2>1, <2>3, <4>1 DEF KeeperUnchanged, Drained, Quiet, launchVars, readerVars, outputVars
    <3>6. CASE \/ CallShutdown \/ ChildExits \/ BudgetPasses
               \/ \E t \in Threads : DeliverStatus(t) \/ InterruptWait(t)
               \/ \E k \in Actions : ActionMoves(k)
      <4>1. UNCHANGED <<launcher, rpc, output, readCount, dispatched>>
        BY <3>6 DEF CallShutdown, ChildExits, BudgetPasses, DeliverStatus, InterruptWait,
                    ActionMoves, CallUnchanged, launchVars, readerVars, outputVars
      <4>2. QED
        BY <2>1, <2>3, <4>1 DEF Drained, Quiet
    <3>7. QED
      BY <3>2, <3>3, <3>4, <3>5, <3>6 DEF ProcessNext
  <2>4. QED
    BY <2>1, <2>2, <2>3 DEF Drained
<1>3. QED
  BY <1>1, <1>2

\* A collection that was the first to ask for cleanup has given every chunk that
\* any reader read to its callback, for any capacity of the queue (_collect).
THEOREM NaturalCollectionComplete == ProcessSpec => []NaturalOutputComplete
<1>1. ASSUME ProcessTypeOK, Unasked, Drained, UNCHANGED processVars PROVE Unasked' /\ Drained'
  <2>1. UNCHANGED <<launcher, collectFailed, rpc, output, readCount, dispatched, stopReason,
                    resultDelivered, shut, got>>
    BY <1>1 DEF processVars, launchVars, readerVars, outputVars, stopVars, callVars
  <2>2. Unasked'
    BY <1>1, <2>1 DEF Unasked, Requested, Balanced, Held, Quiet
  <2>3. Drained'
    BY <1>1, <2>1 DEF Drained, Quiet
  <2>4. QED
    BY <2>2, <2>3
<1>2. /\ ProcessTypeOK /\ ReleaseInv /\ EndInv /\ Unasked /\ Drained /\ [ProcessNext]_processVars
      => (Unasked /\ Drained)'
  BY <1>1, UnaskedStep, DrainedStep DEF EndInv
<1>3. ProcessTypeOK /\ Drained => NaturalOutputComplete
  BY DEF Drained, NaturalOutputComplete, ProcessTypeOK, OutputType
<1>4. QED
  BY <1>2, <1>3, NaturalInit, EndAlways, PTL DEF ProcessSpec
=============================================================================
