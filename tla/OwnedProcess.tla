---------------------------- MODULE OwnedProcess ----------------------------
(***************************************************************************)
(* One OwnedProcess (process.py): a child, a reader thread for each of its *)
(* captured streams, the prepared continuation that supervises and cleans  *)
(* up, the thread that launches, collects and leaves, and another thread   *)
(* that calls shutdown.                                                    *)
(*                                                                         *)
(* Simplifications.  A chunk is its stream; retained tails, the return     *)
(* code and the flag of the deadline are left out.  A wait shorter than    *)
(* the budget of a shutdown may end at any time.  The two streams' end     *)
(* notifications of one round are one step.  Terminating shows only in the *)
(* exit of the child, which may come at any time.  Failures are errors or  *)
(* interruptions, whose precedence belongs to CleanupFailures.  The other  *)
(* thread calls shutdown once.                                             *)
(***************************************************************************)
EXTENDS Integers, Sequences, FiniteSets

CONSTANTS Streams,
          Descriptorless,     \* streams without a descriptor, whose read may block
          OutputCapacity,     \* slots of _output
          Settings            \* what a launch may meet: a stop policy, what may fail, the
                              \* bounds on failures and chunks, an interfering thread, a collection

Stage == [action : BOOLEAN, runOnNormal : BOOLEAN]

Operations == {"prepare", "launch", "read", "action", "callback", "cleanup"}

ASSUME ProcessAssumption ==
  /\ Descriptorless \subseteq Streams
  /\ OutputCapacity \in Nat \ {0}
  /\ Settings \subseteq
       [stages : Seq(Stage), drain : BOOLEAN, failing : SUBSET Operations, failures : Nat,
        chunks : [Streams -> Nat], interferes : BOOLEAN, collects : BOOLEAN]

VARIABLES
  setting,
  launcher, collectFailed,       \* the launching thread: place, failures of the collection
  child, childReaped,            \* the child, _reaped
  rpc, readerStarted,            \* readers: place, _started
  pipes, releasedPipes,          \* _acquired, owners released
  output, readCount, dispatched, \* _output, chunks read, chunks given to the callback
  streamOutcome, toldEnd,        \* _outcomes, the outcome on_stream_end was called with
  stopReason, cancelSet, budget, \* _reason once _requested, _cancel, the time allowed
  keeper,                        \* the continuation: place and stage
  prepared, work, seen,          \* actions: prepared, what they did, known as settled
  ledger, faults, lifecycle,     \* _ledger, failures so far, _status
  resultDelivered,               \* _delivered
  shut, got                      \* calls of _shutdown, the status the launching one returned

launchVars == <<launcher, collectFailed>>
childVars == <<child, childReaped>>
readerVars == <<rpc, readerStarted>>
pipeVars == <<pipes, releasedPipes>>
outputVars == <<output, readCount, dispatched>>
endVars == <<streamOutcome, toldEnd>>
stopVars == <<stopReason, cancelSet, budget>>
actionVars == <<prepared, work, seen>>
failureVars == <<ledger, faults>>
callVars == <<shut, got>>
processVars ==
  <<setting, launchVars, childVars, readerVars, pipeVars, outputVars, endVars, stopVars, keeper,
    actionVars, failureVars, lifecycle, resultDelivered, callVars>>

Threads == {"launcher", "other"}
Kinds == {"error", "interruption", "incomplete"}
Terminals == {"EOF", "READ_FAILED", "ABORTED"}
Status == [complete : BOOLEAN, failures : SUBSET Kinds]
Pending == [complete |-> FALSE, failures |-> {}]
Actions == {k \in DOMAIN setting.stages : setting.stages[k].action}

ProcessInit ==
  /\ setting \in Settings
  /\ launcher = "prepare" /\ collectFailed = FALSE
  /\ child = "none" /\ childReaped = FALSE
  /\ rpc = [s \in Streams |-> "none"]
  /\ readerStarted = [s \in Streams |-> FALSE]
  /\ pipes = {} /\ releasedPipes = {}
  /\ output = <<>>
  /\ readCount = [s \in Streams |-> 0] /\ dispatched = [s \in Streams |-> 0]
  /\ streamOutcome = [s \in Streams |-> "PENDING"] /\ toldEnd = [s \in Streams |-> "none"]
  /\ stopReason = "none" /\ cancelSet = FALSE /\ budget = "unset"
  /\ keeper = [pc |-> "waiting", stage |-> 1]
  /\ prepared = {}
  /\ work = [k \in Actions |-> "idle"] /\ seen = {}
  /\ ledger = {} /\ faults = 0 /\ lifecycle = Pending
  /\ resultDelivered = FALSE
  /\ shut = [t \in Threads |-> "idle"] /\ got = Pending

Requested == stopReason # "none"
SettingUp == {"prepare", "factory", "transfer", "start", "starting", "callback"}
SetupDone == launcher \notin SettingUp
SupervisingLaunch == launcher = "callback"
Supervising == SetupDone \/ launcher = "callback"
DispatchClosed == launcher \in {"flush", "flushing", "collected", "exited"}
PhaseDone == keeper.pc \in {"late", "gone"}

AtRest(t) == shut[t] \in {"idle", "returned"}

NoFault == UNCHANGED failureVars
Fault(what, kind) ==
  /\ what \in setting.failing
  /\ faults < setting.failures
  /\ faults' = faults + 1
  /\ ledger' = ledger \cup {kind}
Fails(what) == Fault(what, "error")
Interrupts(what) == Fault(what, "interruption")

\* The reader has confirmed its end, or there is none.
Safe(s) == ~readerStarted[s] \/ rpc[s] = "stopped"

\* Nothing owned is left: _complete.
Settled ==
  /\ childReaped
  /\ \A s \in Streams : Safe(s)
  /\ pipes \subseteq releasedPipes
  /\ prepared \subseteq seen

SetOutcome(s, o) ==
  streamOutcome' = [streamOutcome EXCEPT ![s] = IF @ = "PENDING" THEN o ELSE @]
AbortAcquired ==
  streamOutcome' = [s \in Streams |->
    IF s \in pipes /\ streamOutcome[s] = "PENDING" THEN "ABORTED" ELSE streamOutcome[s]]

\* The locked part of _shutdown: only the first request counts.
RequestStop(why) ==
  IF Requested
  THEN UNCHANGED <<stopVars, streamOutcome>>
  ELSE /\ stopReason' = why /\ budget' = "running"
       /\ IF setting.drain THEN UNCHANGED <<cancelSet, streamOutcome>>
          ELSE cancelSet' = TRUE /\ AbortAcquired

----------------------------------------------------------------------------
(* launch *)

\* The thread calls _shutdown and goes on at the given place.
Call(why, place) ==
  /\ RequestStop(why)
  /\ launcher' = place /\ shut' = [shut EXCEPT !["launcher"] = "await"]
NoCall == UNCHANGED <<shut, stopVars, streamOutcome>>

\* The readiness of the actions, before there is anything else to clean up.
Prepare ==
  /\ launcher = "prepare"
  /\ \/ prepared' = Actions /\ launcher' = "factory" /\ NoFault /\ NoCall /\ UNCHANGED childReaped
     \/ /\ \E k \in Actions : prepared' = {j \in Actions : j <= k}
        /\ Fails("prepare") \/ Interrupts("prepare")
        /\ childReaped' = TRUE
        /\ Call("abnormal", "raising")
  /\ UNCHANGED <<setting, collectFailed, child, readerVars, pipeVars, outputVars, toldEnd,
                 keeper, work, seen, lifecycle, resultDelivered, got>>

\* The factory may leave out a pipe, which _transfer finds out.
Factory ==
  /\ launcher = "factory"
  /\ \/ /\ child' = "running"
        /\ \/ pipes' = Streams
           \/ /\ "launch" \in setting.failing /\ faults < setting.failures
              /\ \E s \in Streams : pipes' = Streams \ {s}
        /\ launcher' = "transfer" /\ NoFault /\ NoCall /\ UNCHANGED childReaped
     \/ /\ Fails("launch")
        /\ childReaped' = TRUE
        /\ Call("abnormal", "failing")
        /\ UNCHANGED <<child, pipes>>
  /\ UNCHANGED <<setting, collectFailed, readerVars, releasedPipes, outputVars, toldEnd,
                 keeper, actionVars, lifecycle, resultDelivered, got>>

Transfer ==
  /\ launcher = "transfer" /\ pipes = Streams
  /\ launcher' = "start"
  /\ UNCHANGED <<setting, collectFailed, childVars, readerVars, pipeVars, outputVars, endVars, stopVars,
                 keeper, actionVars, failureVars, lifecycle, resultDelivered, callVars>>

\* The readers are started in a fixed order.
NextReader == CHOOSE s \in Streams : ~readerStarted[s]

\* _start_reader in two steps: the thread runs before it is known as started,
\* and whatever start raises, it is known.
StartReader ==
  /\ launcher = "start"
  /\ rpc' = [rpc EXCEPT ![NextReader] = "top"]
  /\ launcher' = "starting"
  /\ UNCHANGED <<setting, collectFailed, childVars, readerStarted, pipeVars, outputVars,
                 endVars, stopVars, keeper, actionVars, failureVars, lifecycle, resultDelivered,
                 callVars>>

Running == {s \in Streams : rpc[s] # "none"}

KnowReader ==
  /\ launcher = "starting"
  /\ readerStarted' = [s \in Streams |-> s \in Running]
  /\ \/ launcher' = (IF Running = Streams THEN "callback" ELSE "start") /\ NoFault /\ NoCall
     \/ Fails("launch") /\ Call("abnormal", "failing")
  /\ UNCHANGED <<setting, collectFailed, childVars, rpc, pipeVars, outputVars, toldEnd, keeper,
                 actionVars, lifecycle, resultDelivered, got>>

\* A transfer, a reader or on_launched fails, and the cleanup is awaited.
FailSetup ==
  /\ \/ launcher \in {"transfer", "start"} /\ Fails("launch")
     \/ launcher = "callback" /\ (Fails("launch") \/ Interrupts("launch"))
  /\ Call("abnormal", "failing")
  /\ UNCHANGED <<setting, collectFailed, childVars, readerVars, pipeVars, outputVars, toldEnd, keeper,
                 actionVars, lifecycle, resultDelivered, got>>

\* launch returns the owner, even one that failed to start, unless it was
\* interrupted or an action is not ready.
EndLaunch ==
  /\ launcher \in {"callback", "failing", "raising"} /\ AtRest("launcher")
  /\ LET raises == launcher = "raising" \/ "interruption" \in got.failures
     IN /\ launcher' = IF raises THEN "raised" ELSE IF setting.collects THEN "loop" ELSE "launched"
        /\ resultDelivered' = (resultDelivered \/ raises)
  /\ UNCHANGED <<setting, collectFailed, childVars, readerVars, pipeVars, outputVars, endVars, stopVars,
                 keeper, actionVars, failureVars, lifecycle, callVars>>

Launch == Prepare \/ Factory \/ Transfer \/ StartReader \/ KnowReader \/ FailSetup \/ EndLaunch

----------------------------------------------------------------------------
(* The reader of a stream: _reader, _read. *)

ReaderMoves(s, place) == rpc' = [rpc EXCEPT ![s] = place]
ReaderUnchanged ==
  UNCHANGED <<setting, launchVars, childVars, readerStarted, pipeVars, dispatched, toldEnd, keeper,
              actionVars, lifecycle, resultDelivered, callVars>>

\* A reader finishes its first read even if cancelled, unless all was delivered.
FirstRead(s) ==
  /\ rpc[s] = "top"
  /\ ReaderMoves(s, IF cancelSet /\ resultDelivered THEN "finish" ELSE "read")
  /\ UNCHANGED <<output, readCount, streamOutcome, stopVars, failureVars>> /\ ReaderUnchanged

\* The loop goes on, or the reader was cancelled.
ReadsOn(s) == ReaderMoves(s, IF cancelSet THEN "finish" ELSE "read")

ReadChunk(s) ==
  /\ rpc[s] = "read" /\ readCount[s] < setting.chunks[s]
  /\ readCount' = [readCount EXCEPT ![s] = @ + 1]
  /\ ReaderMoves(s, "put")
  /\ UNCHANGED <<output, streamOutcome, stopVars, failureVars>> /\ ReaderUnchanged

\* select timed out; with the child gone for long enough, nothing more comes.
ReadNothing(s) ==
  /\ rpc[s] = "read" /\ s \notin Descriptorless
  /\ ReadsOn(s) \/ (child = "exited" /\ ReaderMoves(s, "finish"))
  /\ UNCHANGED <<output, readCount, streamOutcome, stopVars, failureVars>>
  /\ ReaderUnchanged

ReadEnd(s) ==
  /\ rpc[s] = "read"
  /\ SetOutcome(s, IF cancelSet THEN "ABORTED" ELSE "EOF")
  /\ ReaderMoves(s, "finish")
  /\ UNCHANGED <<output, readCount, stopVars, failureVars>> /\ ReaderUnchanged

\* The read raises, or the poll of the child after it.
ReadFails(s) ==
  /\ rpc[s] = "read"
  /\ Fails("read")
  /\ SetOutcome(s, "READ_FAILED") \/ SetOutcome(s, "ABORTED")
  /\ ReaderMoves(s, "failed")
  /\ UNCHANGED <<output, readCount, stopVars>> /\ ReaderUnchanged

PutBlocking(s) ==
  /\ rpc[s] = "put"
  /\ DispatchClosed \/ resultDelivered \/ Len(output) < OutputCapacity
  /\ output' = IF DispatchClosed \/ resultDelivered THEN output ELSE Append(output, s)
  /\ ReadsOn(s)
  /\ UNCHANGED <<readCount, streamOutcome, stopVars, failureVars>> /\ ReaderUnchanged
PutUnbounded(s) ==
  /\ rpc[s] = "put"
  /\ output' = IF DispatchClosed \/ resultDelivered THEN output ELSE Append(output, s)
  /\ ReadsOn(s)
  /\ UNCHANGED <<readCount, streamOutcome, stopVars, failureVars>> /\ ReaderUnchanged
PutDropping(s) ==
  /\ rpc[s] = "put"
  /\ output' = IF DispatchClosed \/ resultDelivered \/ Len(output) >= OutputCapacity THEN output
               ELSE Append(output, s)
  /\ ReadsOn(s)
  /\ UNCHANGED <<readCount, streamOutcome, stopVars, failureVars>> /\ ReaderUnchanged
\* A chunk goes to the queue, waits for room, or is dropped once nobody is
\* going to make room.
Put(s) ==
  /\ rpc[s] = "put"
  /\ \/ DispatchClosed \/ resultDelivered \/ Len(output) < OutputCapacity \/ Requested
  /\ output' = IF DispatchClosed \/ resultDelivered \/ Len(output) >= OutputCapacity THEN output
               ELSE Append(output, s)
  /\ ReadsOn(s)
  /\ UNCHANGED <<readCount, streamOutcome, stopVars, failureVars>> /\ ReaderUnchanged

FailedReaderHurries(s) ==
  /\ rpc[s] = "failed"
  /\ RequestStop("abnormal")
  /\ ReaderMoves(s, "finish")
  /\ UNCHANGED <<output, readCount, failureVars>> /\ ReaderUnchanged
\* A failed reader waits until the launch has settled, then asks for cleanup.
FailedReaderStops(s) ==
  /\ rpc[s] = "failed" /\ SetupDone
  /\ RequestStop("abnormal")
  /\ ReaderMoves(s, "finish")
  /\ UNCHANGED <<output, readCount, failureVars>> /\ ReaderUnchanged

FinishReader(s) ==
  /\ rpc[s] = "finish"
  /\ SetOutcome(s, "ABORTED")
  /\ ReaderMoves(s, "stopped")
  /\ UNCHANGED <<output, readCount, stopVars, failureVars>> /\ ReaderUnchanged

ReaderStep(s) ==
  \/ FirstRead(s) \/ ReadChunk(s) \/ ReadNothing(s) \/ ReadEnd(s) \/ ReadFails(s) \/ Put(s)
  \/ FailedReaderStops(s) \/ FinishReader(s)

----------------------------------------------------------------------------
(* The continuation: _continue_cleanup. *)

KeeperGoes(place) == keeper' = [keeper EXCEPT !.pc = place]
KeeperUnchanged ==
  UNCHANGED <<setting, launchVars, child, readerVars, pipes, outputVars, toldEnd, resultDelivered,
              callVars>>

\* The request is seen.  Without a child there is no policy to run.
Supervise ==
  /\ keeper.pc = "waiting" /\ Requested
  /\ KeeperGoes(IF child = "none" \/ setting.stages = <<>> THEN "cancel" ELSE "policy")
  /\ UNCHANGED <<childReaped, releasedPipes, streamOutcome, stopVars, actionVars, failureVars,
                 lifecycle>>
  /\ KeeperUnchanged

\* The deadline is past: the continuation asks itself for cleanup.
CheckDeadline ==
  /\ keeper.pc = "waiting" /\ Supervising
  /\ RequestStop("abnormal")
  /\ UNCHANGED <<childReaped, releasedPipes, keeper, actionVars, failureVars, lifecycle>>
  /\ KeeperUnchanged

Current == setting.stages[keeper.stage]
NextStage == keeper' = [pc |-> "policy", stage |-> keeper.stage + 1]
Overtime == budget = "over" \/ resultDelivered

\* The next stage that applies; its time may be up at any moment.
EnterStage ==
  /\ keeper.pc = "policy"
  /\ IF keeper.stage > Len(setting.stages) THEN KeeperGoes("cancel")
     ELSE IF stopReason = "natural" /\ ~Current.runOnNormal THEN NextStage
     ELSE KeeperGoes("cancel") \/ (~Overtime /\ KeeperGoes("stage"))
  /\ UNCHANGED <<childReaped, releasedPipes, streamOutcome, stopVars, actionVars, failureVars,
                 lifecycle>>
  /\ KeeperUnchanged

\* Started or cancelled, an action settles some time later.
Engage(S) == work' = [k \in Actions |-> IF k \in S /\ work[k] = "idle" THEN "busy" ELSE work[k]]

\* An action that cannot be started is cancelled at once.
StartStage ==
  /\ keeper.pc = "stage"
  /\ Engage({keeper.stage})
  /\ \/ KeeperGoes("observe stage") /\ NoFault
     \/ Current.action /\ Fails("action") /\ NextStage
  /\ UNCHANGED <<childReaped, releasedPipes, streamOutcome, stopVars, prepared, seen, lifecycle>>
  /\ KeeperUnchanged

ObservedAccepted(k) == work[k] # "idle"
\* _action_results: what has settled is not asked again.
Observed(k) == k \in seen \/ work[k] = "settled"

\* A stage is observed until it is done, fails or runs out of time; then its
\* action is cancelled.
ObserveStage ==
  /\ keeper.pc = "observe stage"
  /\ seen' = seen \cup {k \in Actions : k = keeper.stage /\ Observed(k)}
  /\ \/ NextStage /\ (NoFault \/ (Current.action /\ Fails("action")))
     \/ UNCHANGED <<keeper, failureVars>>
  /\ UNCHANGED <<childReaped, releasedPipes, streamOutcome, stopVars, prepared, work, lifecycle>>
  /\ KeeperUnchanged

\* Readers and actions are cancelled, the readers joined for a while, the child
\* terminated; whatever one of these raises, the others follow.
CancelAll ==
  /\ keeper.pc = "cancel"
  /\ cancelSet' = TRUE /\ AbortAcquired
  /\ Engage(prepared)
  /\ NoFault \/ Fails("cleanup")
  /\ KeeperGoes(IF child = "none" THEN "observe" ELSE "await termination")
  /\ UNCHANGED <<childReaped, releasedPipes, stopReason, budget, prepared, seen, lifecycle>>
  /\ KeeperUnchanged

\* _reap: half of the time for the child to terminate, then kill.
AwaitTermination ==
  /\ keeper.pc = "await termination"
  /\ \/ child = "exited" /\ childReaped' = TRUE /\ KeeperGoes("observe")
     \/ KeeperGoes("await kill") /\ UNCHANGED childReaped
  /\ UNCHANGED <<releasedPipes, streamOutcome, stopVars, actionVars, failureVars, lifecycle>>
  /\ KeeperUnchanged

\* A child that still runs here was killed.
Killed == keeper.pc \in {"await kill", "observe", "late"}

\* The expiry of this wait is a failure, but the child stays owned.
AwaitKill ==
  /\ keeper.pc = "await kill"
  /\ \/ child = "exited" /\ childReaped' = TRUE /\ UNCHANGED ledger
     \/ budget = "over" /\ ledger' = ledger \cup {"error"} /\ UNCHANGED childReaped
  /\ KeeperGoes("observe")
  /\ UNCHANGED <<releasedPipes, streamOutcome, stopVars, actionVars, faults, lifecycle>>
  /\ KeeperUnchanged

ReleaseSafe == releasedPipes' = releasedPipes \cup {s \in pipes : Safe(s) \/ s \in Descriptorless}
ObserveActions == seen' = seen \cup {k \in prepared : Observed(k)}
Unsettled ==
  \/ ~(prepared \subseteq seen')
  \/ \E s \in Descriptorless \cap releasedPipes' : ~Safe(s)

\* _publish of what is true by now.
PublishStatus == lifecycle' = [complete |-> Settled', failures |-> ledger']

\* Actions are observed and safe pipes released, whose close may fail; again
\* while the budget lasts and something may still settle by itself; then the
\* status is published.
Observe ==
  /\ keeper.pc = "observe"
  /\ ObserveActions /\ ReleaseSafe
  /\ NoFault \/ (releasedPipes' # releasedPipes /\ Fails("cleanup"))
  /\ UNCHANGED <<childReaped, streamOutcome, stopVars, prepared, work>> /\ KeeperUnchanged
  /\ IF Unsettled /\ budget # "over" THEN UNCHANGED <<keeper, lifecycle>>
     ELSE PublishStatus /\ KeeperGoes(IF Settled' THEN "gone" ELSE "late")

\* What was not settled is watched for ever: pipes, the child, the actions.
WatchLate ==
  /\ keeper.pc = "late"
  /\ ReleaseSafe /\ ObserveActions
  /\ childReaped' = (childReaped \/ child = "exited")
  /\ NoFault \/ (releasedPipes' # releasedPipes /\ Fails("cleanup"))
  /\ UNCHANGED <<streamOutcome, stopVars, prepared, work>> /\ KeeperUnchanged
  /\ PublishStatus
  /\ KeeperGoes(IF Settled' THEN "gone" ELSE "late")

Refresh == lifecycle' = [lifecycle EXCEPT !.failures = ledger']

KeeperStep ==
  \/ Supervise \/ EnterStage \/ StartStage \/ ObserveStage \/ CancelAll \/ AwaitTermination
  \/ AwaitKill \/ Observe \/ WatchLate

----------------------------------------------------------------------------
(* The collection: _collect, by the launching thread. *)

CollectUnchanged ==
  UNCHANGED <<setting, childVars, readerVars, pipeVars, readCount, keeper, actionVars>>

AllRead == \A s \in Streams : Safe(s)
Queued(s) == \E i \in DOMAIN output' : output'[i] = s

NotifyEnded(force) ==
  toldEnd' = [s \in Streams |-> IF toldEnd[s] = "none" /\ streamOutcome'[s] # "PENDING"
                                THEN streamOutcome'[s] ELSE toldEnd[s]]
\* notify: the end of a stream whose chunks are all dispatched and whose reader
\* will queue no more, or of every ended stream if forced.
Notify(force) ==
  toldEnd' = [s \in Streams |->
    IF /\ toldEnd[s] = "none" /\ streamOutcome'[s] # "PENDING"
       /\ force \/ (~Queued(s) /\ (streamOutcome[s] # "ABORTED" \/ Safe(s)))
    THEN streamOutcome'[s] ELSE toldEnd[s]]

\* A callback that is interrupted ends the collection, a failing one does not.
Interrupted == Interrupts("callback") /\ collectFailed' = TRUE
NotInterrupted == NoFault /\ UNCHANGED collectFailed
GoesOn == UNCHANGED <<stopVars, lifecycle, resultDelivered, callVars>> /\ CollectUnchanged
EndsCalled == NotInterrupted \/ (toldEnd' # toldEnd /\ Interrupted)

\* An interrupted collection hands out no further chunks.
BreaksOff == collectFailed \/ "interruption" \in got.failures

\* A chunk and its callback.
TakeChunk ==
  /\ launcher \in {"loop", "flush"} /\ output # <<>>
  /\ launcher = "flush" => ~BreaksOff
  /\ output' = Tail(output)
  /\ IF resultDelivered THEN UNCHANGED dispatched
     ELSE dispatched' = [dispatched EXCEPT ![Head(output)] = @ + 1]
  /\ NotInterrupted \/ (~resultDelivered /\ Interrupted)
  /\ launcher' = IF launcher = "loop" THEN "looping" ELSE "flushing"
  /\ UNCHANGED endVars /\ GoesOn

\* The chunk is done with; an interruption leaves the rest undelivered.
SettleChunk ==
  /\ launcher \in {"looping", "flushing"}
  /\ UNCHANGED <<output, streamOutcome>> /\ Notify(FALSE) /\ EndsCalled
  /\ launcher' = IF launcher = "flushing" THEN "flush" ELSE IF collectFailed' THEN "wait" ELSE "loop"
  /\ UNCHANGED dispatched /\ GoesOn

\* No chunk in time: the loop ends if someone asked for cleanup, or if every
\* reader has stopped and the queue is empty.
NoChunk ==
  /\ launcher = "loop" /\ output = <<>>
  /\ UNCHANGED <<output, streamOutcome>> /\ Notify(FALSE) /\ EndsCalled
  /\ launcher' = IF AllRead \/ Requested \/ collectFailed' THEN "wait" ELSE "loop"
  /\ UNCHANGED dispatched /\ GoesOn

\* The child is awaited, unless the collection is over; then _shutdown.
AwaitChild ==
  /\ launcher = "wait"
  /\ \/ (collectFailed \/ Requested \/ child = "exited") /\ NotInterrupted
     \/ ~collectFailed /\ ~Requested /\ Fails("cleanup") /\ collectFailed' = TRUE
  /\ Call(IF collectFailed' THEN "abnormal" ELSE "natural", "close")
  /\ UNCHANGED <<output, dispatched, toldEnd, lifecycle, resultDelivered, got>> /\ CollectUnchanged

\* _dispatch_closed: readers queue no more, and what is queued is flushed.
Close ==
  /\ launcher = "close" /\ AtRest("launcher")
  /\ launcher' = "flush"
  /\ UNCHANGED <<collectFailed, output, dispatched, endVars, failureVars>> /\ GoesOn

\* The last ends are told and the result published: incomplete cleanup is a
\* failure when there is no other.
EndFlush ==
  /\ launcher = "flush" /\ (output = <<>> \/ BreaksOff)
  /\ AbortAcquired /\ UNCHANGED output
  /\ Notify(TRUE)
  /\ \/ toldEnd' # toldEnd /\ Interrupted
     \/ /\ ledger' = IF ~got.complete /\ ledger = {} THEN {"incomplete"} ELSE ledger
        /\ UNCHANGED <<collectFailed, faults>>
  /\ Refresh
  /\ resultDelivered' = TRUE
  /\ launcher' = "collected"
  /\ UNCHANGED <<dispatched, stopVars, callVars>> /\ CollectUnchanged

\* The end of the with block, without a collection or after one.
Leave ==
  /\ launcher \in {"launched", "collected"} /\ AtRest("launcher")
  /\ Call(IF launcher = "launched" /\ child = "exited" THEN "natural" ELSE "abnormal",
          IF launcher = "launched" THEN "leaving" ELSE "exited")
  /\ UNCHANGED <<collectFailed, output, dispatched, toldEnd, failureVars, lifecycle, resultDelivered,
                 got>>
  /\ CollectUnchanged

\* _raise_result: without a collection incomplete cleanup is raised.
RaiseResult ==
  /\ launcher = "leaving" /\ AtRest("launcher")
  /\ ledger' = IF ~got.complete /\ got.failures = {} THEN ledger \cup {"incomplete"} ELSE ledger
  /\ Refresh
  /\ launcher' = "left"
  /\ UNCHANGED <<collectFailed, output, dispatched, endVars, stopVars, faults, resultDelivered, callVars>>
  /\ CollectUnchanged

Collection ==
  \/ TakeChunk \/ SettleChunk \/ NoChunk \/ AwaitChild \/ Close \/ EndFlush
  \/ RaiseResult

----------------------------------------------------------------------------
(* Calls of _shutdown by the launching thread and another one. *)

CallUnchanged ==
  UNCHANGED <<setting, launchVars, childVars, readerVars, pipeVars, outputVars, toldEnd, keeper,
              actionVars>>
CallGoes(t, place) == shut' = [shut EXCEPT ![t] = place]
\* Collecting and setting up leave the delivery to the caller.
Delivers(t) == t = "other" \/ launcher \in {"leaving", "exited"}

CallShutdown ==
  /\ launcher \notin SettingUp \cup {"failing", "raising", "raised"}
  /\ setting.interferes /\ shut["other"] = "idle" /\ CallGoes("other", "await")
  /\ RequestStop("abnormal")
  /\ UNCHANGED <<failureVars, lifecycle, resultDelivered, got>> /\ CallUnchanged

\* An interrupted wait goes on for what is left of the budget.
InterruptWait(t) ==
  /\ shut[t] = "await"
  /\ Interrupts("cleanup")
  /\ UNCHANGED <<streamOutcome, stopVars, lifecycle, resultDelivered, callVars>> /\ CallUnchanged

DeliverStale(t) ==
  /\ shut[t] = "await"
  /\ ((PhaseDone \/ budget = "over") /\ NoFault) \/ Fails("cleanup")
  /\ UNCHANGED lifecycle
  /\ resultDelivered' = (resultDelivered \/ Delivers(t))
  /\ got' = IF t = "launcher" THEN lifecycle' ELSE got
  /\ CallGoes(t, IF t = "other" THEN "returned" ELSE "idle")
  /\ UNCHANGED <<streamOutcome, stopVars>> /\ CallUnchanged
\* The wait ends, fails, or the join after it does.  The status is brought up
\* to date and delivered.
DeliverStatus(t) ==
  /\ shut[t] = "await"
  /\ ((PhaseDone \/ budget = "over") /\ NoFault) \/ Fails("cleanup")
  /\ Refresh
  /\ resultDelivered' = (resultDelivered \/ Delivers(t))
  /\ got' = IF t = "launcher" THEN lifecycle' ELSE got
  /\ CallGoes(t, IF t = "other" THEN "returned" ELSE "idle")
  /\ UNCHANGED <<streamOutcome, stopVars>> /\ CallUnchanged

----------------------------------------------------------------------------
(* The child, the actions of the policy, the budget. *)

ChildExits ==
  /\ child = "running" /\ child' = "exited"
  /\ UNCHANGED <<setting, launchVars, childReaped, readerVars, pipeVars, outputVars, endVars,
                 stopVars, keeper, actionVars, failureVars, lifecycle, resultDelivered, callVars>>

ActionMoves(k) ==
  /\ work[k] = "busy" /\ work' = [work EXCEPT ![k] = "settled"]
  /\ UNCHANGED <<setting, launchVars, childVars, readerVars, pipeVars, outputVars, endVars, stopVars,
                 keeper, prepared, seen, failureVars, lifecycle, resultDelivered, callVars>>

BudgetPasses ==
  /\ budget = "running" /\ ~PhaseDone /\ budget' = "over"
  /\ UNCHANGED <<setting, launchVars, childVars, readerVars, pipeVars, outputVars, endVars, stopReason,
                 cancelSet, keeper, actionVars, failureVars, lifecycle, resultDelivered, callVars>>

ProcessNext ==
  \/ Launch \/ Leave \/ Collection
  \/ \E s \in Streams : ReaderStep(s)
  \/ KeeperStep \/ CheckDeadline
  \/ CallShutdown \/ \E t \in Threads : DeliverStatus(t) \/ InterruptWait(t)
  \/ ChildExits \/ BudgetPasses \/ \E k \in Actions : ActionMoves(k)

ProcessSpec == ProcessInit /\ [][ProcessNext]_processVars

\* Threads run; the budget and the deadline of a launch that has one pass, a
\* child that was killed is gone, actions settle: each at most once, so that one
\* condition for all of them makes each happen.  A read without a descriptor may
\* block until its stream is released.
ProcessFairSpec ==
  /\ ProcessSpec
  /\ WF_processVars(Launch \/ Collection \/ DeliverStatus("launcher"))
  /\ WF_processVars(DeliverStatus("other"))
  /\ WF_processVars(KeeperStep)
  /\ \A s \in Streams :
       WF_processVars((s \in Descriptorless \ releasedPipes => rpc[s] # "read") /\ ReaderStep(s))
  /\ WF_processVars(\/ BudgetPasses \/ CheckDeadline \/ (Killed /\ ChildExits)
                    \/ \E k \in Actions : ActionMoves(k))

----------------------------------------------------------------------------

LauncherType ==
  /\ launcher \in SettingUp \cup
       {"failing", "raising", "raised", "launched", "loop", "looping", "wait", "close", "flush",
        "flushing", "collected", "exited", "leaving", "left"}
  /\ collectFailed \in BOOLEAN
ChildType == child \in {"none", "running", "exited"} /\ childReaped \in BOOLEAN
ReaderType ==
  /\ rpc \in [Streams -> {"none", "top", "read", "put", "failed", "finish", "stopped"}]
  /\ readerStarted \in [Streams -> BOOLEAN]
PipeType == pipes \subseteq Streams /\ releasedPipes \subseteq Streams
OutputType ==
  /\ output \in Seq(Streams) /\ Len(output) <= OutputCapacity
  /\ readCount \in [Streams -> Nat] /\ dispatched \in [Streams -> Nat]
EndType ==
  /\ streamOutcome \in [Streams -> Terminals \cup {"PENDING"}]
  /\ toldEnd \in [Streams -> Terminals \cup {"none"}]
StopType ==
  /\ stopReason \in {"none", "natural", "abnormal"}
  /\ cancelSet \in BOOLEAN /\ budget \in {"unset", "running", "over"}
KeeperType ==
  keeper \in [pc : {"waiting", "policy", "stage", "observe stage", "cancel", "await termination",
                    "await kill", "observe", "late", "gone"},
              stage : Nat \ {0}]
ActionType ==
  /\ prepared \subseteq Actions /\ seen \subseteq Actions
  /\ work \in [Actions -> {"idle", "busy", "settled"}]
FailureType == ledger \subseteq Kinds /\ faults \in 0..setting.failures
StatusType == lifecycle \in Status /\ resultDelivered \in BOOLEAN
CallType == shut \in [Threads -> {"idle", "await", "returned"}] /\ got \in Status

\* The variables keep their types; in particular the queue keeps its capacity.
ProcessTypeOK ==
  /\ setting \in Settings
  /\ LauncherType /\ ChildType /\ ReaderType /\ PipeType /\ OutputType /\ EndType /\ StopType
  /\ KeeperType /\ ActionType /\ FailureType /\ StatusType /\ CallType

\* A stream with a descriptor is never closed under its reader, not even one
\* that runs before launch knows that it has started (_safe: "not a timed join
\* or is_alive(), is the authority to release").
PipesOutliveReaders ==
  \A s \in releasedPipes \ Descriptorless : rpc[s] \in {"none", "stopped"}

\* on_stream_end is called once with the final outcome, and no chunk of the
\* stream is given to the callback after it, although readers, cancellation and
\* the flush of the collection all race for the outcome (notify).
EndsAfterChunks ==
  [][\A s \in Streams :
       /\ toldEnd[s] # "none" =>
            /\ toldEnd'[s] = toldEnd[s] /\ streamOutcome'[s] = toldEnd[s]
            /\ dispatched'[s] = dispatched[s]
       /\ streamOutcome[s] # "PENDING" => streamOutcome'[s] = streamOutcome[s]]_processVars

\* A collection that ends by itself, with no request from anyone, has given
\* every chunk that was read to its callback.
NaturalOutputComplete ==
  launcher \in {"collected", "exited"} /\ stopReason = "natural" => dispatched = readCount

NothingOwned ==
  /\ child # "running"
  /\ \A s \in Streams : rpc[s] \in {"none", "stopped"}
  /\ pipes = releasedPipes
  /\ \A k \in prepared : work[k] = "settled"

\* A complete status is about the things themselves, not about what was last
\* observed of them: child, threads, pipes and actions are gone, for good.
SettledForGood ==
  [][lifecycle.complete \/ lifecycle'.complete => lifecycle'.complete /\ NothingOwned']_processVars

\* No failure is lost between the ledger and the status although calls and the
\* continuation publish without waiting for each other: when all of them are
\* done the status has them all.
FailuresReported ==
  /\ keeper.pc = "gone" /\ \A t \in Threads : AtRest(t)
  /\ launcher \in {"launched", "collected", "exited", "left", "raised"}
  => lifecycle.failures = ledger

\* Cleanup ends once it was asked for, also when the budget was not enough.
CleanupEnds == Requested ~> lifecycle.complete

\* A collection ends, whatever the child does, if the launch had a deadline.
CollectionReturns == launcher = "loop" ~> launcher = "collected"

\* Whatever the child, its descendants and the sink do: a cleanup that was
\* asked for completes, and a collection with a deadline ends (process.py:
\* _continue_cleanup, collect).
EverythingEnds == CleanupEnds /\ CollectionReturns
=============================================================================
