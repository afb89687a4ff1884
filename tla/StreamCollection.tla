-------------------------- MODULE StreamCollection --------------------------
(***************************************************************************)
(* collect_streams and SinkDispatcher (npm_environment/streaming): two     *)
(* readers drain the pipes of one process, the coordinator waits for both  *)
(* or for the first failure, and a dispatcher hands what the queue         *)
(* accepted to the sink.  Anything may be interrupted, a read may fail,    *)
(* the sink may raise or be late, and the budget of the drain may pass     *)
(* while threads do not run.  The sink returns; the hooks end the process. *)
(***************************************************************************)
EXTENDS Integers, Sequences, FiniteSets, SequencesExt, FiniteSetsExt, Functions

CONSTANTS Tags,         \* the two streams
          QueueCapacity, MaxChunks   \* bound: chunks of a stream

\* "none" is no stream: the sentinel is no chunk.
ASSUME CollectionAssumption == QueueCapacity \in Nat \ {0} /\ MaxChunks \in Nat /\ "none" \notin Tags

\* A chunk is <<stream, number>>, the last one a stream releases 0.
SENTINEL == <<"none", 0>>

VARIABLES
  cpc,                   \* the coordinator
  rpc, made, forced,     \* readers; chunks of each; its end was brought about by a hook
  finalized,             \* how finish was called: "no", "clean", "abort"
  abortEvent, failed, terminated, noted,
  spc, inHand, queue,    \* the dispatcher thread, the chunk it delivers, the queue
  sinkFailed, notice, accepting,
  drain,                 \* "no", "draining", "over", "join_over": the two budgets of finish
  accepted, seen    \* ghost: what was submitted and taken, what the sink saw

readerVars == <<rpc, made, forced, finalized>>
signalVars == <<abortEvent, failed, terminated, noted>>
sinkVars == <<spc, inHand, queue, sinkFailed, notice, accepting, drain, accepted, seen>>
collectionVars == <<cpc, readerVars, signalVars, sinkVars>>

CollectionInit ==
  /\ cpc = "dispatcher"
  /\ rpc = [t \in Tags |-> "unstarted"] /\ made = [t \in Tags |-> 0]
  /\ forced = [t \in Tags |-> FALSE] /\ finalized = [t \in Tags |-> "no"]
  /\ abortEvent = FALSE /\ failed = {} /\ terminated = FALSE /\ noted = {}
  /\ spc = "none" /\ inHand = SENTINEL /\ queue = <<>> /\ sinkFailed = FALSE
  /\ notice = FALSE /\ accepting = TRUE /\ drain = "no"
  /\ accepted = <<>> /\ seen = <<>>

CollectorGoes(place) == cpc' = place
ReaderGoes(t, place) == rpc' = [rpc EXCEPT ![t] = place]

----------------------------------------------------------------------------
(* The readers *)

\* A possible bug: what does not fit is dropped without a word.
DroppedSilently(chunk) == UNCHANGED <<queue, accepted, notice>>
\* _record_truncation_locked
Dropped(chunk) == notice' = TRUE /\ UNCHANGED <<queue, accepted>>

\* submit, all of it under the lock.  Without a dispatcher nothing is live.
Submit(chunk) ==
  /\ IF spc = "none" THEN UNCHANGED <<queue, accepted, notice>>
     ELSE IF sinkFailed \/ ~ accepting \/ Len(queue) = QueueCapacity THEN Dropped(chunk)
     ELSE /\ queue' = Append(queue, chunk) /\ accepted' = Append(accepted, chunk)
          /\ UNCHANGED notice
  /\ UNCHANGED <<spc, inHand, sinkFailed, accepting, drain, seen>>

ReadChunk(t) ==
  /\ rpc[t] = "read" /\ made[t] < MaxChunks /\ ~ forced[t]
  /\ made' = [made EXCEPT ![t] = @ + 1]
  /\ Submit(<<t, made[t] + 1>>)
  /\ UNCHANGED <<cpc, rpc, forced, finalized, signalVars>>

\* b"": the process has ended, or a hook has ended it.
ReadEnd(t) ==
  /\ rpc[t] = "read"
  /\ ReaderGoes(t, "finish")
  /\ UNCHANGED <<cpc, made, forced, finalized, signalVars, sinkVars>>

\* record_failure: cancellation is signalled before anybody can act on the failure.
ReadRaises(t) ==
  /\ rpc[t] = "read"
  /\ abortEvent' = TRUE /\ failed' = failed \cup {t}
  /\ ReaderGoes(t, "signal")
  /\ UNCHANGED <<cpc, made, forced, finalized, terminated, noted, sinkVars>>

SignalFailure(t) ==
  /\ rpc[t] = "signal"
  /\ terminated' = TRUE /\ ReaderGoes(t, "finish")
  /\ UNCHANGED <<cpc, made, forced, finalized, abortEvent, failed, noted, sinkVars>>

\* The stream is finalized; it may release a last chunk.
FinishStream(t) ==
  /\ rpc[t] = "finish"
  /\ finalized' = [finalized EXCEPT ![t] = IF abortEvent THEN "abort" ELSE "clean"]
  /\ \/ Submit(<<t, 0>>)
     \/ UNCHANGED sinkVars
  /\ ReaderGoes(t, "note")
  /\ UNCHANGED <<cpc, made, forced, signalVars>>

\* A possible bug: only a failure ends the wait for the readers.
FailureTells(done) == FALSE
LastTells(done) == done = Tags

NoteDone(t) ==
  /\ rpc[t] = "note"
  /\ noted' = noted \cup {t}
  /\ terminated' = (terminated \/ LastTells(noted'))
  /\ ReaderGoes(t, "done")
  /\ UNCHANGED <<cpc, made, forced, finalized, abortEvent, failed, sinkVars>>

----------------------------------------------------------------------------
(* The coordinator *)

StartDispatcher ==
  /\ cpc = "dispatcher"
  /\ spc' \in {"get", "none"}
  /\ CollectorGoes("start")
  /\ UNCHANGED <<readerVars, signalVars, inHand, queue, sinkFailed, notice, accepting, drain,
                 accepted, seen>>

StartReader(t) ==
  /\ cpc = "start" /\ rpc[t] = "unstarted"
  /\ ReaderGoes(t, "read")
  /\ CollectorGoes(IF \A u \in Tags \ {t} : rpc[u] # "unstarted" THEN "wait" ELSE "start")
  /\ UNCHANGED <<made, forced, finalized, signalVars, sinkVars>>

\* terminal.wait returned; the first failure, if any, is told to the caller.
WaitTerminal ==
  /\ cpc = "wait" /\ terminated
  /\ CollectorGoes(IF failed = {} THEN "join" ELSE "hook")
  /\ UNCHANGED <<readerVars, signalVars, sinkVars>>

\* on_reader_failure or on_interruption, which may raise after it: the process
\* is ended, and with it both pipes.
RunHook ==
  /\ cpc \in {"hook", "interruption_hook"}
  /\ forced' = [t \in Tags |-> TRUE]
  /\ CollectorGoes("join")
  /\ UNCHANGED <<rpc, made, finalized, signalVars, sinkVars>>

\* A possible bug: the caller is told before the readers are.
AbortLate == UNCHANGED abortEvent
AbortFirst == abortEvent' = TRUE

\* Interrupted: maybe after the thread at hand was started.
InterruptCollection ==
  /\ cpc \in {"dispatcher", "start", "wait", "hook"}
  /\ CollectorGoes("abort")
  /\ UNCHANGED <<readerVars, abortEvent, failed, terminated, noted, sinkVars>>

SignalAbort ==
  /\ cpc = "abort"
  /\ AbortFirst
  /\ CollectorGoes("interruption_hook")
  /\ UNCHANGED <<readerVars, failed, terminated, noted, sinkVars>>

\* _ThreadStartup.join of each reader, whatever interrupts it: a thread that was
\* never acquired has nothing to join.
JoinReaders ==
  /\ cpc = "join"
  /\ \A t \in Tags : rpc[t] \in {"unstarted", "done"}
  /\ CollectorGoes(IF spc = "none" THEN "end" ELSE "close")
  /\ UNCHANGED <<readerVars, signalVars, sinkVars>>

CloseAcceptance ==
  /\ cpc = "close"
  /\ accepting' = FALSE /\ drain' = "draining"
  /\ CollectorGoes("put")
  /\ UNCHANGED <<readerVars, signalVars, spc, inHand, queue, sinkFailed, notice, accepted, seen>>

Failing == sinkFailed' = TRUE /\ notice' = TRUE
PutSentinel ==
  /\ cpc = "put"
  /\ \/ /\ Len(queue) < QueueCapacity
        /\ queue' = Append(queue, SENTINEL) /\ UNCHANGED <<sinkFailed, notice>>
     \/ /\ Len(queue) = QueueCapacity /\ drain # "draining"
        /\ Failing /\ UNCHANGED queue
  /\ CollectorGoes("join_sink")
  /\ UNCHANGED <<readerVars, signalVars, spc, inHand, accepting, drain, accepted, seen>>

JoinDispatcher ==
  /\ cpc = "join_sink"
  /\ \/ spc = "ended" /\ UNCHANGED <<sinkFailed, notice>>
     \/ spc # "ended" /\ drain = "join_over" /\ Failing
  /\ CollectorGoes("end")
  /\ UNCHANGED <<readerVars, signalVars, spc, inHand, queue, accepting, drain, accepted, seen>>

BudgetPasses ==
  /\ drain \in {"draining", "over"} /\ cpc # "end"
  /\ drain' = IF drain = "draining" THEN "over" ELSE "join_over"
  /\ UNCHANGED <<cpc, readerVars, signalVars, spc, inHand, queue, sinkFailed, notice, accepting,
                 accepted, seen>>

----------------------------------------------------------------------------
(* The dispatcher thread *)

SinkGoes(place) == spc' = place
unsubmitted == <<cpc, readerVars, signalVars, accepting, drain, accepted>>

TakeItem ==
  /\ spc = "get" /\ queue # <<>>
  /\ inHand' = Head(queue) /\ queue' = Tail(queue)
  /\ SinkGoes(IF Head(queue) = SENTINEL THEN "ended" ELSE "check")
  /\ UNCHANGED <<unsubmitted, sinkFailed, notice, seen>>

\* Under the lock: what a failed sink would get is discarded.  The budget is
\* looked at after the lock is released.
CheckItem ==
  /\ spc = "check"
  /\ \/ sinkFailed /\ SinkGoes("get") /\ UNCHANGED <<sinkFailed, notice>>
     \/ ~ sinkFailed /\ drain \in {"over", "join_over"} /\ Failing /\ SinkGoes("discard")
     \/ ~ sinkFailed /\ drain \in {"no", "draining"} /\ SinkGoes("deliver")
          /\ UNCHANGED <<sinkFailed, notice>>
  /\ UNCHANGED <<unsubmitted, inHand, queue, seen>>

\* The sink sees the chunk, and may raise or be late.
DeliverChunk ==
  /\ spc = "deliver"
  /\ seen' = Append(seen, inHand)
  /\ \/ Failing
     \/ UNCHANGED <<sinkFailed, notice>>
  /\ SinkGoes("delivered")
  /\ UNCHANGED <<unsubmitted, inHand, queue>>

AfterDelivery ==
  /\ spc = "delivered"
  /\ SinkGoes(IF sinkFailed THEN "discard" ELSE "get")
  /\ UNCHANGED <<unsubmitted, inHand, queue, sinkFailed, notice, seen>>

\* _discard_remaining, one item at a time.
DiscardItem ==
  /\ spc = "discard"
  /\ IF queue = <<>> THEN SinkGoes("ended") /\ UNCHANGED queue
     ELSE queue' = Tail(queue) /\ SinkGoes(IF Head(queue) = SENTINEL THEN "ended" ELSE "discard")
  /\ UNCHANGED <<unsubmitted, inHand, sinkFailed, notice, seen>>

----------------------------------------------------------------------------
ReaderStep(t) ==
  \/ ReadChunk(t) \/ ReadEnd(t) \/ ReadRaises(t) \/ SignalFailure(t)
  \/ FinishStream(t) \/ NoteDone(t)
CoordinatorStep ==
  \/ StartDispatcher \/ (\E t \in Tags : StartReader(t)) \/ WaitTerminal \/ RunHook
  \/ SignalAbort \/ JoinReaders \/ CloseAcceptance \/ PutSentinel \/ JoinDispatcher
DispatcherStep == TakeItem \/ CheckItem \/ DeliverChunk \/ AfterDelivery \/ DiscardItem

CollectionNext ==
  \/ \E t \in Tags : ReaderStep(t)
  \/ CoordinatorStep \/ InterruptCollection \/ BudgetPasses \/ DispatcherStep
CollectionSpec == CollectionInit /\ [][CollectionNext]_collectionVars

----------------------------------------------------------------------------
\* When the collection ends, every chunk the readers released has been seen by
\* the sink, in the order of the queue, or the one notice says otherwise; no
\* reader is left, and the dispatcher only if the notice is set.
OutputAccounted ==
  /\ IsPrefix(seen, accepted)
  /\ cpc = "end" =>
       /\ \A t \in Tags : rpc[t] \in {"unstarted", "done"}
       /\ spc # "none" /\ ~ notice =>
            /\ spc = "ended" /\ seen = accepted
            /\ \A t \in Tags : made[t] = Cardinality({i \in DOMAIN seen :
                                  seen[i][1] = t /\ seen[i][2] # 0})

\* A stream whose end a hook brought about, after a failure or an
\* interruption, is never finalized as if it had ended by itself.
CutStreamsAborted ==
  [][\A t \in Tags : forced[t] /\ finalized'[t] = "clean" => finalized[t] = "clean"]_collectionVars

\* How many steps are left at most: a chunk still to be read stands for its
\* reading, its queueing and the steps of its delivery.
Ahead(place, places) == Len(places) - CHOOSE i \in DOMAIN places : places[i] = place
StepsLeft ==
  LET Chunk == 5
      reader(t) == (MaxChunks - made[t] + 1) * (Chunk + 1)
                     + Ahead(rpc[t], <<"unstarted", "read", "signal", "finish", "note", "done">>)
                     - (IF rpc[t] \in {"note", "done"} THEN Chunk + 1 ELSE 0)
      coordinator == (Chunk + 1) * Ahead(cpc, <<"dispatcher", "start", "wait", "hook", "abort", "interruption_hook",
                                                "join", "close", "put", "join_sink", "end">>)
  IN FoldSet(LAMBDA t, n : n + reader(t), 0, Tags) + coordinator + Chunk * Len(queue)
       + Ahead(spc, <<"none", "check", "deliver", "delivered", "get", "discard", "ended">>)
       + Ahead(drain, <<"no", "draining", "over", "join_over">>)

\* Whatever fails, is interrupted or is late, and however the steps fall, the
\* collection comes to its end: every step brings it nearer, and before it some
\* thread can go on or some budget can pass.  Only the dispatcher may be left,
\* waiting for an item that never comes.
CanGoOn ==
  ENABLED (CoordinatorStep \/ DispatcherStep \/ BudgetPasses \/ \E t \in Tags : ReaderStep(t))
GoesOn == StepsLeft >= 0 /\ (cpc # "end" => CanGoOn)
Nearer == StepsLeft' < StepsLeft
CollectionEnds == []GoesOn /\ [][Nearer]_collectionVars
=============================================================================
