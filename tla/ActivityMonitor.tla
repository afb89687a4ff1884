-------------------------- MODULE ActivityMonitor --------------------------
(***************************************************************************)
(* One HostActivityMonitor (versioning/activity_monitor): the thread that  *)
(* produces heartbeats on a schedule, the observations of the transport,   *)
(* and the calls of finish that stop the producer within a budget and then *)
(* deliver the one terminal fact.                                          *)
(*                                                                         *)
(* Simplifications.  One clock stands for the scheduling clock and for the *)
(* two shutdown clocks.  What a heartbeat tells of silence, activity and   *)
(* the deadline is left out, and with it record_diagnostic.  A presented   *)
(* fact costs a step, during which anything else may happen.               *)
(* At Horizon every timed wait is over, so that no call is cut short by    *)
(* the bound on the clock.  Whether the waiter honours set() and whether   *)
(* the threads run promptly is chosen at the start (regime).               *)
(***************************************************************************)
EXTENDS Integers, Sequences, FiniteSets

CONSTANTS Callers,               \* threads that call finish
          Outcome,               \* the terminal state each of them passes
          First, Interval,       \* FIRST_HEARTBEAT_SECONDS, HEARTBEAT_INTERVAL_SECONDS
          Budget,                \* HEARTBEAT_JOIN_TIMEOUT_SECONDS
          Horizon, MaxBytes, MaxCalls, \* bounds: clock, bytes received, calls of finish
          None

ASSUME MonitorAssumption ==
  /\ First \in Nat \ {0} /\ Interval \in Nat \ {0} /\ Budget \in Nat \ {0}
  /\ Horizon \in Nat /\ MaxBytes \in Nat /\ MaxCalls \in Nat
  /\ {"producer", None} \cap Callers = {} /\ None # "producer"
  /\ None \notin {"succeeded", "failed"}
  /\ Outcome \in [Callers -> {"succeeded", "failed"}]

VARIABLES
  honoursSet,           \* the injected waiter ends its wait on set()
  prompt,               \* nothing raises, and no time passes while a thread can go on
  now,
  lock,                 \* holder of _lock
  ppc, nextAt,          \* the producer: place, next scheduled deadline
  stop, waiterSet, producerDone,   \* _stop, the injected waiter, _producer_done
  requested, delivered, \* _requested_terminal_state, _terminal_delivered
  received, published,  \* _received_bytes, _published_bytes
  fin, calls,           \* callers: place in finish, deadline of its shutdown
  beat, terminals       \* presented: the last heartbeat, the terminal facts

regime == <<honoursSet, prompt>>
producer == <<ppc, nextAt, producerDone>>
signals == <<stop, waiterSet>>
terminal == <<requested, delivered>>
bytes == <<received, published>>
callers == <<fin, calls>>
facts == <<beat, terminals>>
vars == <<regime, now, lock, producer, signals, terminal, bytes, callers, facts>>

States == {"succeeded", "failed"}
Call == [pc : {"idle", "request", "signal", "join", "await", "confirm", "claim", "final",
               "publish", "deliver"}, deadline : Nat]
Idle == [pc |-> "idle", deadline |-> 0]
Beats == [slot : Nat, until : Nat]

Init ==
  /\ honoursSet \in BOOLEAN /\ prompt \in BOOLEAN
  /\ now = 0
  /\ lock = None
  /\ ppc = "check" /\ nextAt = First /\ producerDone = FALSE
  /\ stop = FALSE /\ waiterSet = FALSE
  /\ requested = None /\ delivered = FALSE
  /\ received = 0 /\ published = 0
  /\ fin = [c \in Callers |-> Idle]
  /\ calls = 0
  /\ beat = [slot |-> 0, until |-> 0]
  /\ terminals = <<>>

Alive == ppc # "gone"
Expired(d) == now >= d \/ now = Horizon

NextDeadlineBurst(previous, observed) == previous + Interval
\* A possible bug: the missed slots are not counted in intervals.
NextDeadlineUneven(previous, observed) ==
  LET following == previous + Interval
  IN IF following > observed THEN following ELSE following + (observed - following) + 1
\* _next_heartbeat_deadline: on the grid of the schedule, after the observed time.
NextDeadline(previous, observed) ==
  LET following == previous + Interval
  IN IF following > observed THEN following
     ELSE following + ((observed - following) \div Interval + 1) * Interval

----------------------------------------------------------------------------
(* The producer thread: _run, _await_deadline, _publish_heartbeat. *)

Check ==
  /\ ppc = "check"
  /\ ppc' = IF stop THEN "ending" ELSE IF now >= nextAt THEN "beat" ELSE "waiting"
  /\ UNCHANGED <<now, lock, nextAt, producerDone, signals, terminal, bytes, callers, facts>>

WakesUp == (honoursSet /\ waiterSet) \/ Expired(nextAt)

WakeOnSignal ==
  /\ ppc = "waiting" /\ honoursSet /\ waiterSet
  /\ ppc' = "ending"
  /\ UNCHANGED <<now, lock, nextAt, producerDone, signals, terminal, bytes, callers, facts>>

WakeInTime ==
  /\ ppc = "waiting" /\ Expired(nextAt)
  /\ ppc' = "check"
  /\ UNCHANGED <<now, lock, nextAt, producerDone, signals, terminal, bytes, callers, facts>>

LockToBeat ==
  /\ ppc = "beat" /\ lock = None
  /\ IF requested # None THEN ppc' = "ending" /\ lock' = lock
     ELSE ppc' = "progress" /\ lock' = "producer"
  /\ UNCHANGED <<now, nextAt, producerDone, signals, terminal, bytes, callers, facts>>

\* _publish_progress_locked, by whoever holds the lock.
PublishProgress ==
  /\ published' = IF received > published THEN received ELSE published
  /\ received' = received

ProducerProgress ==
  /\ ppc = "progress"
  /\ PublishProgress
  /\ ppc' = "heartbeat"
  /\ UNCHANGED <<now, lock, nextAt, producerDone, signals, terminal, callers, facts>>

\* The heartbeat fact is presented, and the sink returns after a while.
Heartbeat ==
  /\ ppc = "heartbeat"
  /\ beat' = [slot |-> nextAt, until |-> now]
  /\ ppc' = "leave"
  /\ UNCHANGED <<now, lock, nextAt, producerDone, signals, terminal, bytes, callers, terminals>>

LeaveBeat ==
  /\ ppc = "leave"
  /\ lock' = None
  /\ nextAt' = NextDeadline(nextAt, now)
  /\ beat' = [beat EXCEPT !.until = now]
  /\ ppc' = "check"
  /\ UNCHANGED <<now, producerDone, signals, terminal, bytes, callers, terminals>>

RaiseHolding ==
  /\ ~prompt
  /\ ppc \in {"check", "waiting", "heartbeat", "leave"}
  /\ ppc' = "ending"
  /\ UNCHANGED <<now, lock, nextAt, producerDone, signals, terminal, bytes, callers, facts>>
\* The clock or the waiter raises: the thread ends, and gives the lock back.
Raise ==
  /\ ~prompt
  /\ ppc \in {"check", "waiting", "heartbeat", "leave"}
  /\ ppc' = "ending"
  /\ lock' = IF ppc \in {"heartbeat", "leave"} THEN None ELSE lock
  /\ UNCHANGED <<now, nextAt, producerDone, signals, terminal, bytes, callers, facts>>

Report ==
  /\ ppc = "ending"
  /\ producerDone' = TRUE
  /\ ppc' = "reported"
  /\ UNCHANGED <<now, lock, nextAt, signals, terminal, bytes, callers, facts>>

Exit ==
  /\ ppc = "reported"
  /\ ppc' = "gone"
  /\ UNCHANGED <<now, lock, nextAt, producerDone, signals, terminal, bytes, callers, facts>>

Produce ==
  /\ UNCHANGED regime
  /\ \/ Check \/ WakeOnSignal \/ WakeInTime \/ LockToBeat \/ ProducerProgress \/ Heartbeat
     \/ LeaveBeat \/ Raise \/ Report \/ Exit

----------------------------------------------------------------------------
(* Observations of the wrapped operation. *)

RecordAlways ==
  /\ lock = None
  /\ received < MaxBytes
  /\ received' = received + 1
  /\ UNCHANGED <<regime, now, lock, producer, signals, terminal, published, callers, facts>>
\* record_transport_progress: the caller's count grows; refused once terminal.
RecordTransportProgress ==
  /\ lock = None /\ requested = None
  /\ received < MaxBytes
  /\ received' = received + 1
  /\ UNCHANGED <<regime, now, lock, producer, signals, terminal, published, callers, facts>>

----------------------------------------------------------------------------
(* finish. *)

At(c, place) == fin[c].pc = place
Moves(c, place) ==
  fin' = [fin EXCEPT ![c] = IF place = "idle" THEN Idle ELSE [@ EXCEPT !.pc = place]]

Finish(c) ==
  /\ At(c, "idle")
  /\ calls < MaxCalls /\ now + Budget <= Horizon
  /\ calls' = calls + 1
  /\ Moves(c, "request")
  /\ UNCHANGED <<regime, now, lock, producer, signals, terminal, bytes, facts>>

RequestAnew(c) ==
  /\ At(c, "request") /\ lock = None
  /\ IF delivered
     THEN /\ Moves(c, "idle")
          /\ UNCHANGED <<requested, stop>>
     ELSE /\ Moves(c, "signal")
          /\ requested' = Outcome[c]
          /\ stop' = TRUE
  /\ UNCHANGED <<now, lock, producer, waiterSet, delivered, bytes, calls, facts>>
\* The first request keeps its state; a later one only retries the shutdown.
Request(c) ==
  /\ At(c, "request") /\ lock = None
  /\ IF delivered
     THEN /\ Moves(c, "idle")
          /\ UNCHANGED <<requested, stop>>
     ELSE /\ Moves(c, "signal")
          /\ requested' = IF requested = None THEN Outcome[c] ELSE requested
          /\ stop' = TRUE
  /\ UNCHANGED <<now, lock, producer, waiterSet, delivered, bytes, calls, facts>>

SignalFromStart(c) ==
  /\ At(c, "signal")
  /\ \E works \in {TRUE, prompt} : waiterSet' = (waiterSet \/ works)
  /\ fin' = [fin EXCEPT ![c] = [pc |-> "join", deadline |-> Budget]]
  /\ UNCHANGED <<now, lock, producer, stop, terminal, bytes, calls, facts>>
\* waiter.set(), whose failure is ignored, and the deadline of _stop_producer.
Signal(c) ==
  /\ At(c, "signal")
  /\ \E works \in {TRUE, prompt} : waiterSet' = (waiterSet \/ works)
  /\ fin' = [fin EXCEPT ![c] = [pc |-> "join", deadline |-> now + Budget]]
  /\ UNCHANGED <<now, lock, producer, stop, terminal, bytes, calls, facts>>

GoesTo(c, place) ==
  /\ Moves(c, place)
  /\ UNCHANGED <<now, lock, producer, signals, terminal, bytes, calls, facts>>

\* join finds the thread gone.
Joined(c) == At(c, "join") /\ ~Expired(fin[c].deadline) /\ ~Alive /\ GoesTo(c, "claim")

\* join raises: the report of the producer is looked at instead.
JoinRaises(c) ==
  /\ ~prompt /\ At(c, "join") /\ ~Expired(fin[c].deadline)
  /\ GoesTo(c, IF producerDone THEN "confirm" ELSE "await")

\* _producer_done.wait, and the loop joins again.
Reported(c) == At(c, "await") /\ producerDone /\ GoesTo(c, "join")

\* _confirm_thread_exit
Confirmed(c) == At(c, "confirm") /\ ~Alive /\ GoesTo(c, "claim")
NotConfirmed(c) == ~prompt /\ fin[c].pc \in {"await", "confirm"} /\ GoesTo(c, "idle")

\* The budget is used up: the terminal fact is left to a later call.
GiveUp(c) ==
  /\ fin[c].pc \in {"join", "await", "confirm"} /\ Expired(fin[c].deadline)
  /\ GoesTo(c, "idle")

ClaimUnchecked(c) ==
  /\ At(c, "claim") /\ lock = None
  /\ Moves(c, "final") /\ delivered' = TRUE
  /\ UNCHANGED <<now, lock, producer, signals, requested, bytes, calls, facts>>
ClaimClears(c) ==
  /\ At(c, "claim") /\ lock = None
  /\ Moves(c, IF delivered THEN "idle" ELSE "final")
  /\ delivered' = TRUE /\ requested' = None
  /\ UNCHANGED <<now, lock, producer, signals, bytes, calls, facts>>
\* Whoever sets _terminal_delivered delivers.
Claim(c) ==
  /\ At(c, "claim") /\ lock = None
  /\ Moves(c, IF delivered THEN "idle" ELSE "final")
  /\ delivered' = TRUE
  /\ UNCHANGED <<now, lock, producer, signals, requested, bytes, calls, facts>>

\* _publish_progress_event: under the lock again, so in two steps.
LockFinal(c) ==
  /\ At(c, "final") /\ lock = None
  /\ lock' = c
  /\ Moves(c, "publish")
  /\ UNCHANGED <<now, producer, signals, terminal, bytes, calls, facts>>

FinalProgress(c) ==
  /\ At(c, "publish")
  /\ PublishProgress
  /\ lock' = None
  /\ Moves(c, "deliver")
  /\ UNCHANGED <<now, producer, signals, terminal, calls, facts>>

Deliver(c) ==
  /\ At(c, "deliver")
  /\ terminals' = Append(terminals, requested)
  /\ Moves(c, "idle")
  /\ UNCHANGED <<now, lock, producer, signals, terminal, bytes, calls, beat>>

\* A process-control interruption ends the call wherever it is.
Interrupt(c) ==
  /\ ~prompt /\ ~At(c, "idle")
  /\ lock' = IF lock = c THEN None ELSE lock
  /\ Moves(c, "idle")
  /\ UNCHANGED <<now, producer, signals, terminal, bytes, calls, facts>>

FinishStep(c) ==
  /\ UNCHANGED regime
  /\ \/ Request(c) \/ Signal(c) \/ Joined(c) \/ Reported(c) \/ Confirmed(c)
     \/ GiveUp(c) \/ Claim(c) \/ LockFinal(c) \/ FinalProgress(c) \/ Deliver(c)

FinishFault(c) == UNCHANGED regime /\ (JoinRaises(c) \/ NotConfirmed(c) \/ Interrupt(c))

----------------------------------------------------------------------------

ProducerRests == ppc = "gone" \/ (ppc = "waiting" /\ ~WakesUp)
CallerRests(c) ==
  \/ At(c, "idle")
  \/ At(c, "join") /\ Alive /\ ~Expired(fin[c].deadline)
  \/ At(c, "await") /\ ~producerDone /\ ~Expired(fin[c].deadline)

TimePasses ==
  /\ now < Horizon
  /\ prompt => ProducerRests /\ \A c \in Callers : CallerRests(c)
  /\ now' = now + 1
  /\ UNCHANGED <<regime, lock, producer, signals, terminal, bytes, callers, facts>>

Next ==
  \/ Produce
  \/ RecordTransportProgress
  \/ \E c \in Callers : FinishStep(c) \/ FinishFault(c) \/ Finish(c)
  \/ TimePasses

Spec == Init /\ [][Next]_vars

\* Threads run and sinks return.
FairSpec ==
  /\ Spec
  /\ WF_vars(Produce) /\ WF_vars(TimePasses)
  /\ \A c \in Callers : WF_vars(FinishStep(c))

----------------------------------------------------------------------------

TypeOK ==
  /\ honoursSet \in BOOLEAN /\ prompt \in BOOLEAN
  /\ now \in 0..Horizon
  /\ lock \in Callers \cup {None, "producer"}
  /\ ppc \in {"check", "waiting", "beat", "progress", "heartbeat", "leave", "ending",
              "reported", "gone"}
  /\ nextAt \in Nat
  /\ stop \in BOOLEAN /\ waiterSet \in BOOLEAN /\ producerDone \in BOOLEAN
  /\ requested \in States \cup {None} /\ delivered \in BOOLEAN
  /\ received \in 0..MaxBytes /\ published \in 0..MaxBytes
  /\ fin \in [Callers -> Call] /\ calls \in 0..MaxCalls
  /\ beat \in Beats /\ terminals \in Seq(States)

\* The terminal fact is presented at most once and only when the heartbeat
\* thread is gone, whatever calls of finish race, raise or are interrupted
\* (finish: "exactly one event with the first requested state is emitted",
\* "a terminal event is delivered only after production is confirmed stopped").
TerminalOnceAfterStop ==
  /\ Len(terminals) <= 1
  /\ terminals # <<>> => ~Alive /\ terminals[1] = requested

\* A state once requested is the one that will be told, also by another caller.
FirstRequestStays == [][requested # None => requested' = requested]_vars

\* When the terminal fact is presented every byte that was accepted has been
\* told, and none is accepted afterwards (module comment: "so every
\* already-yielded chunk contributes to cumulative bytes").
AllBytesTold == terminals # <<>> => published = received

OnGrid(t) == \E k \in 0..t : t = First + k * Interval

\* Heartbeats stay on the grid of the schedule, one for a slot, none before its
\* slot, and however long a sink takes no slot that has passed is caught up
\* (_next_heartbeat_deadline: "instead of emitting a catch-up burst").
HeartbeatsOnSchedule ==
  [][beat'.slot # beat.slot =>
       /\ beat'.until >= beat'.slot
       /\ beat'.slot > beat.until
       /\ OnGrid(beat'.slot)]_vars

\* If threads are scheduled promptly and sinks return, one call of finish is
\* enough for every waiter that honours its timeout
\* (HEARTBEAT_JOIN_TIMEOUT_SECONDS: "lets the producer observe the monitor-owned
\* stop signal well inside this bound").
BudgetSuffices ==
  [][prompt => \A c \in Callers :
       fin[c].pc \in {"join", "await", "confirm"} => fin'[c].pc # "idle"]_vars

\* finish returns, provided that threads run and sinks return.
FinishReturns == \A c \in Callers : ~At(c, "idle") ~> At(c, "idle")
=============================================================================
