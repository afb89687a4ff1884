-------------------------- MODULE StreamingProofs ---------------------------
(***************************************************************************)
(* Proofs about the output of a process on its way: how it is collected    *)
(* (StreamCollection), for any streams, chunks and capacity of the         *)
(* queue, and how its activity is told (ActivityMonitor), for any          *)
(* callers of finish, any periods, and with every fault the model has.     *)
(***************************************************************************)
EXTENDS ActivityMonitor, StreamCollection, FiniteSetTheorems, TLAPS

-----------------------------------------------------------------------------
(* The monitor of the activity.                                            *)

Producing == {"progress", "heartbeat", "leave"}
Delivering == {"final", "publish", "deliver"}

\* Who holds the lock, and who may be about to deliver.
LockInv ==
  /\ lock = "producer" <=> ppc \in Producing
  /\ \A c \in Callers : lock = c <=> At(c, "publish")

DeliveryInv ==
  /\ \A c \in Callers : fin[c].pc \notin {"idle", "request"} => requested # None
  /\ \A c \in Callers : At(c, "claim") => ~Alive
  /\ \A c \in Callers : fin[c].pc \in Delivering => delivered /\ terminals = <<>>
  /\ \A c, d \in Callers : fin[c].pc \in Delivering /\ fin[d].pc \in Delivering => c = d
  /\ delivered => ~Alive /\ requested # None
  /\ terminals # <<>> => delivered

BytesInv ==
  /\ published <= received
  /\ \A c \in Callers : At(c, "deliver") => published = received

MonitorInv == LockInv /\ DeliveryInv /\ BytesInv /\ TerminalOnceAfterStop /\ AllBytesTold

LEMMA Multiples ==
  ASSUME NEW k \in Nat, NEW m \in Nat
  PROVE  /\ k * Interval + m * Interval = (k + m) * Interval
         /\ m * Interval \in Nat /\ m <= m * Interval
         /\ m = 1 => m * Interval = Interval
<1>1. Interval \in Nat /\ Interval >= 1
  BY MonitorAssumption
<1>2. QED
  BY <1>1

\* The schedule goes on strictly after the observed time, and on its grid
\* (_next_heartbeat_deadline).
THEOREM NextDeadlineLater ==
  ASSUME NEW p \in Nat, NEW o \in Nat, OnGrid(p)
  PROVE  NextDeadline(p, o) \in Nat /\ NextDeadline(p, o) > o /\ OnGrid(NextDeadline(p, o))
<1> DEFINE f == p + Interval
           later(m) == p + m * Interval
<1>1. Interval \in Nat /\ Interval > 0 /\ First \in Nat
  BY MonitorAssumption
<1>2. ASSUME NEW m \in Nat PROVE later(m) \in Nat /\ OnGrid(later(m))
  <2>1. PICK k \in 0..p : p = First + k * Interval
    BY DEF OnGrid
  <2>2. k * Interval + m * Interval = (k + m) * Interval /\ k * Interval \in Nat
    BY <2>1, Multiples
  <2>3. m * Interval \in Nat /\ m <= m * Interval
    BY Multiples
  <2>4. later(m) = First + (k + m) * Interval /\ k + m \in 0..later(m)
    BY <1>1, <2>1, <2>2, <2>3
  <2>5. QED
    BY <1>1, <2>3, <2>4 DEF OnGrid
<1>3. CASE f > o
  <2>1. NextDeadline(p, o) = later(1)
    BY <1>1, <1>3, Multiples DEF NextDeadline
  <2>2. QED
    BY <1>1, <1>2, <1>3, <2>1, Multiples
<1>4. CASE ~(f > o)
  <2> DEFINE m == (o - f) \div Interval + 1
  <2>1. m \in Nat /\ m * Interval > o - f
    BY <1>1, <1>4
  <2>2. NextDeadline(p, o) = f + m * Interval
    BY <1>4 DEF NextDeadline
  <2> HIDE DEF m
  <2>3. 1 * Interval + m * Interval = (1 + m) * Interval
    BY <2>1, Multiples
  <2>4. NextDeadline(p, o) = later(1 + m) /\ 1 + m \in Nat
    BY <1>1, <2>1, <2>2, <2>3, Multiples
  <2>5. m * Interval \in Nat
    BY <2>1, Multiples
  <2>6. NextDeadline(p, o) > o
    BY <1>1, <2>1, <2>2, <2>5
  <2>7. QED
    BY <1>2, <2>4, <2>6
<1>5. QED
  BY <1>3, <1>4
----------------------------------------------------------------------------
(* Types. *)

Spots == {"idle", "request", "signal", "join", "await", "confirm", "claim", "final", "publish",
          "deliver"}

LEMMA Places ==
  ASSUME TypeOK, NEW c \in Callers, NEW place \in Spots, Moves(c, place)
  PROVE  /\ fin' \in [Callers -> Call]
         /\ fin'[c].pc = place
         /\ \A d \in Callers : d # c => fin'[d] = fin[d]
<1> DEFINE new == IF place = "idle" THEN Idle ELSE [fin[c] EXCEPT !.pc = place]
<1>1. fin \in [Callers -> Call] /\ fin[c] \in Call
  BY DEF TypeOK
<1>2. new \in Call /\ new.pc = place
  BY <1>1 DEF Call, Idle, Spots
<1>3. fin' = [fin EXCEPT ![c] = new]
  BY DEF Moves
<1> HIDE DEF new
<1>4. QED
  BY <1>1, <1>2, <1>3

LEMMA ProducerTypes ==
  ASSUME TypeOK, Produce
  PROVE  TypeOK'
<1> USE MonitorAssumption DEF TypeOK, regime, producer, signals, terminal, bytes, callers, facts
<1>u. UNCHANGED regime
  BY DEF Produce
<1> USE <1>u
<1>1. CASE Check
  BY <1>1 DEF Check
<1>2. CASE WakeOnSignal
  BY <1>2 DEF WakeOnSignal
<1>3. CASE WakeInTime
  BY <1>3 DEF WakeInTime
<1>4. CASE LockToBeat
  BY <1>4 DEF LockToBeat
<1>5. CASE ProducerProgress
  BY <1>5 DEF ProducerProgress, PublishProgress
<1>6. CASE Heartbeat
  BY <1>6 DEF Heartbeat, Beats
<1>7. CASE LeaveBeat
  <2>1. now \in Nat /\ NextDeadline(nextAt, now) \in Nat
    BY DEF NextDeadline
  <2>2. beat' \in Beats
    BY <1>7, <2>1 DEF LeaveBeat, Beats
  <2>3. QED
    BY <1>7, <2>1, <2>2 DEF LeaveBeat
<1>8. CASE Raise
  BY <1>8 DEF Raise
<1>9. CASE Report
  BY <1>9 DEF Report
<1>10. CASE Exit
  BY <1>10 DEF Exit
<1>11. QED
  BY <1>1, <1>2, <1>3, <1>4, <1>5, <1>6, <1>7, <1>8, <1>9, <1>10 DEF Produce

LEMMA CallerTypes ==
  ASSUME TypeOK, DeliveryInv, NEW c \in Callers, FinishStep(c) \/ FinishFault(c)
  PROVE  TypeOK'
<1> USE MonitorAssumption DEF regime, producer, signals, terminal, bytes, callers, facts
<1>u. UNCHANGED regime
  BY DEF FinishStep, FinishFault
<1> USE <1>u
<1>t. fin[c] \in Call /\ Outcome[c] \in States /\ now \in Nat
  BY DEF TypeOK, States
<1>m. ASSUME NEW place \in Spots, Moves(c, place) PROVE fin' \in [Callers -> Call]
  BY <1>m, Places
<1>g. ASSUME NEW place \in {"idle", "join", "await", "confirm", "claim"}, GoesTo(c, place)
      PROVE  TypeOK'
  <2>1. fin' \in [Callers -> Call]
    BY <1>g, <1>m DEF Spots, GoesTo
  <2>2. QED
    BY <1>g, <2>1 DEF GoesTo, TypeOK
<1>1. ASSUME Request(c) PROVE TypeOK'
  <2>1. fin' \in [Callers -> Call]
    BY <1>1, <1>m DEF Spots, Request
  <2>2. QED
    BY <1>1, <1>t, <2>1 DEF Request, TypeOK
<1>2. ASSUME Signal(c) PROVE TypeOK'
  <2>1. [pc |-> "join", deadline |-> now + Budget] \in Call
    BY <1>t DEF Call
  <2>2. fin' \in [Callers -> Call]
    BY <1>2, <2>1 DEF Signal, TypeOK
  <2>3. waiterSet' \in BOOLEAN
    BY <1>2 DEF Signal, TypeOK
  <2>4. QED
    BY <1>2, <2>1, <2>2, <2>3 DEF Signal, TypeOK
<1>3. ASSUME Joined(c) \/ Reported(c) \/ Confirmed(c) \/ GiveUp(c) \/ JoinRaises(c) \/ NotConfirmed(c)
      PROVE  TypeOK'
  BY <1>3, <1>g DEF Joined, Reported, Confirmed, GiveUp, JoinRaises, NotConfirmed
<1>4. ASSUME Claim(c) PROVE TypeOK'
  <2>1. fin' \in [Callers -> Call]
    BY <1>4, <1>m DEF Spots, Claim
  <2>2. QED
    BY <1>4, <2>1 DEF Claim, TypeOK
<1>5. ASSUME LockFinal(c) PROVE TypeOK'
  <2>1. fin' \in [Callers -> Call]
    BY <1>5, <1>m DEF Spots, LockFinal
  <2>2. QED
    BY <1>5, <2>1 DEF LockFinal, TypeOK
<1>6. ASSUME FinalProgress(c) PROVE TypeOK'
  <2>1. fin' \in [Callers -> Call]
    BY <1>6, <1>m DEF Spots, FinalProgress
  <2>2. QED
    BY <1>6, <2>1 DEF FinalProgress, PublishProgress, TypeOK
<1>7. ASSUME Deliver(c) PROVE TypeOK'
  <2>1. fin' \in [Callers -> Call]
    BY <1>7, <1>m DEF Spots, Deliver
  <2>2. requested \in States
    BY <1>7 DEF Deliver, At, DeliveryInv, TypeOK
  <2>3. terminals' \in Seq(States)
    BY <1>7, <2>2 DEF Deliver, TypeOK
  <2>4. QED
    BY <1>7, <2>1, <2>3 DEF Deliver, TypeOK
<1>8. ASSUME Interrupt(c) PROVE TypeOK'
  <2>1. fin' \in [Callers -> Call]
    BY <1>8, <1>m DEF Spots, Interrupt
  <2>2. QED
    BY <1>8, <2>1 DEF Interrupt, TypeOK
<1>9. QED
  BY <1>1, <1>2, <1>3, <1>4, <1>5, <1>6, <1>7, <1>8 DEF FinishStep, FinishFault

LEMMA OtherTypes ==
  ASSUME TypeOK, RecordTransportProgress \/ TimePasses
                 \/ \E c \in Callers : Finish(c)
  PROVE  TypeOK'
<1> USE MonitorAssumption DEF TypeOK, regime, producer, signals, terminal, bytes, callers, facts
<1>1. CASE RecordTransportProgress
  BY <1>1 DEF RecordTransportProgress
<1>2. CASE TimePasses
  BY <1>2 DEF TimePasses
<1>3. ASSUME NEW c \in Callers, Finish(c) PROVE TypeOK'
  <2>1. fin' \in [Callers -> Call]
    BY <1>3, Places DEF Finish, Spots
  <2>2. QED
    BY <1>3, <2>1 DEF Finish
<1>4. QED
  BY <1>1, <1>2, <1>3

----------------------------------------------------------------------------
(* The lock and the delivery. *)

LEMMA ProducerKeeps ==
  ASSUME TypeOK, MonitorInv, Produce
  PROVE  MonitorInv'
<1> USE MonitorAssumption DEF regime, producer, signals, terminal, bytes, callers, facts
<1>0. UNCHANGED <<fin, requested, delivered, terminals, received>>
  BY DEF Produce, Check, WakeOnSignal, WakeInTime, LockToBeat, ProducerProgress, Heartbeat,
         LeaveBeat, Raise, Report, Exit, PublishProgress
<1>1. LockInv'
  <2> USE <1>0 DEF TypeOK, MonitorInv, LockInv, Producing, At
  <2>1. CASE LockToBeat
    BY <2>1 DEF LockToBeat
  <2>2. CASE LeaveBeat \/ Raise
    BY <2>2 DEF LeaveBeat, Raise
  <2>3. CASE Check \/ WakeOnSignal \/ WakeInTime
    BY <2>3 DEF Check, WakeOnSignal, WakeInTime
  <2>4. CASE ProducerProgress \/ Heartbeat \/ Report \/ Exit
    BY <2>4 DEF ProducerProgress, Heartbeat, Report, Exit
  <2>5. QED
    BY <2>1, <2>2, <2>3, <2>4 DEF Produce
<1>2. Alive
  BY DEF Produce, Check, WakeOnSignal, WakeInTime, LockToBeat, ProducerProgress, Heartbeat,
         LeaveBeat, Raise, Report, Exit, Alive
<1>3. DeliveryInv'
  BY <1>0, <1>2 DEF MonitorInv, DeliveryInv, At, Alive
<1>4. terminals = <<>> /\ \A c \in Callers : ~At(c, "deliver")
  BY <1>2 DEF MonitorInv, DeliveryInv, Delivering, At
<1>5. published <= received /\ published' <= received'
  <2>1. received \in Nat /\ published \in Nat /\ published <= received
    BY DEF TypeOK, MonitorInv, BytesInv
  <2>2. published' = published \/ published' = received
    BY DEF Produce, Check, WakeOnSignal, WakeInTime, LockToBeat, ProducerProgress, Heartbeat,
           LeaveBeat, Raise, Report, Exit, PublishProgress
  <2>3. QED
    BY <1>0, <2>1, <2>2
<1>6. BytesInv' /\ TerminalOnceAfterStop' /\ AllBytesTold'
  BY <1>0, <1>4, <1>5 DEF BytesInv, TerminalOnceAfterStop, AllBytesTold, At
<1>7. QED
  BY <1>1, <1>3, <1>6 DEF MonitorInv

LEMMA OthersKeep ==
  ASSUME TypeOK, MonitorInv,
         RecordTransportProgress \/ TimePasses \/ \E c \in Callers : Finish(c)
  PROVE  MonitorInv'
<1> USE MonitorAssumption DEF regime, producer, signals, terminal, bytes, callers, facts
<1>1. CASE RecordTransportProgress
  <2>1. terminals = <<>> /\ \A c \in Callers : ~At(c, "deliver")
    BY <1>1 DEF RecordTransportProgress, MonitorInv, DeliveryInv, At
  <2>2. UNCHANGED <<lock, ppc, fin, requested, delivered, terminals, published>>
    BY <1>1 DEF RecordTransportProgress
  <2>3. LockInv' /\ DeliveryInv'
    BY <2>2 DEF MonitorInv, LockInv, DeliveryInv, At, Alive
  <2>4. published' <= received'
    BY <1>1 DEF RecordTransportProgress, TypeOK, MonitorInv, BytesInv
  <2>5. QED
    BY <2>1, <2>2, <2>3, <2>4 DEF MonitorInv, BytesInv, TerminalOnceAfterStop, AllBytesTold, At
<1>2. CASE TimePasses
  <2>1. UNCHANGED <<lock, ppc, fin, requested, delivered, terminals, published, received>>
    BY <1>2 DEF TimePasses
  <2>2. QED
    BY <2>1 DEF MonitorInv, LockInv, DeliveryInv, BytesInv, TerminalOnceAfterStop, AllBytesTold, At, Alive
<1>3. ASSUME NEW c \in Callers, Finish(c) PROVE MonitorInv'
  <2>1. UNCHANGED <<lock, ppc, requested, delivered, terminals, published, received>>
    BY <1>3 DEF Finish
  <2>2. /\ fin'[c].pc = "request" /\ fin[c].pc = "idle"
        /\ \A d \in Callers : d # c => fin'[d] = fin[d]
    BY <1>3, Places DEF Finish, At, Spots
  <2>3. LockInv'
    BY <2>1, <2>2 DEF MonitorInv, LockInv, At
  <2>4. DeliveryInv'
    BY <2>1, <2>2 DEF MonitorInv, DeliveryInv, Delivering, At, Alive
  <2>5. BytesInv' /\ TerminalOnceAfterStop' /\ AllBytesTold'
    BY <2>1, <2>2 DEF MonitorInv, BytesInv, TerminalOnceAfterStop, AllBytesTold, At, Alive
  <2>6. QED
    BY <2>3, <2>4, <2>5 DEF MonitorInv
<1>4. QED
  BY <1>1, <1>2, <1>3

\* A step of a call that neither holds the lock nor delivers.
LEMMA QuietMoveKeeps ==
  ASSUME TypeOK, MonitorInv, NEW c \in Callers,
         NEW place \in {"idle", "signal", "join", "await", "confirm", "claim"},
         UNCHANGED <<lock, ppc, delivered, terminals, published, received>>,
         fin'[c].pc = place, \A d \in Callers : d # c => fin'[d] = fin[d],
         ~At(c, "publish"),
         requested' = requested \/ (requested = None /\ requested' # None),
         place # "idle" => requested' # None,
         place = "claim" => ~Alive
  PROVE  MonitorInv'
<1>1. LockInv'
  BY DEF MonitorInv, LockInv, At
<1>2. \A d \in Callers : fin'[d].pc \in Delivering => fin[d].pc \in Delivering /\ fin'[d] = fin[d]
  BY DEF Delivering
<1>3. DeliveryInv'
  BY <1>2 DEF MonitorInv, DeliveryInv, At, Alive
<1>4. BytesInv' /\ AllBytesTold'
  BY DEF MonitorInv, BytesInv, AllBytesTold, At
<1>5. TerminalOnceAfterStop'
  BY DEF MonitorInv, DeliveryInv, TerminalOnceAfterStop, Alive
<1>6. QED
  BY <1>1, <1>3, <1>4, <1>5 DEF MonitorInv

LEMMA CallerKeeps ==
  ASSUME TypeOK, MonitorInv, NEW c \in Callers, FinishStep(c) \/ FinishFault(c)
  PROVE  MonitorInv'
<1> USE MonitorAssumption DEF regime, producer, signals, terminal, bytes, callers, facts
<1>t. fin[c] \in Call /\ Outcome[c] \in States /\ None \notin States
  BY DEF TypeOK, States
<1>m. ASSUME NEW place \in Spots, Moves(c, place)
      PROVE  fin'[c].pc = place /\ \A d \in Callers : d # c => fin'[d] = fin[d]
  BY <1>m, Places
<1>g. ASSUME NEW place \in {"idle", "join", "await", "confirm", "claim"}, GoesTo(c, place),
             fin[c].pc \in {"join", "await", "confirm"}, place = "claim" => ~Alive
      PROVE  MonitorInv'
  <2>1. fin'[c].pc = place /\ \A d \in Callers : d # c => fin'[d] = fin[d]
    BY <1>g, <1>m DEF Spots, GoesTo
  <2>2. UNCHANGED <<lock, ppc, delivered, terminals, published, received, requested>>
    BY <1>g DEF GoesTo
  <2>3. requested # None
    BY <1>g DEF MonitorInv, DeliveryInv
  <2>4. QED
    BY <1>g, <2>1, <2>2, <2>3, QuietMoveKeeps DEF At
<1>1. ASSUME Request(c) PROVE MonitorInv'
  <2>1. UNCHANGED <<lock, ppc, delivered, terminals, published, received>> /\ At(c, "request")
    BY <1>1 DEF Request
  <2>2. CASE delivered
    <3>1. Moves(c, "idle") /\ requested' = requested
      BY <1>1, <2>2 DEF Request
    <3>2. fin'[c].pc = "idle" /\ \A d \in Callers : d # c => fin'[d] = fin[d]
      BY <1>m, <3>1 DEF Spots
    <3>3. QED
      BY <2>1, <3>1, <3>2, QuietMoveKeeps DEF At
  <2>3. CASE ~delivered
    <3>1. requested' # None /\ (requested' = requested \/ requested = None)
      BY <1>1, <1>t, <2>3 DEF Request, TypeOK
    <3>2. Moves(c, "signal")
      BY <1>1, <2>3 DEF Request
    <3>3. fin'[c].pc = "signal" /\ \A d \in Callers : d # c => fin'[d] = fin[d]
      BY <1>m, <3>2 DEF Spots
    <3>4. QED
      BY <2>1, <3>1, <3>3, QuietMoveKeeps DEF At
  <2>4. QED
    BY <2>2, <2>3
<1>2. ASSUME Signal(c) PROVE MonitorInv'
  <2>1. UNCHANGED <<lock, ppc, delivered, terminals, published, received, requested>> /\ At(c, "signal")
    BY <1>2 DEF Signal
  <2>2. requested # None
    BY <2>1 DEF MonitorInv, DeliveryInv, At
  <2>3. QED
    BY <1>2, <1>m, <2>1, <2>2, QuietMoveKeeps DEF Signal, At
<1>3. ASSUME Joined(c) \/ Reported(c) \/ Confirmed(c) \/ GiveUp(c) \/ JoinRaises(c) \/ NotConfirmed(c)
      PROVE  MonitorInv'
  BY <1>3, <1>g DEF Joined, Reported, Confirmed, GiveUp, JoinRaises, NotConfirmed, At
<1>4. ASSUME Claim(c) PROVE MonitorInv'
  <2>1. UNCHANGED <<lock, ppc, terminals, published, received, requested>> /\ At(c, "claim")
    BY <1>4 DEF Claim
  <2>2. ~Alive /\ requested # None
    BY <2>1 DEF MonitorInv, DeliveryInv, At
  <2>3. CASE delivered
    <3>1. Moves(c, "idle") /\ delivered' = delivered
      BY <1>4, <2>3 DEF Claim, TypeOK
    <3>2. fin'[c].pc = "idle" /\ \A d \in Callers : d # c => fin'[d] = fin[d]
      BY <1>m, <3>1 DEF Spots
    <3>3. QED
      BY <2>1, <2>2, <3>1, <3>2, QuietMoveKeeps DEF At
  <2>4. CASE ~delivered
    <3>m. Moves(c, "final") /\ delivered' = TRUE
      BY <1>4, <2>4 DEF Claim
    <3>1. /\ fin'[c].pc = "final" /\ delivered' = TRUE
          /\ \A d \in Callers : d # c => fin'[d] = fin[d]
      BY <1>m, <3>m DEF Spots
    <3>2. terminals = <<>> /\ \A d \in Callers : fin[d].pc \notin Delivering
      BY <2>4 DEF MonitorInv, DeliveryInv
    <3>3. LockInv'
      BY <2>1, <3>1 DEF MonitorInv, LockInv, At
    <3>4. DeliveryInv'
      BY <2>1, <2>2, <3>1, <3>2 DEF MonitorInv, DeliveryInv, Delivering, At, Alive
    <3>5. BytesInv' /\ TerminalOnceAfterStop' /\ AllBytesTold'
      BY <2>1, <3>1, <3>2 DEF MonitorInv, BytesInv, TerminalOnceAfterStop, AllBytesTold, At
    <3>6. QED
      BY <3>3, <3>4, <3>5 DEF MonitorInv
  <2>5. QED
    BY <2>3, <2>4
<1>5. ASSUME LockFinal(c) PROVE MonitorInv'
  <2>1. /\ UNCHANGED <<ppc, terminals, published, received, requested, delivered>>
        /\ At(c, "final") /\ lock = None /\ lock' = c
    BY <1>5 DEF LockFinal
  <2>2. fin'[c].pc = "publish" /\ \A d \in Callers : d # c => fin'[d] = fin[d]
    BY <1>5, <1>m DEF Spots, LockFinal
  <2>3. LockInv'
    BY <2>1, <2>2 DEF MonitorInv, LockInv, At
  <2>4. DeliveryInv'
    BY <2>1, <2>2 DEF MonitorInv, DeliveryInv, Delivering, At, Alive
  <2>5. BytesInv' /\ TerminalOnceAfterStop' /\ AllBytesTold'
    BY <2>1, <2>2 DEF MonitorInv, BytesInv, TerminalOnceAfterStop, AllBytesTold, At, Alive
  <2>6. QED
    BY <2>3, <2>4, <2>5 DEF MonitorInv
<1>6. ASSUME FinalProgress(c) PROVE MonitorInv'
  <2>1. /\ UNCHANGED <<ppc, terminals, received, requested, delivered>>
        /\ At(c, "publish") /\ lock' = None
    BY <1>6 DEF FinalProgress, PublishProgress
  <2>2. fin'[c].pc = "deliver" /\ \A d \in Callers : d # c => fin'[d] = fin[d]
    BY <1>6, <1>m DEF Spots, FinalProgress
  <2>3. published' = received'
    BY <1>6 DEF FinalProgress, PublishProgress, TypeOK, MonitorInv, BytesInv
  <2>4. LockInv'
    BY <2>1, <2>2 DEF MonitorInv, LockInv, At
  <2>5. DeliveryInv'
    BY <2>1, <2>2 DEF MonitorInv, DeliveryInv, Delivering, At, Alive
  <2>6. BytesInv' /\ AllBytesTold'
    BY <2>1, <2>3 DEF TypeOK, BytesInv, AllBytesTold
  <2>7. TerminalOnceAfterStop'
    BY <2>1 DEF MonitorInv, TerminalOnceAfterStop, Alive
  <2>8. QED
    BY <2>4, <2>5, <2>6, <2>7 DEF MonitorInv
<1>7. ASSUME Deliver(c) PROVE MonitorInv'
  <2>1. /\ UNCHANGED <<lock, ppc, received, published, requested, delivered>>
        /\ At(c, "deliver") /\ terminals' = Append(terminals, requested)
    BY <1>7 DEF Deliver
  <2>2. fin'[c].pc = "idle" /\ \A d \in Callers : d # c => fin'[d] = fin[d]
    BY <1>7, <1>m DEF Spots, Deliver
  <2>3. /\ terminals = <<>> /\ delivered /\ ~Alive /\ published = received
        /\ \A d \in Callers : d # c => fin[d].pc \notin Delivering
    BY <2>1 DEF MonitorInv, DeliveryInv, BytesInv, Delivering, At
  <2>4. Len(terminals') = 1 /\ terminals'[1] = requested /\ terminals' # <<>>
    BY <2>1, <2>3
  <2>5. LockInv'
    BY <2>1, <2>2 DEF MonitorInv, LockInv, At
  <2>6. DeliveryInv'
    BY <2>1, <2>2, <2>3 DEF MonitorInv, DeliveryInv, Delivering, At, Alive
  <2>7. BytesInv' /\ AllBytesTold'
    BY <2>1, <2>2, <2>3 DEF MonitorInv, BytesInv, AllBytesTold, At
  <2>8. TerminalOnceAfterStop'
    BY <2>1, <2>3, <2>4 DEF TerminalOnceAfterStop, Alive
  <2>9. QED
    BY <2>5, <2>6, <2>7, <2>8 DEF MonitorInv
<1>8. ASSUME Interrupt(c) PROVE MonitorInv'
  <2>1. /\ UNCHANGED <<ppc, received, published, requested, delivered, terminals>>
        /\ lock' = IF lock = c THEN None ELSE lock
    BY <1>8 DEF Interrupt
  <2>2. fin'[c].pc = "idle" /\ \A d \in Callers : d # c => fin'[d] = fin[d]
    BY <1>8, <1>m DEF Spots, Interrupt
  <2>3. LockInv'
    BY <2>1, <2>2 DEF MonitorInv, LockInv, At
  <2>4. DeliveryInv'
    BY <2>1, <2>2 DEF MonitorInv, DeliveryInv, Delivering, At, Alive
  <2>5. BytesInv' /\ TerminalOnceAfterStop' /\ AllBytesTold'
    BY <2>1, <2>2 DEF MonitorInv, BytesInv, TerminalOnceAfterStop, AllBytesTold, At, Alive
  <2>6. QED
    BY <2>3, <2>4, <2>5 DEF MonitorInv
<1>9. QED
  BY <1>1, <1>2, <1>3, <1>4, <1>5, <1>6, <1>7, <1>8 DEF FinishStep, FinishFault

LEMMA MonitorInvInit == Init => TypeOK /\ MonitorInv
<1> SUFFICES ASSUME Init PROVE TypeOK /\ MonitorInv
  OBVIOUS
<1>1. TypeOK
  <2>1. fin \in [Callers -> Call]
    BY DEF Init, Call, Idle
  <2>2. beat \in Beats
    BY DEF Init, Beats
  <2>3. terminals \in Seq(States)
    BY DEF Init
  <2>4. honoursSet \in BOOLEAN /\ prompt \in BOOLEAN
    BY DEF Init
  <2>5. /\ stop \in BOOLEAN /\ waiterSet \in BOOLEAN /\ producerDone \in BOOLEAN /\ delivered \in BOOLEAN
    BY DEF Init
  <2>6. /\ now \in 0..Horizon /\ received \in 0..MaxBytes /\ published \in 0..MaxBytes
        /\ calls \in 0..MaxCalls /\ nextAt \in Nat
    BY MonitorAssumption DEF Init
  <2>7. /\ lock \in Callers \cup {None, "producer"} /\ requested \in States \cup {None}
        /\ ppc = "check"
    BY DEF Init
  <2>8. QED
    BY <2>1, <2>2, <2>3, <2>4, <2>5, <2>6, <2>7 DEF TypeOK
<1>2. LockInv
  BY MonitorAssumption DEF Init, LockInv, At, Producing, Idle
<1>3. DeliveryInv /\ BytesInv /\ TerminalOnceAfterStop /\ AllBytesTold
  BY DEF Init, DeliveryInv, BytesInv, TerminalOnceAfterStop, AllBytesTold, At, Delivering, Idle
<1>4. QED
  BY <1>1, <1>2, <1>3 DEF MonitorInv

LEMMA MonitorInvStep == TypeOK /\ MonitorInv /\ [Next]_vars => TypeOK' /\ MonitorInv'
<1> SUFFICES ASSUME TypeOK, MonitorInv, [Next]_vars PROVE TypeOK' /\ MonitorInv'
  OBVIOUS
<1>1. CASE Produce
  BY <1>1, ProducerTypes, ProducerKeeps
<1>2. CASE RecordTransportProgress \/ TimePasses \/ \E c \in Callers : Finish(c)
  BY <1>2, OtherTypes, OthersKeep
<1>3. ASSUME NEW c \in Callers, FinishStep(c) \/ FinishFault(c) PROVE TypeOK' /\ MonitorInv'
  BY <1>3, CallerTypes, CallerKeeps DEF MonitorInv
<1>4. CASE UNCHANGED vars
  <2> USE <1>4 DEF vars, regime, producer, signals, terminal, bytes, callers, facts
  <2>1. TypeOK'
    BY DEF TypeOK
  <2>2. MonitorInv'
    BY DEF MonitorInv, LockInv, DeliveryInv, BytesInv, TerminalOnceAfterStop, AllBytesTold, At, Alive
  <2>3. QED
    BY <2>1, <2>2
<1>5. QED
  BY <1>1, <1>2, <1>3, <1>4 DEF Next

\* Every value keeps its type; a terminal fact is one of the two states.
THEOREM TypeCorrect == Spec => []TypeOK
<1>1. Spec => [](TypeOK /\ MonitorInv)
  BY MonitorInvInit, MonitorInvStep, PTL DEF Spec
<1>2. QED
  BY <1>1, PTL

\* At most one terminal fact, the first requested, after the producer is gone,
\* for any number of callers that race, raise and are interrupted (finish).
THEOREM DeliveredOnceAfterStop == Spec => []TerminalOnceAfterStop
<1>1. MonitorInv => TerminalOnceAfterStop
  BY DEF MonitorInv
<1>2. QED
  BY <1>1, MonitorInvInit, MonitorInvStep, PTL DEF Spec

\* The terminal fact follows the last progress of the transport
\* (_publish_progress_event, record_transport_progress).
THEOREM BytesToldBeforeTheEnd == Spec => []AllBytesTold
<1>1. MonitorInv => AllBytesTold
  BY DEF MonitorInv
<1>2. QED
  BY <1>1, MonitorInvInit, MonitorInvStep, PTL DEF Spec

\* Later requests never change the state that will be told (finish).
THEOREM FirstRequestWins == Spec => FirstRequestStays
<1>1. [Next]_vars => [requested # None => requested' = requested]_vars
  BY DEF Next, Produce, Check, WakeOnSignal, WakeInTime, LockToBeat, ProducerProgress, Heartbeat,
         LeaveBeat, Raise, Report, Exit, RecordTransportProgress, TimePasses, Finish, FinishStep,
         FinishFault, Request, Signal, Joined, Reported, Confirmed, GiveUp, Claim, LockFinal,
         FinalProgress, Deliver, JoinRaises, NotConfirmed, Interrupt, GoesTo, vars, terminal
<1>2. QED
  BY <1>1, PTL DEF Spec, FirstRequestStays

----------------------------------------------------------------------------
(* The schedule. *)

ScheduleInv ==
  /\ OnGrid(nextAt)
  /\ ppc \in {"check", "waiting", "beat", "progress", "heartbeat"} => nextAt > beat.until
  /\ ppc \in {"beat", "progress", "heartbeat"} => now >= nextAt

LEMMA ScheduleStep ==
  TypeOK /\ ScheduleInv /\ [Next]_vars =>
    /\ ScheduleInv'
    /\ beat'.slot # beat.slot => beat'.until >= beat'.slot /\ beat'.slot > beat.until /\ OnGrid(beat'.slot)
<1> SUFFICES ASSUME TypeOK, ScheduleInv, [Next]_vars
             PROVE  /\ ScheduleInv'
                    /\ beat'.slot # beat.slot =>
                          beat'.until >= beat'.slot /\ beat'.slot > beat.until /\ OnGrid(beat'.slot)
  OBVIOUS
<1> USE DEF regime, producer, signals, terminal, bytes, callers, facts
<1>1. nextAt \in Nat /\ now \in Nat /\ beat \in Beats
  BY MonitorAssumption DEF TypeOK
<1>2. CASE Check \/ WakeOnSignal \/ WakeInTime \/ LockToBeat \/ ProducerProgress \/ Raise \/ Report \/ Exit
  <2>1. UNCHANGED <<nextAt, beat, now>>
    BY <1>2 DEF Check, WakeOnSignal, WakeInTime, LockToBeat, ProducerProgress, Raise, Report, Exit
  <2>2. \/ ppc' \in {"check", "waiting"} /\ ppc \in {"check", "waiting"}
        \/ ppc' = "beat" /\ ppc = "check" /\ now >= nextAt
        \/ ppc' \in {"progress", "heartbeat"} /\ ppc \in {"beat", "progress"}
        \/ ppc' \in {"ending", "reported", "gone"}
    BY <1>2 DEF Check, WakeOnSignal, WakeInTime, LockToBeat, ProducerProgress, Raise, Report, Exit
  <2>3. QED
    BY <2>1, <2>2 DEF ScheduleInv, OnGrid
<1>3. CASE Heartbeat
  <2>1. /\ beat' = [slot |-> nextAt, until |-> now] /\ ppc = "heartbeat"
        /\ ppc' = "leave" /\ nextAt' = nextAt
    BY <1>3 DEF Heartbeat
  <2>2. QED
    BY <1>1, <2>1 DEF ScheduleInv, OnGrid
<1>4. CASE LeaveBeat
  <2>1. beat' = [beat EXCEPT !.until = now] /\ nextAt' = NextDeadline(nextAt, now) /\ ppc' = "check"
    BY <1>4 DEF LeaveBeat
  <2>2. nextAt' > now /\ OnGrid(nextAt)' /\ nextAt' \in Nat
    BY <1>1, <2>1, NextDeadlineLater DEF ScheduleInv, OnGrid
  <2>3. beat'.until = now /\ beat'.slot = beat.slot
    BY <1>1, <2>1 DEF Beats
  <2>4. QED
    BY <2>1, <2>2, <2>3 DEF ScheduleInv
<1>5. CASE TimePasses
  <2>1. UNCHANGED <<nextAt, beat, ppc>> /\ now' = now + 1
    BY <1>5 DEF TimePasses
  <2>2. QED
    BY <1>1, <2>1 DEF ScheduleInv, OnGrid
<1>6. CASE UNCHANGED <<now, nextAt, beat, ppc>>
  BY <1>6 DEF ScheduleInv, OnGrid
<1>7. ASSUME NEW c \in Callers, FinishStep(c) \/ FinishFault(c) \/ Finish(c)
      PROVE  UNCHANGED <<now, nextAt, beat, ppc>>
  BY <1>7 DEF FinishStep, FinishFault, Request, Signal, Joined, Reported, Confirmed, GiveUp, Claim,
              LockFinal, FinalProgress, Deliver, JoinRaises, NotConfirmed, Interrupt, GoesTo, Finish
<1>8. RecordTransportProgress \/ UNCHANGED vars => UNCHANGED <<now, nextAt, beat, ppc>>
  BY DEF RecordTransportProgress, vars
<1>9. QED
  BY <1>2, <1>3, <1>4, <1>5, <1>6, <1>7, <1>8 DEF Next, Produce

\* Heartbeats keep the schedule of the operation and never catch up, for any
\* periods and however long sinks take (_run, _next_heartbeat_deadline).
THEOREM BeatsOnSchedule == Spec => HeartbeatsOnSchedule
<1>1. Init => ScheduleInv
  <2>1. Init => OnGrid(nextAt)
    BY MonitorAssumption DEF Init, OnGrid
  <2>2. QED
    BY <2>1, MonitorAssumption DEF Init, ScheduleInv
<1>2. TypeOK /\ ScheduleInv /\ [Next]_vars => ScheduleInv'
  BY ScheduleStep
<1>3. TypeOK /\ ScheduleInv /\ [Next]_vars =>
        [beat'.slot # beat.slot => /\ beat'.until >= beat'.slot
                                   /\ beat'.slot > beat.until
                                   /\ OnGrid(beat'.slot)]_vars
  BY ScheduleStep
<1>4. Spec => []TypeOK
  BY TypeCorrect
<1>5. QED
  BY <1>1, <1>2, <1>3, <1>4, PTL DEF Spec, HeartbeatsOnSchedule


-----------------------------------------------------------------------------
(* The inductive invariant.                                                *)

Chunk == (Tags \cup {"none"}) \X Nat
CollectorPlaces ==
  {"dispatcher", "start", "wait", "hook", "abort", "interruption_hook", "join", "close", "put",
   "join_sink", "end"}
ReaderPlaces == {"unstarted", "read", "signal", "finish", "note", "done"}
SinkPlaces == {"none", "get", "check", "deliver", "delivered", "discard", "ended"}

ThreadsTyped ==
  /\ cpc \in CollectorPlaces
  /\ rpc \in [Tags -> ReaderPlaces] /\ made \in [Tags -> Nat]
  /\ forced \in [Tags -> BOOLEAN] /\ finalized \in [Tags -> {"no", "clean", "abort"}]
  /\ abortEvent \in BOOLEAN /\ failed \subseteq Tags
  /\ terminated \in BOOLEAN /\ noted \subseteq Tags
SinkTyped ==
  /\ spc \in SinkPlaces /\ inHand \in Chunk /\ queue \in Seq(Chunk)
  /\ sinkFailed \in BOOLEAN /\ notice \in BOOLEAN /\ accepting \in BOOLEAN
  /\ drain \in {"no", "draining", "over", "join_over"}
  /\ accepted \in Seq(Chunk) /\ seen \in Seq(Chunk)
CollectionTypeOK == ThreadsTyped /\ SinkTyped

\* A hook runs, and a stream is cut, only once the abort has been signalled.
AbortSignalled ==
  /\ failed # {} => abortEvent
  /\ cpc \in {"hook", "interruption_hook"} => abortEvent
  /\ \A t \in Tags : forced[t] => abortEvent

\* The coordinator passes its join of the readers when none is left; before it
\* has started the dispatcher there are none.
ReadersJoined ==
  /\ cpc \in {"close", "put", "join_sink", "end"} => \A t \in Tags : rpc[t] \in {"unstarted", "done"}
  /\ cpc = "dispatcher" => /\ spc = "none" /\ accepted = <<>>
                           /\ \A t \in Tags : rpc[t] = "unstarted" /\ made[t] = 0
  /\ cpc \in {"put", "join_sink"} => ~ accepting

\* The sentinel is the last item of the queue, and nothing comes after it.
SentinelLast ==
  \A i \in 1..Len(queue) : queue[i] = SENTINEL =>
     i = Len(queue) /\ ~ accepting /\ cpc \in {"join_sink", "end"}

\* The chunks in the queue, and in the hand of the dispatcher.
Waiting == IF queue # <<>> /\ queue[Len(queue)] = SENTINEL THEN Len(queue) - 1 ELSE Len(queue)
Handing == IF spc \in {"check", "deliver"} THEN 1 ELSE 0

\* What was accepted has been seen, is in hand or waits, in this order, unless
\* the sink has failed; what is delivered is always what comes next.
SeenFirst == Len(seen) <= Len(accepted) /\ \A i \in 1..Len(seen) : seen[i] = accepted[i]
DeliveredNext == spc = "deliver" => Len(seen) < Len(accepted) /\ accepted[Len(seen) + 1] = inHand
NothingLost ==
  ~ sinkFailed =>
    /\ Len(accepted) = Len(seen) + Handing + Waiting
    /\ spc \in {"check", "deliver"} => accepted[Len(seen) + 1] = inHand
    /\ \A i \in 1..Waiting : accepted[Len(seen) + Handing + i] = queue[i]

\* How the dispatcher ends, and what the notice covers.
SinkEnds ==
  /\ spc = "ended" /\ ~ sinkFailed => queue = <<>> /\ ~ accepting /\ cpc \in {"join_sink", "end"}
  /\ spc = "discard" => sinkFailed
  /\ sinkFailed => notice
  /\ cpc = "end" /\ spc # "none" /\ ~ notice => spc = "ended"

\* Without a notice every chunk that a reader made was accepted.
ChunksOf(t) == {i \in DOMAIN accepted : accepted[i][1] = t /\ accepted[i][2] # 0}
AllAccepted == \A t \in Tags : spc # "none" /\ ~ notice => made[t] = Cardinality(ChunksOf(t))

CollectionInv ==
  /\ CollectionTypeOK /\ AbortSignalled /\ ReadersJoined /\ SentinelLast
  /\ SeenFirst /\ DeliveredNext /\ NothingLost /\ SinkEnds /\ AllAccepted

LEMMA NoChunkIsSentinel == ASSUME NEW t \in Tags, NEW n \in Nat PROVE <<t, n>> # SENTINEL /\ <<t, n>> \in Chunk
BY CollectionAssumption DEF SENTINEL, Chunk

LEMMA CollectionInitially == CollectionInit => CollectionInv
<1> SUFFICES ASSUME CollectionInit PROVE CollectionInv
  OBVIOUS
<1>1. SENTINEL \in Chunk
  BY DEF SENTINEL, Chunk
<1>2. ThreadsTyped
  BY DEF CollectionInit, ThreadsTyped, CollectorPlaces, ReaderPlaces
<1>3. SinkTyped
  <2>1. <<>> \in Seq(Chunk)
    OBVIOUS
  <2> QED
    BY <1>1, <2>1 DEF CollectionInit, SinkTyped, SinkPlaces
<1>4. AbortSignalled /\ ReadersJoined /\ SentinelLast /\ SinkEnds /\ AllAccepted
  BY DEF CollectionInit, AbortSignalled, ReadersJoined, SentinelLast, SinkEnds, AllAccepted
<1>5. SeenFirst /\ DeliveredNext /\ NothingLost
  BY DEF CollectionInit, SeenFirst, DeliveredNext, NothingLost, Waiting, Handing
<1> QED
  BY <1>2, <1>3, <1>4, <1>5 DEF CollectionInv, CollectionTypeOK

\* What submit does to the sink: nothing, a notice, or the chunk is the last one
\* of the queue and of what was accepted.
Submitted(chunk) ==
  /\ spc # "none" /\ ~ sinkFailed /\ accepting /\ notice' = notice
  /\ queue' = Append(queue, chunk) /\ accepted' = Append(accepted, chunk)
Unsubmitted ==
  UNCHANGED <<queue, accepted>> /\ (notice' = notice \/ notice')
SinkElse == UNCHANGED <<spc, inHand, sinkFailed, accepting, drain, seen>>

LEMMA SubmitShape ==
  ASSUME NEW chunk, Submit(chunk)
  PROVE  /\ SinkElse /\ (Submitted(chunk) \/ Unsubmitted)
         /\ spc # "none" /\ ~ Submitted(chunk) => notice'
BY DEF Submit, Dropped, Submitted, Unsubmitted, SinkElse

\* A step of a reader, as far as the sink is concerned.
ReaderSubmits(t) ==
  \E n \in Nat : Submit(<<t, n>>) /\ (n # 0 => n = made[t] + 1 /\ made' = [made EXCEPT ![t] = @ + 1])
                                  /\ (n = 0 => made' = made)

LEMMA ReaderShape ==
  ASSUME CollectionTypeOK, NEW t \in Tags, ReaderStep(t)
  PROVE  cpc' = cpc /\ (ReaderSubmits(t) \/ UNCHANGED <<made, sinkVars>>)
<1>1. CASE ReadChunk(t)
  <2>1. made[t] + 1 \in Nat /\ made[t] + 1 # 0
    BY DEF CollectionTypeOK, ThreadsTyped
  <2> QED
    BY <1>1, <2>1 DEF ReadChunk, ReaderSubmits
<1>2. CASE FinishStream(t)
  BY <1>2 DEF FinishStream, ReaderSubmits
<1>3. CASE ReadEnd(t) \/ ReadRaises(t) \/ SignalFailure(t) \/ NoteDone(t)
  BY <1>3 DEF ReadEnd, ReadRaises, SignalFailure, NoteDone
<1> QED
  BY <1>1, <1>2, <1>3 DEF ReaderStep

-----------------------------------------------------------------------------
(* Steps: types, signals and readers.                                      *)

LEMMA ThreadsTypedStep ==
  ASSUME CollectionInv, CollectionNext
  PROVE  ThreadsTyped'
<1> USE DEF ThreadsTyped, CollectorPlaces, ReaderPlaces, CollectorGoes, ReaderGoes, readerVars, signalVars
<1>1. ThreadsTyped
  BY DEF CollectionInv, CollectionTypeOK
<1>2. ASSUME NEW t \in Tags, ReaderStep(t) PROVE ThreadsTyped'
  <2>1. CASE ReadChunk(t)
    BY <1>1, <2>1 DEF ReadChunk
  <2>2. CASE ReadEnd(t) \/ ReadRaises(t)
    BY <1>1, <2>2 DEF ReadEnd, ReadRaises
  <2>3. CASE SignalFailure(t) \/ FinishStream(t) \/ NoteDone(t)
    BY <1>1, <2>3 DEF SignalFailure, FinishStream, NoteDone, LastTells
  <2> QED
    BY <1>2, <2>1, <2>2, <2>3 DEF ReaderStep
<1>3. ASSUME NEW t \in Tags, StartReader(t) PROVE ThreadsTyped'
  BY <1>1, <1>3 DEF StartReader
<1>4. CASE StartDispatcher \/ WaitTerminal \/ RunHook \/ SignalAbort \/ InterruptCollection
  BY <1>1, <1>4 DEF StartDispatcher, WaitTerminal, RunHook, SignalAbort, InterruptCollection, AbortFirst
<1>5. CASE JoinReaders \/ CloseAcceptance \/ PutSentinel \/ JoinDispatcher \/ BudgetPasses
  BY <1>1, <1>5 DEF JoinReaders, CloseAcceptance, PutSentinel, JoinDispatcher, BudgetPasses
<1>6. CASE DispatcherStep
  BY <1>1, <1>6 DEF DispatcherStep, TakeItem, CheckItem, DeliverChunk, AfterDelivery, DiscardItem, unsubmitted
<1> QED
  BY <1>2, <1>3, <1>4, <1>5, <1>6 DEF CollectionNext, CoordinatorStep

LEMMA SinkTypedStep ==
  ASSUME CollectionInv, CollectionNext
  PROVE  SinkTyped'
<1> USE DEF SinkTyped, SinkPlaces, SinkGoes, sinkVars
<1>1. SinkTyped
  BY DEF CollectionInv, CollectionTypeOK
<1>2. ASSUME NEW t \in Tags, ReaderStep(t) PROVE SinkTyped'
  <2>1. CASE ReaderSubmits(t)
    <3>1. PICK n \in Nat : Submit(<<t, n>>)
      BY <2>1 DEF ReaderSubmits
    <3>2. <<t, n>> \in Chunk
      BY NoChunkIsSentinel
    <3>3. Append(queue, <<t, n>>) \in Seq(Chunk) /\ Append(accepted, <<t, n>>) \in Seq(Chunk)
      BY <1>1, <3>2
    <3> QED
      BY <1>1, <3>1, <3>3 DEF Submit, Dropped
  <2>2. CASE UNCHANGED sinkVars
    BY <1>1, <2>2
  <2> QED
    BY <1>2, <2>1, <2>2, ReaderShape DEF CollectionInv
<1>3. CASE StartDispatcher
  BY <1>1, <1>3 DEF StartDispatcher
<1>4. CASE (\E t \in Tags : StartReader(t)) \/ WaitTerminal \/ RunHook \/ SignalAbort \/ JoinReaders
           \/ InterruptCollection
  BY <1>1, <1>4 DEF StartReader, WaitTerminal, RunHook, SignalAbort, JoinReaders, InterruptCollection
<1>5. CASE CloseAcceptance \/ JoinDispatcher \/ BudgetPasses
  BY <1>1, <1>5 DEF CloseAcceptance, JoinDispatcher, BudgetPasses, Failing
<1>6. CASE PutSentinel
  <2>1. Append(queue, SENTINEL) \in Seq(Chunk)
    BY <1>1 DEF SENTINEL, Chunk
  <2> QED
    BY <1>1, <1>6, <2>1 DEF PutSentinel, Failing
<1>7. CASE TakeItem
  <2>1. Head(queue) \in Chunk /\ Tail(queue) \in Seq(Chunk)
    BY <1>1, <1>7 DEF TakeItem
  <2> QED
    BY <1>1, <1>7, <2>1 DEF TakeItem, unsubmitted
<1>8. CASE DeliverChunk
  <2>1. Append(seen, inHand) \in Seq(Chunk)
    BY <1>1
  <2> QED
    BY <1>1, <1>8, <2>1 DEF DeliverChunk, unsubmitted, Failing
<1>9. CASE CheckItem \/ AfterDelivery
  BY <1>1, <1>9 DEF CheckItem, AfterDelivery, unsubmitted, Failing
<1>10. CASE DiscardItem
  <2>1. queue # <<>> => Tail(queue) \in Seq(Chunk)
    BY <1>1
  <2> QED
    BY <1>1, <1>10, <2>1 DEF DiscardItem, unsubmitted
<1> QED
  BY <1>2, <1>3, <1>4, <1>5, <1>6, <1>7, <1>8, <1>9, <1>10
     DEF CollectionNext, CoordinatorStep, DispatcherStep

LEMMA AbortStep ==
  ASSUME CollectionInv, CollectionNext
  PROVE  AbortSignalled'
<1> USE DEF AbortSignalled, CollectorGoes, signalVars, readerVars
<1>1. AbortSignalled
  BY DEF CollectionInv
<1>2. ASSUME NEW t \in Tags, ReaderStep(t) PROVE AbortSignalled'
  <2>1. CASE ReadRaises(t)
    BY <1>1, <2>1 DEF ReadRaises
  <2>2. CASE ReadChunk(t) \/ ReadEnd(t) \/ SignalFailure(t) \/ FinishStream(t) \/ NoteDone(t)
    BY <1>1, <2>2 DEF ReadChunk, ReadEnd, SignalFailure, FinishStream, NoteDone
  <2> QED
    BY <1>2, <2>1, <2>2 DEF ReaderStep
<1>3. ASSUME NEW t \in Tags, StartReader(t) PROVE AbortSignalled'
  BY <1>1, <1>3 DEF StartReader
<1>4. CASE StartDispatcher \/ WaitTerminal \/ InterruptCollection \/ JoinReaders
  BY <1>1, <1>4 DEF StartDispatcher, WaitTerminal, InterruptCollection, JoinReaders
<1>5. CASE RunHook
  BY <1>1, <1>5 DEF RunHook
<1>6. CASE SignalAbort
  BY <1>1, <1>6 DEF SignalAbort, AbortFirst
<1>7. CASE CloseAcceptance \/ PutSentinel \/ JoinDispatcher \/ BudgetPasses
  BY <1>1, <1>7 DEF CloseAcceptance, PutSentinel, JoinDispatcher, BudgetPasses
<1>8. CASE DispatcherStep
  BY <1>1, <1>8 DEF DispatcherStep, TakeItem, CheckItem, DeliverChunk, AfterDelivery, DiscardItem, unsubmitted
<1> QED
  BY <1>2, <1>3, <1>4, <1>5, <1>6, <1>7, <1>8 DEF CollectionNext, CoordinatorStep

LEMMA ReadersStep ==
  ASSUME CollectionInv, CollectionNext
  PROVE  ReadersJoined'
<1> USE DEF ReadersJoined, CollectorGoes, ReaderGoes, signalVars, readerVars, sinkVars
<1>1. ReadersJoined /\ ThreadsTyped
  BY DEF CollectionInv, CollectionTypeOK
<1>2. ASSUME NEW t \in Tags, ReaderStep(t) PROVE ReadersJoined'
  <2>1. rpc[t] \notin {"unstarted", "done"} /\ cpc' = cpc
    BY <1>2 DEF ReaderStep, ReadChunk, ReadEnd, ReadRaises, SignalFailure, FinishStream, NoteDone
  <2>2. accepting' = accepting
    BY <1>2, ReaderShape, SubmitShape DEF CollectionInv, ReaderSubmits, SinkElse
  <2> QED
    BY <1>1, <2>1, <2>2
<1>3. ASSUME NEW t \in Tags, StartReader(t) PROVE ReadersJoined'
  BY <1>1, <1>3 DEF StartReader
<1>4. CASE StartDispatcher \/ WaitTerminal \/ RunHook \/ SignalAbort \/ InterruptCollection \/ JoinReaders
  BY <1>1, <1>4 DEF StartDispatcher, WaitTerminal, RunHook, SignalAbort, InterruptCollection, JoinReaders
<1>5. CASE CloseAcceptance \/ PutSentinel \/ JoinDispatcher
  BY <1>1, <1>5 DEF CloseAcceptance, PutSentinel, JoinDispatcher
<1>6. CASE BudgetPasses
  BY <1>1, <1>6 DEF BudgetPasses
<1>7. CASE DispatcherStep
  BY <1>1, <1>7 DEF DispatcherStep, TakeItem, CheckItem, DeliverChunk, AfterDelivery, DiscardItem, unsubmitted, SinkGoes
<1> QED
  BY <1>2, <1>3, <1>4, <1>5, <1>6, <1>7 DEF CollectionNext, CoordinatorStep

-----------------------------------------------------------------------------
(* Steps: what flows from the readers to the sink.                         *)

Flow == SentinelLast /\ SeenFirst /\ DeliveredNext /\ NothingLost /\ SinkEnds

\* The last item of a queue tells how many chunks there are.
LEMMA WaitingIs ==
  ASSUME SinkTyped, SentinelLast
  PROVE  /\ Waiting \in Nat /\ Len(queue) \in Nat
         /\ queue = <<>> => Waiting = 0
         /\ queue # <<>> => Len(queue) > 0
         /\ queue # <<>> /\ queue[Len(queue)] = SENTINEL => Waiting = Len(queue) - 1
         /\ queue # <<>> /\ queue[Len(queue)] # SENTINEL => Waiting = Len(queue)
         /\ \A i \in 1..Waiting : i \in 1..Len(queue) /\ queue[i] # SENTINEL
<1>1. Len(queue) \in Nat /\ (queue = <<>> => Len(queue) = 0) /\ (queue # <<>> => Len(queue) > 0)
  BY DEF SinkTyped
<1>2. CASE queue = <<>>
  BY <1>1, <1>2 DEF Waiting
<1>3. CASE queue # <<>>
  <2>1. Len(queue) \in 1..Len(queue)
    BY <1>1, <1>3
  <2> QED
    BY <1>1, <1>3, <2>1 DEF Waiting, SentinelLast
<1> QED
  BY <1>2, <1>3

LEMMA SubmitFlow ==
  ASSUME CollectionInv, NEW chunk \in Chunk, chunk # SENTINEL, Submit(chunk), cpc' = cpc
  PROVE  Flow'
<1>1. SinkTyped /\ SentinelLast /\ SeenFirst /\ DeliveredNext /\ NothingLost /\ SinkEnds
  BY DEF CollectionInv, CollectionTypeOK
<1>2. SinkElse
  BY SubmitShape
<1>3. CASE Unsubmitted
  BY <1>1, <1>2, <1>3 DEF Unsubmitted, SinkElse, Flow, SentinelLast, SeenFirst, DeliveredNext, NothingLost,
     SinkEnds, Waiting, Handing
<1>4. CASE Submitted(chunk)
  <2>1. /\ accepting /\ ~ sinkFailed /\ notice' = notice
        /\ queue' = Append(queue, chunk) /\ accepted' = Append(accepted, chunk)
    BY <1>4 DEF Submitted
  <2>2. /\ Len(queue) \in Nat /\ Len(queue') = Len(queue) + 1 /\ queue'[Len(queue) + 1] = chunk
        /\ \A i \in 1..Len(queue) : queue'[i] = queue[i]
    BY <1>1, <2>1 DEF SinkTyped
  <2>3. /\ Len(accepted) \in Nat /\ Len(accepted') = Len(accepted) + 1
        /\ accepted'[Len(accepted) + 1] = chunk
        /\ \A i \in 1..Len(accepted) : accepted'[i] = accepted[i]
    BY <1>1, <2>1 DEF SinkTyped
  <2>4. \A i \in 1..Len(queue) : queue[i] # SENTINEL
    BY <1>1, <2>1 DEF SentinelLast
  <2>5. queue' # <<>> /\ queue'[Len(queue')] # SENTINEL
    BY <2>1, <2>2
  <2>6. Waiting = Len(queue) /\ Waiting' = Len(queue) + 1
    <3>1. queue # <<>> => Len(queue) \in 1..Len(queue)
      BY <1>1 DEF SinkTyped
    <3>2. Waiting = Len(queue)
      <4>1. queue # <<>> => queue[Len(queue)] # SENTINEL
        BY <2>4, <3>1
      <4> QED
        BY <4>1 DEF Waiting
    <3>3. Waiting' = Len(queue')
      BY <2>5 DEF Waiting
    <3> QED
      BY <2>2, <3>2, <3>3
  <2>7. SentinelLast'
    <3>1. \A i \in 1..Len(queue') : queue'[i] # SENTINEL
      BY <2>2, <2>4
    <3> QED
      BY <3>1 DEF SentinelLast
  <2>8. Len(seen) \in Nat /\ seen' = seen /\ spc' = spc /\ inHand' = inHand /\ sinkFailed' = sinkFailed
        /\ Handing' = Handing /\ Handing \in {0, 1} /\ accepting' = accepting
    BY <1>1, <1>2 DEF SinkTyped, SinkElse, Handing
  <2>9. SeenFirst'
    BY <1>1, <2>3, <2>8 DEF SeenFirst
  <2>10. DeliveredNext'
    BY <1>1, <2>3, <2>8 DEF DeliveredNext
  <2>11. NothingLost'
    <3>1. /\ Len(accepted) = Len(seen) + Handing + Len(queue)
          /\ spc \in {"check", "deliver"} => accepted[Len(seen) + 1] = inHand /\ Handing = 1
          /\ \A i \in 1..Len(queue) : accepted[Len(seen) + Handing + i] = queue[i]
      BY <1>1, <2>1, <2>6 DEF NothingLost, Handing
    <3>2. Len(accepted') = Len(seen) + Handing + (Len(queue) + 1)
      BY <2>2, <2>3, <2>8, <3>1
    <3>3. spc \in {"check", "deliver"} => accepted'[Len(seen) + 1] = inHand
      <4>1. ASSUME spc \in {"check", "deliver"} PROVE Len(seen) + 1 \in 1..Len(accepted)
        BY <2>2, <2>8, <3>1, <4>1
      <4> QED
        BY <2>3, <3>1, <4>1
    <3>4. ASSUME NEW i \in 1..(Len(queue) + 1)
          PROVE  accepted'[Len(seen) + Handing + i] = queue'[i]
      <4>1. CASE i = Len(queue) + 1
        <5>1. Len(seen) + Handing + i = Len(accepted) + 1
          BY <2>2, <2>8, <3>1, <4>1
        <5> QED
          BY <2>2, <2>3, <4>1, <5>1
      <4>2. CASE i \in 1..Len(queue)
        <5>1. Len(seen) + Handing + i \in 1..Len(accepted)
          BY <2>2, <2>8, <3>1, <4>2
        <5> QED
          BY <2>2, <2>3, <3>1, <4>2, <5>1
      <4> QED
        BY <2>2, <4>1, <4>2
    <3> QED
      BY <2>6, <2>8, <3>2, <3>3, <3>4 DEF NothingLost
  <2>12. SinkEnds'
    BY <1>1, <2>1, <2>8 DEF SinkEnds
  <2> QED
    BY <2>7, <2>9, <2>10, <2>11, <2>12 DEF Flow
<1> QED
  BY <1>3, <1>4, SubmitShape

\* A step of the coordinator that leaves what flows alone.
LEMMA QuietFlow ==
  ASSUME CollectionInv, UNCHANGED <<spc, inHand, queue, sinkFailed, notice, accepted, seen>>,
         accepting' => accepting,
         cpc \in {"join_sink", "end"} => cpc' \in {"join_sink", "end"},
         cpc' = "end" => spc \in {"none", "ended"} \/ notice
  PROVE  Flow'
BY DEF CollectionInv, CollectionTypeOK, SinkTyped, Flow, SentinelLast, SeenFirst, DeliveredNext, NothingLost, SinkEnds,
   Waiting, Handing

LEMMA PutFlow ==
  ASSUME CollectionInv, PutSentinel
  PROVE  Flow'
<1> USE DEF CollectorGoes, Failing
<1>1. SinkTyped /\ SentinelLast /\ SeenFirst /\ DeliveredNext /\ NothingLost /\ SinkEnds /\ ~ accepting
  BY DEF CollectionInv, CollectionTypeOK, ReadersJoined, PutSentinel
<1>2. /\ cpc = "put" /\ cpc' = "join_sink"
      /\ UNCHANGED <<spc, inHand, accepting, accepted, seen>>
  BY DEF PutSentinel
<1>3. CASE UNCHANGED queue
  <2>1. sinkFailed' /\ notice'
    BY <1>1, <1>3 DEF PutSentinel, SinkTyped
  <2> QED
    BY <1>1, <1>2, <1>3, <2>1 DEF Flow, SentinelLast, SeenFirst, DeliveredNext, NothingLost, SinkEnds
<1>4. CASE queue' = Append(queue, SENTINEL) /\ UNCHANGED <<sinkFailed, notice>>
  <2>1. /\ Len(queue) \in Nat /\ Len(queue') = Len(queue) + 1 /\ queue'[Len(queue) + 1] = SENTINEL
        /\ \A i \in 1..Len(queue) : queue'[i] = queue[i]
    BY <1>1, <1>4 DEF SinkTyped
  <2>2. \A i \in 1..Len(queue) : queue[i] # SENTINEL
    BY <1>1, <1>2 DEF SentinelLast
  <2>3. SentinelLast'
    BY <1>1, <1>2, <2>1, <2>2 DEF SentinelLast
  <2>4. queue' # <<>>
    BY <1>1, <1>4 DEF SinkTyped
  <2>5. Waiting = Len(queue) /\ Waiting' = Len(queue)
    <3>1. queue # <<>> => Len(queue) \in 1..Len(queue)
      BY <1>1 DEF SinkTyped
    <3>2. queue # <<>> => queue[Len(queue)] # SENTINEL
      BY <2>2, <3>1
    <3>3. Waiting = Len(queue)
      BY <3>2 DEF Waiting
    <3>4. Waiting' = Len(queue') - 1
      BY <2>1, <2>4 DEF Waiting
    <3> QED
      BY <2>1, <3>3, <3>4
  <2>6. Handing' = Handing
    BY <1>2 DEF Handing
  <2>7. NothingLost'
    BY <1>1, <1>2, <1>4, <2>1, <2>5, <2>6 DEF NothingLost
  <2>8. SeenFirst' /\ DeliveredNext' /\ SinkEnds'
    BY <1>1, <1>2, <1>4 DEF SeenFirst, DeliveredNext, SinkEnds
  <2> QED
    BY <2>3, <2>7, <2>8 DEF Flow
<1> QED
  BY <1>3, <1>4 DEF PutSentinel

LEMMA TakeFlow ==
  ASSUME CollectionInv, TakeItem
  PROVE  Flow'
<1> USE DEF SinkGoes, unsubmitted, readerVars, signalVars
<1>1. SinkTyped /\ SentinelLast /\ SeenFirst /\ DeliveredNext /\ NothingLost /\ SinkEnds
  BY DEF CollectionInv, CollectionTypeOK
<1>2. /\ spc = "get" /\ queue # <<>> /\ inHand' = Head(queue) /\ queue' = Tail(queue)
      /\ UNCHANGED <<cpc, accepting, accepted, sinkFailed, notice, seen>>
      /\ spc' = IF Head(queue) = SENTINEL THEN "ended" ELSE "check"
  BY DEF TakeItem
<1>3. /\ Len(queue) \in Nat /\ Len(queue) > 0 /\ Len(queue') = Len(queue) - 1 /\ Head(queue) = queue[1]
      /\ \A i \in 1..(Len(queue) - 1) : queue'[i] = queue[i + 1]
      /\ Len(seen) \in Nat /\ Len(accepted) \in Nat
  BY <1>1, <1>2 DEF SinkTyped
<1>4. SentinelLast'
  <2>1. ASSUME NEW i \in 1..Len(queue'), queue'[i] = SENTINEL
        PROVE  i = Len(queue') /\ ~ accepting /\ cpc \in {"join_sink", "end"}
    <3>1. i + 1 \in 1..Len(queue) /\ queue[i + 1] = SENTINEL
      BY <1>3, <2>1
    <3>2. i + 1 = Len(queue)
      BY <1>1, <3>1 DEF SentinelLast
    <3> QED
      BY <1>1, <1>3, <3>1, <3>2 DEF SentinelLast
  <2> QED
    BY <1>2, <2>1 DEF SentinelLast
<1>5. Handing = 0
  BY <1>2 DEF Handing
<1>6. ~ sinkFailed => /\ Len(accepted) = Len(seen) + Waiting
                      /\ \A i \in 1..Waiting : accepted[Len(seen) + i] = queue[i]
  <2>1. ASSUME ~ sinkFailed
        PROVE  /\ Len(accepted) = Len(seen) + 0 + Waiting
               /\ \A i \in 1..Waiting : accepted[Len(seen) + 0 + i] = queue[i]
    BY <1>1, <1>5, <2>1 DEF NothingLost
  <2>2. Waiting \in Nat
    BY <1>1, WaitingIs
  <2> QED
    BY <1>3, <2>1, <2>2
<1>7. CASE Head(queue) = SENTINEL
  <2>1. 1 \in 1..Len(queue) /\ queue[1] = SENTINEL
    BY <1>3, <1>7
  <2>2. Len(queue) = 1 /\ ~ accepting /\ cpc \in {"join_sink", "end"}
    BY <1>1, <2>1 DEF SentinelLast
  <2>3. queue' = <<>>
    BY <1>1, <1>2, <1>3, <2>2 DEF SinkTyped
  <2>4. Waiting = 0 /\ Waiting' = 0 /\ Handing' = 0 /\ spc' = "ended"
    BY <1>2, <1>3, <1>7, <2>1, <2>2, <2>3 DEF Waiting, Handing
  <2>5. NothingLost'
    BY <1>2, <1>3, <1>6, <2>4 DEF NothingLost
  <2>6. SeenFirst' /\ DeliveredNext' /\ SinkEnds'
    BY <1>1, <1>2, <2>2, <2>3, <2>4 DEF SeenFirst, DeliveredNext, SinkEnds
  <2> QED
    BY <1>4, <2>5, <2>6 DEF Flow
<1>8. CASE Head(queue) # SENTINEL
  <2>1. spc' = "check" /\ Handing' = 1
    BY <1>2, <1>8 DEF Handing
  <2>2. Waiting \in 1..Len(queue) /\ Waiting' = Waiting - 1
    <3>1. CASE Len(queue) = 1
      <4>1. queue' = <<>> /\ queue[Len(queue)] # SENTINEL
        BY <1>1, <1>2, <1>3, <1>8, <3>1 DEF SinkTyped
      <4> QED
        BY <1>2, <1>3, <3>1, <4>1 DEF Waiting
    <3>2. CASE Len(queue) > 1
      <4>1. /\ Len(queue) - 1 \in 1..(Len(queue) - 1) /\ (Len(queue) - 1) + 1 = Len(queue)
            /\ Len(queue') > 0
        BY <1>3, <3>2
      <4>2. queue'[Len(queue')] = queue[Len(queue)] /\ queue' # <<>>
        BY <1>3, <4>1
      <4> QED
        BY <1>2, <1>3, <3>2, <4>2 DEF Waiting
    <3> QED
      BY <1>3, <3>1, <3>2
  <2>3. NothingLost'
    <3>1. ASSUME ~ sinkFailed'
          PROVE  /\ Len(accepted) = Len(seen) + 1 + (Waiting - 1)
                 /\ accepted[Len(seen) + 1] = inHand'
                 /\ \A i \in 1..(Waiting - 1) : accepted[Len(seen) + 1 + i] = queue'[i]
      <4>1. ~ sinkFailed
        BY <1>2, <3>1
      <4>2. Waiting \in Nat /\ 1 \in 1..Waiting
        BY <1>3, <2>2
      <4>3. accepted[Len(seen) + 1] = inHand'
        BY <1>2, <1>3, <1>6, <4>1, <4>2
      <4>4. ASSUME NEW i \in 1..(Waiting - 1)
            PROVE  accepted[Len(seen) + 1 + i] = queue'[i]
        <5>1. i + 1 \in 1..Waiting /\ i \in 1..(Len(queue) - 1) /\ Len(seen) + 1 + i = Len(seen) + (i + 1)
          BY <1>3, <2>2, <4>2
        <5> QED
          BY <1>3, <1>6, <4>1, <5>1
      <4>5. Len(accepted) = Len(seen) + 1 + (Waiting - 1)
        <5>1. Len(accepted) = Len(seen) + Waiting
          BY <1>6, <4>1
        <5>2. \A m, n \in Nat : m + n = m + 1 + (n - 1)
          OBVIOUS
        <5> QED
          BY <1>3, <4>2, <5>1, <5>2
      <4> QED
        BY <4>3, <4>4, <4>5
    <3> QED
      BY <1>2, <2>1, <2>2, <3>1 DEF NothingLost
  <2>4. SeenFirst' /\ DeliveredNext' /\ SinkEnds'
    BY <1>1, <1>2, <2>1 DEF SeenFirst, DeliveredNext, SinkEnds
  <2> QED
    BY <1>4, <2>3, <2>4 DEF Flow
<1> QED
  BY <1>7, <1>8

LEMMA CheckFlow ==
  ASSUME CollectionInv, CheckItem
  PROVE  Flow'
<1> USE DEF SinkGoes, unsubmitted, readerVars, signalVars, Failing
<1>1. SinkTyped /\ SentinelLast /\ SeenFirst /\ DeliveredNext /\ NothingLost /\ SinkEnds
  BY DEF CollectionInv, CollectionTypeOK
<1>2. spc = "check" /\ UNCHANGED <<cpc, accepting, accepted, inHand, queue, seen>> /\ Waiting' = Waiting
  BY DEF CheckItem, Waiting
<1>3. CASE ~ sinkFailed /\ spc' = "deliver" /\ UNCHANGED <<sinkFailed, notice>>
  <2>1. Handing = 1 /\ Handing' = 1
    BY <1>2, <1>3 DEF Handing
  <2>2. DeliveredNext'
    <3>1. Len(accepted) = Len(seen) + 1 + Waiting /\ accepted[Len(seen) + 1] = inHand
      BY <1>1, <1>2, <1>3, <2>1 DEF NothingLost
    <3>2. Waiting \in Nat /\ Len(seen) \in Nat
      BY <1>1, WaitingIs DEF SinkTyped
    <3> QED
      BY <1>2, <3>1, <3>2 DEF DeliveredNext
  <2> QED
    BY <1>1, <1>2, <1>3, <2>1, <2>2 DEF Flow, SentinelLast, SeenFirst, NothingLost, SinkEnds
<1>4. CASE sinkFailed' /\ notice' /\ spc' \in {"get", "discard"}
  BY <1>1, <1>2, <1>4 DEF Flow, SentinelLast, SeenFirst, DeliveredNext, NothingLost, SinkEnds
<1> QED
  BY <1>1, <1>3, <1>4 DEF CheckItem, SinkEnds

LEMMA DeliverFlow ==
  ASSUME CollectionInv, DeliverChunk
  PROVE  Flow'
<1> USE DEF SinkGoes, unsubmitted, readerVars, signalVars, Failing
<1>1. SinkTyped /\ SentinelLast /\ SeenFirst /\ DeliveredNext /\ NothingLost /\ SinkEnds
  BY DEF CollectionInv, CollectionTypeOK
<1>2. /\ spc = "deliver" /\ spc' = "delivered" /\ UNCHANGED <<cpc, accepting, accepted, inHand, queue>>
      /\ seen' = Append(seen, inHand) /\ Waiting' = Waiting /\ Waiting \in Nat
      /\ (sinkFailed' /\ notice') \/ UNCHANGED <<sinkFailed, notice>>
  BY <1>1, WaitingIs DEF DeliverChunk, Waiting
<1>3. /\ Len(seen) \in Nat /\ Len(seen') = Len(seen) + 1 /\ seen'[Len(seen) + 1] = inHand
      /\ \A i \in 1..Len(seen) : seen'[i] = seen[i]
      /\ Len(accepted) \in Nat
  BY <1>1, <1>2 DEF SinkTyped
<1>4. Len(seen) < Len(accepted) /\ accepted[Len(seen) + 1] = inHand
  BY <1>1, <1>2 DEF DeliveredNext
<1>5. SeenFirst'
  <2>1. ASSUME NEW i \in 1..(Len(seen) + 1) PROVE seen'[i] = accepted[i]
    <3>1. CASE i = Len(seen) + 1
      BY <1>3, <1>4, <3>1
    <3>2. CASE i \in 1..Len(seen)
      BY <1>1, <1>3, <3>2 DEF SeenFirst
    <3> QED
      BY <1>3, <3>1, <3>2
  <2> QED
    BY <1>2, <1>3, <1>4, <2>1 DEF SeenFirst
<1>6. NothingLost'
  <2>1. Handing = 1 /\ Handing' = 0
    BY <1>2 DEF Handing
  <2>2. ASSUME ~ sinkFailed'
        PROVE  /\ Len(accepted) = Len(seen') + 0 + Waiting
               /\ \A i \in 1..Waiting : accepted[Len(seen') + 0 + i] = queue[i]
    <3>1. /\ Len(accepted) = Len(seen) + 1 + Waiting
          /\ \A i \in 1..Waiting : accepted[Len(seen) + 1 + i] = queue[i]
      BY <1>1, <1>2, <2>1, <2>2 DEF NothingLost
    <3>2. Len(seen) + 1 + 0 = Len(seen) + 1 /\ Len(seen') + 0 = Len(seen) + 1
      BY <1>3
    <3> QED
      BY <1>2, <1>3, <3>1, <3>2
  <2> QED
    BY <1>2, <2>1, <2>2 DEF NothingLost
<1>7. SentinelLast' /\ DeliveredNext' /\ SinkEnds'
  BY <1>1, <1>2 DEF SentinelLast, DeliveredNext, SinkEnds
<1> QED
  BY <1>5, <1>6, <1>7 DEF Flow

LEMMA AfterFlow ==
  ASSUME CollectionInv, AfterDelivery
  PROVE  Flow'
<1>1. SinkTyped /\ SentinelLast /\ SeenFirst /\ DeliveredNext /\ NothingLost /\ SinkEnds
  BY DEF CollectionInv, CollectionTypeOK
<1>2. /\ spc = "delivered" /\ spc' = IF sinkFailed THEN "discard" ELSE "get"
      /\ UNCHANGED <<cpc, accepting, accepted, inHand, queue, seen, sinkFailed, notice>>
      /\ Waiting' = Waiting /\ Handing = 0 /\ Handing' = 0
  BY DEF AfterDelivery, SinkGoes, unsubmitted, readerVars, signalVars, Waiting, Handing
<1> QED
  BY <1>1, <1>2 DEF Flow, SentinelLast, SeenFirst, DeliveredNext, NothingLost, SinkEnds

LEMMA DiscardFlow ==
  ASSUME CollectionInv, DiscardItem
  PROVE  Flow'
<1>1. SinkTyped /\ SentinelLast /\ SeenFirst /\ SinkEnds
  BY DEF CollectionInv, CollectionTypeOK
<1>2. /\ spc = "discard" /\ sinkFailed /\ notice /\ spc' \in {"discard", "ended"}
      /\ UNCHANGED <<cpc, accepting, accepted, inHand, seen, sinkFailed, notice>>
      /\ queue' = queue \/ (queue # <<>> /\ queue' = Tail(queue))
  BY <1>1 DEF DiscardItem, SinkGoes, unsubmitted, readerVars, signalVars, SinkEnds
<1>3. SentinelLast'
  <2>1. CASE queue' = queue
    BY <1>1, <1>2, <2>1 DEF SentinelLast
  <2>2. CASE queue # <<>> /\ queue' = Tail(queue)
    <3>1. /\ Len(queue) \in Nat /\ Len(queue') = Len(queue) - 1
          /\ \A i \in 1..(Len(queue) - 1) : queue'[i] = queue[i + 1]
      BY <1>1, <2>2 DEF SinkTyped
    <3>2. ASSUME NEW i \in 1..Len(queue'), queue'[i] = SENTINEL
          PROVE  i = Len(queue') /\ ~ accepting /\ cpc \in {"join_sink", "end"}
      <4>1. i + 1 \in 1..Len(queue) /\ queue[i + 1] = SENTINEL
        BY <3>1, <3>2
      <4>2. i + 1 = Len(queue)
        BY <1>1, <4>1 DEF SentinelLast
      <4> QED
        BY <1>1, <3>1, <4>1, <4>2 DEF SentinelLast
    <3> QED
      BY <1>2, <3>2 DEF SentinelLast
  <2> QED
    BY <1>2, <2>1, <2>2
<1> QED
  BY <1>1, <1>2, <1>3 DEF Flow, SeenFirst, DeliveredNext, NothingLost, SinkEnds

LEMMA FlowStep ==
  ASSUME CollectionInv, CollectionNext
  PROVE  Flow'
<1> USE DEF CollectorGoes, sinkVars
<1>1. SinkEnds /\ SinkTyped /\ SentinelLast /\ SeenFirst /\ DeliveredNext /\ NothingLost
      /\ CollectionTypeOK /\ ReadersJoined
  BY DEF CollectionInv, CollectionTypeOK
<1>2. ASSUME NEW t \in Tags, ReaderStep(t) PROVE Flow'
  <2>1. cpc' = cpc
    BY <1>1, <1>2, ReaderShape
  <2>2. CASE ReaderSubmits(t)
    <3>1. PICK n \in Nat : Submit(<<t, n>>)
      BY <2>2 DEF ReaderSubmits
    <3> QED
      BY <2>1, <3>1, NoChunkIsSentinel, SubmitFlow
  <2>3. CASE UNCHANGED sinkVars
    <3>1. cpc' = "end" => spc \in {"none", "ended"} \/ notice
      BY <1>1, <2>1 DEF SinkEnds
    <3> QED
      BY <2>1, <2>3, <3>1, QuietFlow
  <2> QED
    BY <1>1, <1>2, <2>2, <2>3, ReaderShape
<1>3. ASSUME NEW t \in Tags, StartReader(t) PROVE Flow'
  BY <1>3, QuietFlow DEF StartReader
<1>4. CASE WaitTerminal \/ RunHook \/ SignalAbort \/ InterruptCollection
  BY <1>4, QuietFlow DEF WaitTerminal, RunHook, SignalAbort, InterruptCollection
<1>5. CASE JoinReaders \/ CloseAcceptance
  BY <1>5, QuietFlow DEF JoinReaders, CloseAcceptance
<1>6. CASE BudgetPasses
  BY <1>1, <1>6, QuietFlow DEF BudgetPasses
<1>7. CASE StartDispatcher
  <2>1. /\ spc = "none" /\ spc' \in {"none", "get"} /\ cpc = "dispatcher" /\ cpc' = "start"
        /\ UNCHANGED <<inHand, queue, sinkFailed, notice, accepting, accepted, seen>>
    BY <1>1, <1>7 DEF StartDispatcher, ReadersJoined
  <2>2. Waiting' = Waiting /\ Handing = 0 /\ Handing' = 0
    BY <2>1 DEF Waiting, Handing
  <2> QED
    BY <1>1, <2>1, <2>2 DEF Flow, SentinelLast, SeenFirst, DeliveredNext, NothingLost, SinkEnds
<1>8. CASE JoinDispatcher
  <2>1. /\ cpc = "join_sink" /\ cpc' = "end"
        /\ UNCHANGED <<spc, inHand, queue, accepting, accepted, seen>>
        /\ \/ spc = "ended" /\ UNCHANGED <<sinkFailed, notice>>
           \/ spc # "ended" /\ sinkFailed' /\ notice'
    BY <1>8 DEF JoinDispatcher, Failing
  <2>2. CASE spc = "ended" /\ UNCHANGED <<sinkFailed, notice>>
    BY <2>1, <2>2, QuietFlow
  <2>3. CASE spc # "ended" /\ sinkFailed' /\ notice'
    BY <1>1, <2>1, <2>3 DEF Flow, SentinelLast, SeenFirst, DeliveredNext, NothingLost, SinkEnds
  <2> QED
    BY <2>1, <2>2, <2>3
<1> QED
  BY <1>2, <1>3, <1>4, <1>5, <1>6, <1>7, <1>8, PutFlow, TakeFlow, CheckFlow, DeliverFlow, AfterFlow, DiscardFlow
     DEF CollectionNext, CoordinatorStep, DispatcherStep

-----------------------------------------------------------------------------
(* Steps: the chunks of each stream.                                       *)

LEMMA ChunksFinite ==
  ASSUME SinkTyped, NEW t \in Tags
  PROVE  IsFiniteSet(ChunksOf(t)) /\ Cardinality(ChunksOf(t)) \in Nat
         /\ ChunksOf(t) \subseteq 1..Len(accepted)
<1>1. DOMAIN accepted = 1..Len(accepted) /\ Len(accepted) \in Nat
  BY DEF SinkTyped
<1>2. IsFiniteSet(1..Len(accepted))
  BY <1>1, FS_Interval
<1>3. ChunksOf(t) \subseteq 1..Len(accepted)
  BY <1>1 DEF ChunksOf
<1> QED
  BY <1>2, <1>3, FS_Subset, FS_CardinalityType

\* The chunks of a stream after the step.
ChunksAfter(t) == ChunksOf(t)'
Accounted(t) == (spc # "none" /\ ~ notice => made[t] = Cardinality(ChunksOf(t)))'

LEMMA SubmitCounted ==
  ASSUME CollectionInv, NEW t \in Tags, ReaderStep(t), ReaderSubmits(t), NEW u \in Tags
  PROVE  Accounted(u)
<1>1. SinkTyped /\ ThreadsTyped /\ AllAccepted
  BY DEF CollectionInv, CollectionTypeOK
<1>2. PICK n \in Nat : /\ Submit(<<t, n>>)
                       /\ n # 0 => n = made[t] + 1 /\ made' = [made EXCEPT ![t] = @ + 1]
                       /\ n = 0 => made' = made
  BY DEF ReaderSubmits
<1>3. SUFFICES ASSUME spc' # "none", ~ notice' PROVE made'[u] = Cardinality(ChunksAfter(u))
  BY DEF Accounted, ChunksAfter
<1>4. Submitted(<<t, n>>) /\ spc' = spc
  BY <1>2, <1>3, SubmitShape DEF SinkElse
<1>5. made[u] = Cardinality(ChunksOf(u))
  BY <1>1, <1>3, <1>4 DEF Submitted, AllAccepted
<1>6. /\ Len(accepted) \in Nat /\ DOMAIN accepted = 1..Len(accepted)
      /\ DOMAIN accepted' = 1..(Len(accepted) + 1) /\ accepted'[Len(accepted) + 1] = <<t, n>>
      /\ \A i \in 1..Len(accepted) : accepted'[i] = accepted[i]
  BY <1>1, <1>4 DEF Submitted, SinkTyped
<1>7. CASE u = t /\ n # 0
  <2>1. ChunksAfter(u) = ChunksOf(u) \cup {Len(accepted) + 1}
    <3>1. ASSUME NEW i PROVE i \in ChunksAfter(u) <=> i \in ChunksOf(u) \cup {Len(accepted) + 1}
      <4>1. CASE i = Len(accepted) + 1
        BY <1>6, <1>7, <4>1 DEF ChunksAfter, ChunksOf
      <4>2. CASE i # Len(accepted) + 1
        <5>1. i \in 1..(Len(accepted) + 1) <=> i \in 1..Len(accepted)
          BY <1>6, <4>2
        <5> QED
          BY <1>6, <4>2, <5>1 DEF ChunksAfter, ChunksOf
      <4> QED
        BY <4>1, <4>2
    <3> QED
      BY <3>1
  <2>2. Len(accepted) + 1 \notin ChunksOf(u)
    BY <1>1, <1>6, ChunksFinite
  <2>3. Cardinality(ChunksAfter(u)) = Cardinality(ChunksOf(u)) + 1
    BY <1>1, <2>1, <2>2, ChunksFinite, FS_AddElement
  <2> QED
    BY <1>1, <1>2, <1>5, <1>7, <2>3 DEF ThreadsTyped
<1>8. CASE ~ (u = t /\ n # 0)
  <2>1. ChunksAfter(u) = ChunksOf(u)
    <3>1. ASSUME NEW i PROVE i \in ChunksAfter(u) <=> i \in ChunksOf(u)
      <4>1. CASE i = Len(accepted) + 1
        BY <1>6, <1>8, <4>1 DEF ChunksAfter, ChunksOf
      <4>2. CASE i # Len(accepted) + 1
        <5>1. i \in 1..(Len(accepted) + 1) <=> i \in 1..Len(accepted)
          BY <1>6, <4>2
        <5> QED
          BY <1>6, <4>2, <5>1 DEF ChunksAfter, ChunksOf
      <4> QED
        BY <4>1, <4>2
    <3> QED
      BY <3>1
  <2>2. made'[u] = made[u]
    BY <1>1, <1>2, <1>8 DEF ThreadsTyped
  <2> QED
    BY <1>5, <2>1, <2>2
<1> QED
  BY <1>7, <1>8

LEMMA CountedStep ==
  ASSUME CollectionInv, CollectionNext
  PROVE  AllAccepted'
<1> USE DEF CollectorGoes, sinkVars, readerVars, unsubmitted
<1>1. AllAccepted /\ CollectionTypeOK /\ SinkEnds /\ ReadersJoined
  BY DEF CollectionInv
<1>2. ASSUME UNCHANGED <<made, accepted>>, spc' = "none" <=> spc = "none", notice => notice'
      PROVE  AllAccepted'
  BY <1>1, <1>2 DEF AllAccepted, ChunksOf
<1>3. ASSUME NEW t \in Tags, ReaderStep(t) PROVE AllAccepted'
  <2>1. CASE ReaderSubmits(t)
    <3>1. \A u \in Tags : Accounted(u)
      BY <1>3, <2>1, SubmitCounted
    <3> QED
      BY <3>1 DEF AllAccepted, Accounted
  <2>2. CASE UNCHANGED <<made, sinkVars>>
    BY <1>2, <2>2
  <2> QED
    BY <1>1, <1>3, <2>1, <2>2, ReaderShape
<1>4. CASE StartDispatcher
  <2>1. /\ \A t \in Tags : made'[t] = 0
        /\ accepted' = <<>>
    BY <1>1, <1>4 DEF StartDispatcher, ReadersJoined
  <2>2. \A t \in Tags : ChunksAfter(t) = {}
    BY <2>1 DEF ChunksAfter, ChunksOf
  <2>3. Cardinality({}) = 0
    BY FS_EmptySet
  <2> QED
    BY <2>1, <2>2, <2>3 DEF AllAccepted, ChunksAfter
<1>5. CASE (\E t \in Tags : StartReader(t)) \/ WaitTerminal \/ RunHook \/ SignalAbort
           \/ InterruptCollection \/ JoinReaders
  BY <1>2, <1>5 DEF StartReader, WaitTerminal, RunHook, SignalAbort, InterruptCollection, JoinReaders
<1>6. CASE CloseAcceptance \/ PutSentinel \/ JoinDispatcher \/ BudgetPasses
  <2>1. UNCHANGED <<made, accepted, spc>> /\ (notice => notice')
    BY <1>6 DEF CloseAcceptance, PutSentinel, JoinDispatcher, BudgetPasses, Failing
  <2> QED
    BY <1>2, <2>1
<1>7. CASE DispatcherStep
  <2>1. UNCHANGED <<made, accepted>> /\ spc # "none" /\ spc' # "none" /\ (notice => notice')
    BY <1>7 DEF DispatcherStep, TakeItem, CheckItem, DeliverChunk, AfterDelivery, DiscardItem, SinkGoes, Failing
  <2> QED
    BY <1>2, <2>1
<1> QED
  BY <1>3, <1>4, <1>5, <1>6, <1>7 DEF CollectionNext, CoordinatorStep

-----------------------------------------------------------------------------
LEMMA CollectionStep == CollectionInv /\ [CollectionNext]_collectionVars => CollectionInv'
<1> SUFFICES ASSUME CollectionInv, [CollectionNext]_collectionVars PROVE CollectionInv'
  OBVIOUS
<1>1. CASE CollectionNext
  BY <1>1, ThreadsTypedStep, SinkTypedStep, AbortStep, ReadersStep, FlowStep, CountedStep
     DEF CollectionInv, CollectionTypeOK, Flow
<1>2. CASE UNCHANGED collectionVars
  <2> USE DEF collectionVars, readerVars, signalVars, sinkVars
  <2>1. CollectionTypeOK' /\ AbortSignalled' /\ ReadersJoined'
    BY <1>2 DEF CollectionInv, CollectionTypeOK, ThreadsTyped, SinkTyped, AbortSignalled, ReadersJoined
  <2>2. SentinelLast' /\ SeenFirst' /\ DeliveredNext' /\ NothingLost' /\ SinkEnds'
    BY <1>2 DEF CollectionInv, SentinelLast, SeenFirst, DeliveredNext, NothingLost, SinkEnds, Waiting, Handing
  <2>3. AllAccepted'
    BY <1>2 DEF CollectionInv, AllAccepted, ChunksOf
  <2> QED
    BY <2>1, <2>2, <2>3 DEF CollectionInv
<1> QED
  BY <1>1, <1>2

LEMMA CollectionInvariant == CollectionSpec => []CollectionInv
<1>1. CollectionInit => CollectionInv
  BY CollectionInitially
<1>2. CollectionInv /\ [CollectionNext]_collectionVars => CollectionInv'
  BY CollectionStep
<1> QED
  BY <1>1, <1>2, PTL DEF CollectionSpec

\* A sequence that another one begins with is a prefix of it.
LEMMA PrefixByIndex ==
  ASSUME NEW S, NEW s \in Seq(S), NEW t \in Seq(S), Len(s) <= Len(t), \A i \in 1..Len(s) : s[i] = t[i]
  PROVE  IsPrefix(s, t) /\ (Len(s) = Len(t) => s = t)
<1>1. SubSeq(s, 1, Len(s)) = SubSeq(t, 1, Len(s))
  OBVIOUS
<1>2. Len(s) = Len(t) => s = t
  OBVIOUS
<1> QED
  BY <1>1, <1>2 DEF IsPrefix

LEMMA CollectionInvGivesAccounted == CollectionInv => OutputAccounted
<1> SUFFICES ASSUME CollectionInv PROVE OutputAccounted
  OBVIOUS
<1>1. SinkTyped /\ SentinelLast /\ SeenFirst /\ NothingLost /\ SinkEnds /\ AllAccepted /\ ReadersJoined
  BY DEF CollectionInv, CollectionTypeOK
<1>2. IsPrefix(seen, accepted) /\ (Len(seen) = Len(accepted) => seen = accepted)
  BY <1>1, PrefixByIndex DEF SinkTyped, SeenFirst
<1>3. ASSUME cpc = "end" PROVE \A t \in Tags : rpc[t] \in {"unstarted", "done"}
  BY <1>1, <1>3 DEF ReadersJoined
<1>4. ASSUME cpc = "end", spc # "none", ~ notice
      PROVE  /\ spc = "ended" /\ seen = accepted
             /\ \A t \in Tags : made[t] = Cardinality({i \in DOMAIN seen : seen[i][1] = t /\ seen[i][2] # 0})
  <2>1. spc = "ended" /\ ~ sinkFailed /\ queue = <<>>
    BY <1>1, <1>4 DEF SinkEnds
  <2>2. Waiting = 0 /\ Handing = 0
    BY <1>1, <2>1, WaitingIs DEF Handing
  <2>3. Len(accepted) = Len(seen)
    <3>1. Len(accepted) = Len(seen) + 0 + 0 /\ Len(seen) \in Nat
      BY <1>1, <2>1, <2>2 DEF NothingLost, SinkTyped
    <3> QED
      BY <3>1
  <2>4. seen = accepted
    BY <1>2, <2>3
  <2> QED
    BY <1>1, <1>4, <2>1, <2>4 DEF AllAccepted, ChunksOf
<1> QED
  BY <1>2, <1>3, <1>4 DEF OutputAccounted

\* Threads, queue, signals and what is accounted stay within their domains.
THEOREM CollectionTypeCorrect == CollectionSpec => []CollectionTypeOK
<1>1. CollectionInv => CollectionTypeOK
  BY DEF CollectionInv
<1> QED
  BY <1>1, CollectionInvariant, PTL

\* For any number of streams and of chunks and any capacity of the queue, and
\* however the readers, the dispatcher, the budgets and the interruptions fall:
\* when a collection ends without a notice, the sink has seen every chunk in
\* order, and what it has seen is always a beginning of what was accepted
\* (SinkDispatcher.submit, _run and finish, collect_streams).
THEOREM OutputIsAccounted == CollectionSpec => []OutputAccounted
<1>1. CollectionInv => OutputAccounted
  BY CollectionInvGivesAccounted
<1> QED
  BY <1>1, CollectionInvariant, PTL

\* A stream that a hook has cut is never finalized as if it had ended by itself:
\* every hook runs after the abort is signalled (collect_streams).
THEOREM CutStreamsAreAborted == CollectionSpec => CutStreamsAborted
<1>1. ASSUME CollectionInv, [CollectionNext]_collectionVars
      PROVE  [\A t \in Tags : forced[t] /\ finalized'[t] = "clean" => finalized[t] = "clean"]_collectionVars
  <2>1. ThreadsTyped /\ AbortSignalled
    BY <1>1 DEF CollectionInv, CollectionTypeOK
  <2>2. ASSUME NEW t \in Tags, NEW u \in Tags, FinishStream(u), forced[t], finalized'[t] = "clean"
        PROVE  finalized[t] = "clean"
    BY <2>1, <2>2 DEF FinishStream, ThreadsTyped, AbortSignalled
  <2>3. CASE UNCHANGED finalized
    BY <2>3
  <2>4. CASE \E u \in Tags : FinishStream(u)
    BY <2>2, <2>4
  <2>5. \/ UNCHANGED finalized
        \/ \E u \in Tags : FinishStream(u)
    <3> USE DEF readerVars, signalVars
    <3>1. ASSUME NEW u \in Tags, ReaderStep(u) PROVE UNCHANGED finalized \/ FinishStream(u)
      BY <3>1 DEF ReaderStep, ReadChunk, ReadEnd, ReadRaises, SignalFailure, NoteDone
    <3>2. CASE CoordinatorStep \/ InterruptCollection \/ BudgetPasses
      BY <3>2 DEF CoordinatorStep, StartDispatcher, StartReader, WaitTerminal, RunHook, SignalAbort,
         JoinReaders, CloseAcceptance, PutSentinel, JoinDispatcher, InterruptCollection, BudgetPasses
    <3>3. CASE DispatcherStep
      BY <3>3 DEF DispatcherStep, TakeItem, CheckItem, DeliverChunk, AfterDelivery, DiscardItem, unsubmitted
    <3> QED
      BY <1>1, <3>1, <3>2, <3>3 DEF CollectionNext, collectionVars
  <2> QED
    BY <2>3, <2>4, <2>5
<1> QED
  BY <1>1, CollectionInvariant, PTL DEF CutStreamsAborted, CollectionSpec
=============================================================================
