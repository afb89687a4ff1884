------------------------ MODULE PresentationMailbox ------------------------
(***************************************************************************)
(* The one inbox of the presentation worker: versioning/host_presentation, *)
(* class PresentationMailbox.  Two lanes share one queue, each with its    *)
(* own capacity.  Control events (phases, steps, the final report) are     *)
(* never dropped: a full control lane stops the presentation instead.      *)
(* Telemetry is dropped when its lane is full, and a dropped diagnostic is *)
(* remembered so that an omission notice can be shown where it belongs.    *)
(*                                                                         *)
(* Every operation runs under one lock, so each is one operator here.  The *)
(* two lane counters of the code are the numbers of queued events of the   *)
(* lanes: the code changes counter and queue together.                     *)
(***************************************************************************)
EXTENDS Integers, Sequences, FiniteSets

CONSTANTS Streams,            \* stdout, stderr
          Texts,              \* what a complete line can say
          TelemetryCapacity,  \* TELEMETRY_CAPACITY
          ControlCapacity,    \* CONTROL_CAPACITY
          OmissionLimit       \* OMISSION_COUNTER_LIMIT

ASSUME MailboxAssumption ==
  /\ TelemetryCapacity \in Nat \ {0}
  /\ ControlCapacity \in Nat \ {0}
  /\ OmissionLimit \in Nat \ {0}

VARIABLES
  queue,      \* _queue: the admitted events, oldest first
  sequence,   \* _sequence: the number of the next admission
  closed,     \* _closed
  aborted,    \* _aborted, also read as emergency_signalled, admission_failed
  cancelled,  \* the cancellation event shared with the renderer
  omissions,  \* _omissions: [count, uncertain, boundary], boundary -1 is None
  parked,     \* the worker waits on the condition in take
  dropped     \* history: diagnostics dropped because the lane was full

mailbox == <<queue, sequence, closed, aborted, cancelled, omissions, parked, dropped>>

NoStream == "-"
NoText == "-"
ControlKinds == {"step", "phase", "ended", "report"}   \* step and phase: STARTED
\* The step is that of the phase and step an event of a stream belongs to.
\* A boundary is the finalized prefix that ends an oversized line.
TelemetryKinds == {"prefix", "boundary", "diagnostic", "status"}

Events == [kind : ControlKinds \cup TelemetryKinds, stream : Streams \cup {NoStream}, step : Nat,
           line : Nat, text : Texts \cup {NoText}, over : BOOLEAN]
Admitted(event, seq) == [event |-> event, seq |-> seq]

Event(kind) == [kind |-> kind, stream |-> NoStream, step |-> 0, line |-> 0, text |-> NoText, over |-> FALSE]

Control(event) == event.kind \in ControlKinds
NoOmissions == [count |-> 0, uncertain |-> FALSE, boundary |-> -1]

QueuedInLane(isControl) == {i \in DOMAIN queue : Control(queue[i].event) = isControl}
LaneFull(event) ==
  Cardinality(QueuedInLane(Control(event)))
     >= (IF Control(event) THEN ControlCapacity ELSE TelemetryCapacity)

\* _prefix_supersede_key: the queued prefixes a new one of the stream in its step
\* replaces.
Replaceable(event) ==
  {i \in DOMAIN queue : /\ event.kind = "prefix"
                        /\ queue[i].event.kind = "prefix"
                        /\ queue[i].event.stream = event.stream
                        /\ queue[i].event.step = event.step}

MailboxInit ==
  /\ queue = <<>> /\ sequence = 0
  /\ closed = FALSE /\ aborted = FALSE /\ cancelled = FALSE
  /\ omissions = NoOmissions
  /\ parked = FALSE
  /\ dropped = 0

----------------------------------------------------------------------------
(* What a producer's admission does.                                       *)

Reject == closed /\ UNCHANGED mailbox

Enqueue(event) ==
  /\ ~closed /\ ~LaneFull(event) /\ Replaceable(event) = {}
  /\ queue' = Append(queue, Admitted(event, sequence))
  /\ sequence' = sequence + 1
  /\ parked' = FALSE
  /\ UNCHANGED <<closed, aborted, cancelled, omissions, dropped>>

\* A possible bug: the superseding prefix is numbered anew at its old place.
SupersedeRenumbered(event) ==
  /\ ~closed
  /\ \E i \in Replaceable(event) :
        /\ \A j \in Replaceable(event) : i <= j
        /\ queue' = [queue EXCEPT ![i] = Admitted(event, sequence)]
  /\ sequence' = sequence + 1
  /\ parked' = FALSE
  /\ UNCHANGED <<closed, aborted, cancelled, omissions, dropped>>

\* A newer prefix of an unfinished line takes the place, and the number, of
\* the one that is still queued.
Supersede(event) ==
  /\ ~closed
  /\ \E i \in Replaceable(event) :
        /\ \A j \in Replaceable(event) : i <= j
        /\ queue' = [queue EXCEPT ![i].event = event]
  /\ parked' = FALSE
  /\ UNCHANGED <<sequence, closed, aborted, cancelled, omissions, dropped>>

\* A possible bug: the counter does not saturate.
CountOn ==
  [count |-> omissions.count + 1,
   uncertain |-> omissions.uncertain,
   boundary |-> IF omissions.boundary = -1 THEN sequence ELSE omissions.boundary]

\* A possible bug: a saturated counter is taken for an exact one.
ForgetUncertainty ==
  [count |-> IF omissions.count < OmissionLimit THEN omissions.count + 1 ELSE omissions.count,
   uncertain |-> FALSE,
   boundary |-> IF omissions.boundary = -1 THEN sequence ELSE omissions.boundary]

\* _record_omission_locked
OneMoreOmission ==
  [count |-> IF omissions.count < OmissionLimit THEN omissions.count + 1 ELSE omissions.count,
   uncertain |-> omissions.uncertain \/ omissions.count >= OmissionLimit,
   boundary |-> IF omissions.boundary = -1 THEN sequence ELSE omissions.boundary]

DropTelemetry(event) ==
  /\ ~closed /\ ~Control(event) /\ LaneFull(event) /\ Replaceable(event) = {}
  /\ IF event.kind = "diagnostic"
     THEN omissions' = OneMoreOmission /\ dropped' = dropped + 1
     ELSE UNCHANGED <<omissions, dropped>>
  /\ UNCHANGED <<queue, sequence, closed, aborted, cancelled, parked>>

\* signal_emergency, and the overflow of the control lane in admit_control.
SignalEmergency ==
  /\ aborted' = TRUE /\ closed' = TRUE /\ cancelled' = TRUE
  /\ parked' = FALSE
  /\ UNCHANGED <<queue, sequence, omissions, dropped>>

OverflowControl(event) == ~closed /\ Control(event) /\ LaneFull(event) /\ SignalEmergency

Admit(event) ==
  \/ Reject
  \/ Enqueue(event)
  \/ Supersede(event)
  \/ DropTelemetry(event)
  \/ OverflowControl(event)

----------------------------------------------------------------------------
(* What the worker and the session do.                                     *)

\* A possible bug: close does not wake the worker.
CloseSilently ==
  /\ closed' = TRUE
  /\ UNCHANGED <<queue, sequence, aborted, cancelled, omissions, parked, dropped>>

Close ==
  /\ closed' = TRUE
  /\ parked' = FALSE
  /\ UNCHANGED <<queue, sequence, aborted, cancelled, omissions, dropped>>

\* A possible bug: control events overtake telemetry.
PopControlFirst ==
  /\ ~aborted /\ queue # <<>>
  /\ \E i \in DOMAIN queue :
        /\ \/ QueuedInLane(TRUE) = {} /\ i = 1
           \/ i \in QueuedInLane(TRUE) /\ \A j \in QueuedInLane(TRUE) : i <= j
        /\ queue' = SubSeq(queue, 1, i - 1) \o SubSeq(queue, i + 1, Len(queue))
  /\ UNCHANGED <<sequence, closed, aborted, cancelled, omissions, parked, dropped>>

PopOldest ==
  /\ ~aborted /\ queue # <<>>
  /\ queue' = Tail(queue)
  /\ UNCHANGED <<sequence, closed, aborted, cancelled, omissions, parked, dropped>>

Park ==
  /\ queue = <<>> /\ ~closed /\ ~parked
  /\ parked' = TRUE
  /\ UNCHANGED <<queue, sequence, closed, aborted, cancelled, omissions, dropped>>

Drain ==
  /\ queue' = <<>>
  /\ UNCHANGED <<sequence, closed, aborted, cancelled, omissions, parked, dropped>>

\* take_omission_notice: due for the event numbered seq; -1 asks regardless.
NoticeDue(seq) ==
  /\ omissions.count > 0
  /\ seq = -1 \/ omissions.boundary = -1 \/ seq >= omissions.boundary
TakeNotice(seq) ==
  /\ omissions' = IF NoticeDue(seq) THEN NoOmissions ELSE omissions
  /\ UNCHANGED <<queue, sequence, closed, aborted, cancelled, parked, dropped>>

----------------------------------------------------------------------------
MailboxTypeOK ==
  /\ queue \in Seq([event : Events, seq : Nat])
  /\ sequence \in Nat
  /\ closed \in BOOLEAN /\ aborted \in BOOLEAN /\ cancelled \in BOOLEAN /\ parked \in BOOLEAN
  /\ omissions \in [count : 0..OmissionLimit, uncertain : BOOLEAN, boundary : Nat \cup {-1}]
  /\ dropped \in Nat
=============================================================================
