----------------------- MODULE HostPresentationProofs -----------------------
(***************************************************************************)
(* Proofs about the presentation session, for any streams, texts, lane     *)
(* capacities and numbers of events, and for all three modes.              *)
(***************************************************************************)
EXTENDS HostPresentation, SequenceTheorems, FiniteSetTheorems, TLAPS

EntryKinds == {"transient", "line", "part", "control", "notice", "at_least", "summary"}
Entries == [kind : EntryKinds, stream : Streams \cup {NoStream}, line : Nat,
            count : Nat, seq : Int]
Items == [event : Events, seq : Int]
Groups == [stream : Streams \cup {NoStream}, step : Nat, text : Texts \cup {NoText}, line : Nat,
           count : Nat, seq : Int]
Admissions == [event : Events, seq : Nat]
Shown == [seq : Int, line : [Streams -> Nat], count : Int, told : Nat, vague : BOOLEAN]
Omissions == [count : 0..OmissionLimit, uncertain : BOOLEAN, boundary : Nat \cup {-1}]

\* The types of what the worker holds, beside TypeOK.
WorkerTypes ==
  /\ item \in Items /\ group \in Groups /\ calls \in Seq(Entries)
  /\ after \in {"top", "take", "stop"}
  /\ shown \in Shown
  /\ controls \in Nat /\ statuses \in Nat

Types == TypeOK /\ WorkerTypes

----------------------------------------------------------------------------
(* Types of the mailbox.                                                   *)

LEMMA TypesInit == Init => Types
<1> SUFFICES ASSUME Init PROVE Types
  OBVIOUS
<1>1. MailboxTypeOK
  <2>1. NoOmissions \in Omissions
    BY MailboxAssumption DEF NoOmissions, Omissions
  <2>2. /\ closed \in BOOLEAN /\ aborted \in BOOLEAN /\ cancelled \in BOOLEAN
        /\ parked \in BOOLEAN
    BY Zenon DEF Init, MailboxInit
  <2> QED
    BY <2>1, <2>2 DEF Init, MailboxInit, MailboxTypeOK, Omissions
<1>2. NoItem \in Items /\ NoGroup \in Groups
  BY DEF NoItem, NoGroup, Items, Groups, Events, Event, ControlKinds, TelemetryKinds
<1>3. WorkerTypes
  BY <1>2 DEF Init, WorkerTypes, Shown, NoLines
<1>4. NoGroup.count \in Nat /\ NoLines \in [Streams -> Nat]
  BY DEF NoGroup, NoLines
<1> QED
  BY <1>1, <1>3, <1>4 DEF Types, TypeOK, Init

LEMMA TypesEnqueue ==
  ASSUME MailboxTypeOK, NEW event \in Events, Enqueue(event)
  PROVE  MailboxTypeOK'
<1>1. Admitted(event, sequence) \in Admissions
  BY DEF Admitted, MailboxTypeOK, Admissions
<1>2. queue \in Seq(Admissions)
  BY DEF MailboxTypeOK, Admissions
<1>3. queue' \in Seq(Admissions)
  BY <1>1, <1>2 DEF Enqueue
<1>4. /\ closed' \in BOOLEAN /\ aborted' \in BOOLEAN /\ cancelled' \in BOOLEAN
      /\ parked' \in BOOLEAN
  BY Zenon DEF Enqueue, MailboxTypeOK
<1> QED
  BY <1>3, <1>4 DEF Enqueue, MailboxTypeOK, Admissions

LEMMA TypesSupersede ==
  ASSUME MailboxTypeOK, NEW event \in Events, Supersede(event)
  PROVE  MailboxTypeOK'
<1>1. queue \in Seq(Admissions)
  BY DEF MailboxTypeOK, Admissions
<1>2. PICK i \in DOMAIN queue : queue' = [queue EXCEPT ![i].event = event]
  BY DEF Supersede, Replaceable
<1>3. queue[i] \in Admissions
  BY <1>1, <1>2
<1>4. [queue[i] EXCEPT !.event = event] \in Admissions
  BY <1>3 DEF Admissions
<1>5. queue' = [queue EXCEPT ![i] = [queue[i] EXCEPT !.event = event]]
  BY <1>2
<1>6. queue' \in Seq(Admissions)
  BY <1>1, <1>2, <1>4, <1>5
<1> QED
  BY <1>6 DEF Supersede, MailboxTypeOK, Admissions

LEMMA TypesDrop ==
  ASSUME MailboxTypeOK, NEW event \in Events, DropTelemetry(event)
  PROVE  MailboxTypeOK'
<1>1. OneMoreOmission \in Omissions
  BY MailboxAssumption DEF OneMoreOmission, Omissions, MailboxTypeOK
<1> QED
  BY <1>1 DEF DropTelemetry, MailboxTypeOK, Omissions

LEMMA TypesAdmit ==
  ASSUME MailboxTypeOK, NEW event \in Events, Admit(event)
  PROVE  MailboxTypeOK'
<1>1. CASE Reject
  BY <1>1 DEF Reject, MailboxTypeOK, mailbox
<1>2. CASE OverflowControl(event)
  BY <1>2 DEF OverflowControl, SignalEmergency, MailboxTypeOK
<1> QED
  BY <1>1, <1>2, TypesEnqueue, TypesSupersede, TypesDrop DEF Admit

----------------------------------------------------------------------------
(* Types of the display.                                                   *)

LEMMA EntriesTyped ==
  ASSUME Types, NEW it \in Items
  PROVE  /\ Transient \in Entries /\ LineEntry(it) \in Entries
         /\ PartEntry(it) \in Entries /\ ControlEntry(it) \in Entries
         /\ GroupCalls \in Seq(Entries) /\ Notice(it) \in Seq(Entries)
         /\ NoticeEntry \in Entries
<1>1. it.event \in Events /\ it.seq \in Int
  BY DEF Items
<1>2. /\ it.event.stream \in Streams \cup {NoStream} /\ it.event.line \in Nat
      /\ it.event.text \in Texts \cup {NoText}
  BY <1>1 DEF Events
<1>3. /\ Transient \in Entries /\ LineEntry(it) \in Entries
      /\ PartEntry(it) \in Entries /\ ControlEntry(it) \in Entries
  BY <1>1, <1>2 DEF Transient, LineEntry, PartEntry, ControlEntry, Entry, Entries, EntryKinds
<1>4. GroupEntry \in Entries
  BY DEF Types, WorkerTypes, Groups, GroupEntry, Entry, Entries, EntryKinds
<1>5. omissions.count \in Nat
  BY MailboxAssumption DEF Types, TypeOK, MailboxTypeOK
<1>6. NoticeEntry \in Entries
  BY <1>5 DEF NoticeEntry, Entry, Entries, EntryKinds
<1>7. GroupCalls \in Seq(Entries)
  BY <1>4 DEF GroupCalls
<1>8. Notice(it) \in Seq(Entries)
  BY <1>6 DEF Notice
<1> QED
  BY <1>3, <1>6, <1>7, <1>8

LEMMA ConcatTyped ==
  ASSUME NEW a \in Seq(Entries), NEW b \in Seq(Entries)
  PROVE  a \o b \in Seq(Entries)
BY ConcatProperties

LEMMA OneTyped ==
  ASSUME NEW e \in Entries PROVE <<e>> \in Seq(Entries)
OBVIOUS

DisplayTypes ==
  /\ group \in Groups /\ calls \in Seq(Entries)
  /\ provisional \in [Streams -> Nat] /\ overShown \subseteq Streams \cup {NoStream}
  /\ deadline \in {"none", "running", "due"}
  /\ replaced \in Nat

LEMMA TypesOfDisplay == Types => DisplayTypes
BY DEF Types, TypeOK, WorkerTypes, DisplayTypes

\* What shows an item keeps the types of the display.
LEMMA TypesShow ==
  ASSUME Types, NEW it \in Items, Show(it)
  PROVE  DisplayTypes'
<1> USE TypesOfDisplay
<1>b. /\ <<>> \in Seq(Entries) /\ <<Transient>> \in Seq(Entries)
      /\ <<LineEntry(it)>> \in Seq(Entries) /\ <<PartEntry(it)>> \in Seq(Entries)
      /\ <<ControlEntry(it)>> \in Seq(Entries)
      /\ <<Transient, ControlEntry(it)>> \in Seq(Entries)
      /\ GroupCalls \in Seq(Entries) /\ Notice(it) \in Seq(Entries)
  BY EntriesTyped
<1>c. /\ GroupCalls \o <<PartEntry(it)>> \in Seq(Entries)
      /\ GroupCalls \o <<ControlEntry(it)>> \in Seq(Entries)
      /\ GroupCalls \o Notice(it) \in Seq(Entries)
      /\ GroupCalls \o Notice(it) \o <<LineEntry(it)>> \in Seq(Entries)
      /\ GroupCalls \o Notice(it) \o <<Transient>> \in Seq(Entries)
      /\ GroupCalls \o Notice(it) \o <<Transient, ControlEntry(it)>> \in Seq(Entries)
      /\ <<>> \o <<Transient>> \in Seq(Entries) /\ <<>> \o <<LineEntry(it)>> \in Seq(Entries)
      /\ <<>> \o <<>> \in Seq(Entries) /\ GroupCalls \o Notice(it) \o <<>> \in Seq(Entries)
      /\ GroupCalls \o <<Transient>> \in Seq(Entries) /\ GroupCalls \o <<>> \in Seq(Entries)
      /\ <<>> \o <<ControlEntry(it)>> \in Seq(Entries)
  BY <1>b, ConcatTyped
<1> HIDE DEF Entries
<1>0. /\ it.event.stream \in Streams \cup {NoStream} /\ it.event.line \in Nat /\ it.event.step \in Nat
      /\ it.event.text \in Texts \cup {NoText} /\ it.seq \in Int
      /\ it.event.kind \in ControlKinds \cup TelemetryKinds
  BY DEF Items, Events
<1>a. NoGroup \in Groups /\ NoLines \in [Streams -> Nat]
  BY DEF NoGroup, Groups, NoLines
<1>1. CASE ShowPrefix(it)
  <2>1. calls' \in Seq(Entries)
    BY <1>1, <1>b, <1>c DEF ShowPrefix
  <2>2. group' \in Groups /\ deadline' \in {"none", "running", "due"} /\ replaced' \in Nat
    BY <1>1, <1>a DEF ShowPrefix, CloseGroup, DisplayTypes, display
  <2>3. /\ provisional' \in [Streams -> Nat]
        /\ overShown' \subseteq Streams \cup {NoStream}
    BY <1>1, <1>0 DEF ShowPrefix, DisplayTypes, display
  <2> QED
    BY <2>1, <2>2, <2>3 DEF DisplayTypes
<1>2. CASE ShowBoundary(it)
  <2>1. calls' \in Seq(Entries)
    BY <1>2, <1>b, <1>c DEF ShowBoundary
  <2>2. group' \in Groups /\ deadline' \in {"none", "running", "due"} /\ replaced' \in Nat
    BY <1>2, <1>a DEF ShowBoundary, CloseGroup, DisplayTypes, display
  <2>3. /\ provisional' \in [Streams -> Nat]
        /\ overShown' \subseteq Streams \cup {NoStream}
    BY <1>2 DEF ShowBoundary, DisplayTypes, display
  <2> QED
    BY <2>1, <2>2, <2>3 DEF DisplayTypes
<1>3. CASE ShowDiagnostic(it)
  <2>1. calls' \in Seq(Entries)
    BY <1>3, <1>b, <1>c DEF ShowDiagnostic
  <2>2. NewGroup(it) \in Groups /\ [group EXCEPT !.count = @ + 1] \in Groups
    <3>1. NewGroup(it) \in Groups
      BY <1>0 DEF NewGroup, Groups
    <3>2. group \in Groups
      BY DEF DisplayTypes
    <3>3. [group EXCEPT !.count = @ + 1] \in Groups
      BY <3>2 DEF Groups
    <3> QED
      BY <3>1, <3>3
  <2>3. group' \in Groups
    BY <1>3, <1>a, <2>2 DEF ShowDiagnostic, CloseGroup
  <2>4. deadline' \in {"none", "running", "due"}
    BY <1>3 DEF ShowDiagnostic, CloseGroup, DisplayTypes
  <2>5. group.count \in Nat
    BY DEF DisplayTypes, Groups
  <2>6. /\ provisional' \in [Streams -> Nat]
        /\ overShown' \subseteq Streams \cup {NoStream} /\ replaced' \in Nat
    <3>1. replaced' \in Nat
      BY <1>3, <2>5 DEF ShowDiagnostic, DisplayTypes
    <3> QED
      BY <1>3, <3>1 DEF ShowDiagnostic, Forget, DisplayTypes
  <2> QED
    BY <2>1, <2>3, <2>4, <2>6 DEF DisplayTypes
<1>4. CASE ShowStatus(it)
  BY <1>4, <1>b, PresentationAssumption DEF ShowStatus, DisplayTypes, display
<1>5. CASE ShowStarted(it)
  <2>1. calls' \in Seq(Entries)
    BY <1>5, <1>b, <1>c, PresentationAssumption DEF ShowStarted
  <2> QED
    BY <1>5, <1>a, <2>1 DEF ShowStarted, CloseGroup, ForgetAll, DisplayTypes
<1>6. CASE ShowEnded(it)
  BY <1>6, <1>a, <1>c DEF ShowEnded, CloseGroup, ForgetAll, DisplayTypes
<1>7. CASE ShowReport(it)
  BY <1>7, <1>a, <1>c DEF ShowReport, CloseGroup, DisplayTypes
<1> QED
  BY <1>0, <1>1, <1>2, <1>3, <1>4, <1>5, <1>6, <1>7 DEF Show, ControlKinds, TelemetryKinds

----------------------------------------------------------------------------
(* Types of a step.                                                        *)

\* What a step leaves alone when it only works on the mailbox and the display.
OtherTypes ==
  /\ admitted \in Nat /\ lineNo \in [Streams -> Nat] /\ parts \in [Streams -> Nat]
  /\ over \in [Streams -> BOOLEAN] /\ step \in [Streams -> Nat] /\ controls \in Nat /\ statuses \in Nat
PlaceTypes ==
  /\ wpc \in {"top", "take", "parked", "recheck", "render", "stop", "stopped"}
  /\ spc \in {"open", "reported", "waiting", "cancelling", "signalling", "done"}
  /\ verdict \in {"none", "healthy", "unhealthy"}
  /\ after \in {"top", "take", "stop"}
  /\ failed \in BOOLEAN
  /\ item \in Items /\ shown \in Shown

LEMMA TypesSplit ==
  Types <=> MailboxTypeOK /\ DisplayTypes /\ OtherTypes /\ PlaceTypes
<1>1. group \in Groups => group.count \in Nat
  BY DEF Groups
<1> QED
  BY <1>1 DEF Types, TypeOK, WorkerTypes, DisplayTypes, OtherTypes, PlaceTypes

LEMMA TypesJoin ==
  MailboxTypeOK' /\ DisplayTypes' /\ OtherTypes' /\ PlaceTypes' => Types'
<1>1. group' \in Groups => group.count' \in Nat
  BY DEF Groups
<1> QED
  BY <1>1 DEF Types, TypeOK, WorkerTypes, DisplayTypes, OtherTypes, PlaceTypes

LEMMA WrittenTyped ==
  ASSUME NEW e \in Entries, shown \in Shown
  PROVE  Written(e) \in Shown
<1>1. e.seq \in Int /\ e.line \in Nat /\ e.count \in Nat
  BY DEF Entries
<1>2. [shown.line EXCEPT ![e.stream] = e.line] \in [Streams -> Nat]
  BY <1>1 DEF Shown
<1>4. /\ shown.seq \in Int /\ shown.line \in [Streams -> Nat] /\ shown.count \in Int
      /\ shown.told \in Nat /\ shown.vague \in BOOLEAN
  BY DEF Shown
<1>5. shown.count + Counted(e) \in Int
  BY <1>1, <1>4 DEF Counted
<1>6. shown.told + (IF e.kind \in {"notice", "at_least"} THEN e.count ELSE 0) \in Nat
  <2>1. \A x, y \in Nat : x + y \in Nat
    OBVIOUS
  <2>2. (IF e.kind \in {"notice", "at_least"} THEN e.count ELSE 0) \in Nat
    BY <1>1
  <2> QED
    BY <1>4, <2>1, <2>2
<1> DEFINE cnt == shown.count + Counted(e)
           tld == shown.told + (IF e.kind \in {"notice", "at_least"} THEN e.count ELSE 0)
           sq == IF e.kind \in InOrder THEN e.seq ELSE shown.seq
           ln == IF e.kind \in {"line", "part"}
                 THEN [shown.line EXCEPT ![e.stream] = e.line] ELSE shown.line
           vg == IF e.kind = "at_least" THEN TRUE ELSE shown.vague
<1>7. cnt \in Int /\ tld \in Nat
  BY <1>5, <1>6
<1>8. sq \in Int
  BY <1>1, <1>4
<1>9. ln \in [Streams -> Nat]
  BY <1>2, <1>4
<1>10. vg \in BOOLEAN
  BY <1>4
<1>11. Written(e) = [seq |-> sq, line |-> ln, count |-> cnt, told |-> tld, vague |-> vg]
  BY DEF Written
<1> HIDE DEF cnt, tld, sq, ln, vg
<1> QED
  BY <1>7, <1>8, <1>9, <1>10, <1>11 DEF Shown

LEMMA TypesWorker ==
  ASSUME Types, WorkerStep
  PROVE  Types'
<1> USE TypesSplit, TypesJoin DEF Idle
<1>n. NoItem \in Items /\ NoGroup \in Groups /\ NoLines \in [Streams -> Nat]
  BY DEF NoItem, NoGroup, Items, Groups, NoLines, Events, Event, ControlKinds, TelemetryKinds
<1>e. /\ <<>> \in Seq(Entries) /\ <<Transient>> \in Seq(Entries)
      /\ <<NoticeEntry>> \in Seq(Entries) /\ GroupCalls \in Seq(Entries)
  BY EntriesTyped, <1>n
<1>o. OtherTypes'
  <2>1. UNCHANGED producers
    BY DEF WorkerStep, StopOnEmergency, Due, Take, Wake, CloseOut, Dispatch, Render,
           RenderFails, WorkerStops
  <2> QED
    BY <2>1 DEF OtherTypes, producers
<1>1. CASE StopOnEmergency
  <2>1. MailboxTypeOK'
    BY <1>1 DEF StopOnEmergency, Drain, MailboxTypeOK
  <2>2. DisplayTypes'
    BY <1>1, <1>n, <1>e DEF StopOnEmergency, DisplayTypes, ForgetAll
  <2>3. PlaceTypes'
    BY <1>1 DEF StopOnEmergency, PlaceTypes, session
  <2> QED
    BY <1>o, <2>1, <2>2, <2>3
<1>2. CASE Due
  <2>1. MailboxTypeOK'
    BY <1>2 DEF Due, mailbox, MailboxTypeOK
  <2>2. DisplayTypes'
    BY <1>2, <1>n, <1>e DEF Due, DisplayTypes, CloseGroup
  <2>3. PlaceTypes'
    BY <1>2 DEF Due, PlaceTypes, session
  <2> QED
    BY <1>o, <2>1, <2>2, <2>3
<1>3. CASE Take
  <2>0. queue \in Seq(Admissions) /\ (queue # <<>> => Head(queue) \in Admissions)
    <3>1. queue \in Seq(Admissions)
      BY DEF MailboxTypeOK, Admissions
    <3> QED
      BY <3>1
  <2>1. MailboxTypeOK'
    <3>1. queue # <<>> => Tail(queue) \in Seq(Admissions)
      BY <2>0
    <3>2. /\ closed' \in BOOLEAN /\ aborted' \in BOOLEAN /\ cancelled' \in BOOLEAN
          /\ parked' \in BOOLEAN
      BY <1>3 DEF Take, PopOldest, Park, mailbox, MailboxTypeOK
    <3>3. queue' \in Seq(Admissions)
      BY <1>3, <2>0, <3>1 DEF Take, PopOldest, Park, mailbox
    <3> QED
      BY <1>3, <3>2, <3>3 DEF Take, PopOldest, Park, mailbox, MailboxTypeOK, Admissions
  <2>2. DisplayTypes'
    BY <1>3 DEF Take, DisplayTypes, display
  <2>3. Head(queue) \in Admissions => Head(queue) \in Items
    BY DEF Admissions, Items
  <2>4. item' \in Items
    BY <1>3, <1>n, <2>0, <2>3 DEF Take, PopOldest, Park, PlaceTypes
  <2>5. PlaceTypes'
    BY <1>3, <2>4 DEF Take, PlaceTypes, session
  <2> QED
    BY <1>o, <2>1, <2>2, <2>5
<1>4. CASE Wake
  <2>1. MailboxTypeOK'
    BY <1>4 DEF Wake, MailboxTypeOK
  <2> QED
    BY <1>o, <1>4, <2>1 DEF Wake, DisplayTypes, PlaceTypes, display, session
<1>5. CASE CloseOut
  <2>1. MailboxTypeOK'
    <3>1. NoOmissions \in Omissions
      BY MailboxAssumption DEF NoOmissions, Omissions
    <3>2. omissions' \in Omissions
      BY <1>5, <3>1 DEF CloseOut, TakeNotice, mailbox, MailboxTypeOK, Omissions
    <3> QED
      BY <1>5, <3>2 DEF CloseOut, TakeNotice, mailbox, MailboxTypeOK, Omissions
  <2>2. DisplayTypes'
    <3>1. /\ GroupCalls \o <<>> \o <<Transient>> \in Seq(Entries)
          /\ GroupCalls \o <<NoticeEntry>> \o <<Transient>> \in Seq(Entries)
      BY <1>e, ConcatTyped
    <3>2. calls' \in Seq(Entries)
      BY <1>5, <3>1 DEF CloseOut, DisplayTypes
    <3> QED
      BY <1>5, <1>n, <3>2 DEF CloseOut, DisplayTypes, display, CloseGroup, ForgetAll
  <2>3. PlaceTypes'
    BY <1>5 DEF CloseOut, PlaceTypes, session
  <2> QED
    BY <1>o, <2>1, <2>2, <2>3
<1>6. CASE Dispatch
  <2>1. MailboxTypeOK'
    <3>1. NoOmissions \in Omissions
      BY MailboxAssumption DEF NoOmissions, Omissions
    <3>2. omissions' \in Omissions
      BY <1>6, <3>1 DEF Dispatch, TakeNotice, mailbox, MailboxTypeOK, Omissions
    <3> QED
      BY <1>6, <3>2 DEF Dispatch, TakeNotice, mailbox, MailboxTypeOK, Omissions
  <2>2. DisplayTypes'
    BY <1>6, TypesShow DEF Dispatch, PlaceTypes
  <2>3. PlaceTypes'
    BY <1>6, <1>n DEF Dispatch, PlaceTypes, session
  <2> QED
    BY <1>o, <2>1, <2>2, <2>3
<1>7. CASE Render
  <2>0. calls # <<>> => Head(calls) \in Entries /\ Tail(calls) \in Seq(Entries)
    BY DEF DisplayTypes
  <2>1. MailboxTypeOK'
    BY <1>7 DEF Render, mailbox, MailboxTypeOK
  <2>2. DisplayTypes'
    BY <1>7, <1>e, <2>0 DEF Render, DisplayTypes, display
  <2>3. calls # <<>> => Written(Head(calls)) \in Shown
    BY <2>0, WrittenTyped DEF PlaceTypes
  <2>4. PlaceTypes'
    BY <1>7, <2>3 DEF Render, PlaceTypes, session
  <2> QED
    BY <1>o, <2>1, <2>2, <2>4
<1>8. CASE RenderFails
  <2>1. MailboxTypeOK'
    BY <1>8 DEF RenderFails, mailbox, MailboxTypeOK
  <2>2. DisplayTypes'
    BY <1>8, <1>n DEF RenderFails, DisplayTypes, CloseGroup, ForgetAll
  <2>3. PlaceTypes'
    BY <1>8 DEF RenderFails, PlaceTypes, session
  <2> QED
    BY <1>o, <2>1, <2>2, <2>3
<1>9. CASE WorkerStops
  <2>1. MailboxTypeOK'
    BY <1>9 DEF WorkerStops, mailbox, MailboxTypeOK
  <2> QED
    BY <1>o, <1>9, <2>1 DEF WorkerStops, DisplayTypes, PlaceTypes, display, session
<1> QED
  BY <1>1, <1>2, <1>3, <1>4, <1>5, <1>6, <1>7, <1>8, <1>9 DEF WorkerStep

EventKinds == ControlKinds \cup TelemetryKinds

LEMMA EventTyped ==
  ASSUME NEW kind \in EventKinds PROVE Event(kind) \in Events
BY DEF Event, Events, EventKinds, NoStream, NoText

LEMMA TypesSession ==
  ASSUME Types, SessionStep
  PROVE  Types'
<1> USE TypesSplit, TypesJoin DEF Facade
<1>n. NoLines \in [Streams -> Nat]
  BY DEF NoLines
<1>o. OtherTypes'
  <2>1. UNCHANGED producers
    BY DEF SessionStep, SubmitFinalReport, Shutdown, Judge, Expire, CancelDisplay, Signal
  <2> QED
    BY <2>1 DEF OtherTypes, producers
<1>1. CASE SubmitFinalReport
  <2>1. MailboxTypeOK'
    <3>1. Event("report") \in Events
      BY EventTyped DEF EventKinds, ControlKinds
    <3> QED
      BY <1>1, <3>1, TypesAdmit DEF SubmitFinalReport
  <2> QED
    BY <1>o, <1>1, <2>1 DEF SubmitFinalReport, DisplayTypes, PlaceTypes, display, worker
<1>2. CASE Shutdown
  <2>1. MailboxTypeOK'
    BY <1>2 DEF Shutdown, Close, MailboxTypeOK
  <2> QED
    BY <1>o, <1>2, <2>1 DEF Shutdown, DisplayTypes, PlaceTypes, display, worker
<1>3. CASE Judge \/ Expire
  <2>1. MailboxTypeOK'
    BY <1>3 DEF Judge, Expire, mailbox, MailboxTypeOK
  <2> QED
    BY <1>o, <1>3, <2>1 DEF Judge, Expire, DisplayTypes, PlaceTypes, display, worker
<1>4. CASE CancelDisplay
  <2>1. MailboxTypeOK'
    BY <1>4 DEF CancelDisplay, mailbox, MailboxTypeOK
  <2>2. DisplayTypes'
    BY <1>4, <1>n DEF CancelDisplay, DisplayTypes, ForgetAll, worker
  <2> QED
    BY <1>o, <1>4, <2>1, <2>2 DEF CancelDisplay, PlaceTypes, worker
<1>5. CASE Signal
  <2>1. MailboxTypeOK'
    BY <1>5 DEF Signal, SignalEmergency, MailboxTypeOK
  <2> QED
    BY <1>o, <1>5, <2>1 DEF Signal, DisplayTypes, PlaceTypes, display, worker
<1> QED
  BY <1>1, <1>2, <1>3, <1>4, <1>5 DEF SessionStep

LEMMA TypesProduce ==
  ASSUME Types, NEW event \in Events, Produce(event)
  PROVE  MailboxTypeOK' /\ DisplayTypes' /\ PlaceTypes' /\ admitted' \in Nat
<1>1. MailboxTypeOK'
  BY TypesAdmit, TypesSplit DEF Produce
<1>2. DisplayTypes' /\ PlaceTypes'
  BY TypesSplit DEF Produce, DisplayTypes, PlaceTypes, display, worker, session
<1>3. admitted' \in Nat
  BY TypesSplit DEF Produce, OtherTypes
<1> QED
  BY <1>1, <1>2, <1>3

LEMMA TypesProducer ==
  ASSUME Types, ProducerStep
  PROVE  Types'
<1> USE TypesSplit, TypesJoin, TypesProduce
<1>0. /\ lineNo \in [Streams -> Nat] /\ parts \in [Streams -> Nat]
      /\ over \in [Streams -> BOOLEAN] /\ step \in [Streams -> Nat] /\ controls \in Nat /\ statuses \in Nat
  BY DEF OtherTypes
<1>1. ASSUME NEW s \in Streams, ReadLine(s) PROVE Types'
  <2>1. lineNo[s] \in Nat /\ step[s] \in Nat
    BY <1>0
  <2>2. PICK event \in Events : Produce(event)
    <3>1. StreamEvent("boundary", s, NoText, TRUE) \in Events
      BY <2>1 DEF StreamEvent, Events, TelemetryKinds
    <3>2. \A text \in Texts : StreamEvent("diagnostic", s, text, FALSE) \in Events
      BY <2>1 DEF StreamEvent, Events, TelemetryKinds
    <3> QED
      BY <1>1, <3>1, <3>2 DEF ReadLine
  <2>3. /\ lineNo' \in [Streams -> Nat] /\ parts' \in [Streams -> Nat]
        /\ step' \in [Streams -> Nat] /\ controls' \in Nat /\ statuses' \in Nat
    BY <1>0, <1>1, <2>1 DEF ReadLine
  <2>4. over' \in [Streams -> BOOLEAN]
    BY <1>0, <1>1 DEF ReadLine
  <2> QED
    BY <2>2, <2>3, <2>4 DEF OtherTypes
<1>2. ASSUME NEW s \in Streams, NEW oversized \in BOOLEAN, ReadPart(s, oversized)
      PROVE Types'
  <2>1. lineNo[s] \in Nat /\ parts[s] \in Nat /\ step[s] \in Nat
    BY <1>0
  <2>2. PICK event \in Events : Produce(event)
    <3>1. StreamEvent("prefix", s, NoText, oversized) \in Events
      BY <2>1 DEF StreamEvent, Events, TelemetryKinds
    <3> QED
      BY <1>2, <3>1 DEF ReadPart
  <2>3. /\ lineNo' \in [Streams -> Nat] /\ parts' \in [Streams -> Nat]
        /\ step' \in [Streams -> Nat] /\ controls' \in Nat /\ statuses' \in Nat
    BY <1>0, <1>2, <2>1 DEF ReadPart
  <2>4. over' \in [Streams -> BOOLEAN]
    BY <1>0, <1>2 DEF ReadPart
  <2> QED
    BY <2>2, <2>3, <2>4 DEF OtherTypes
<1>3. ASSUME EmitStatus PROVE Types'
  <2>1. Event("status") \in Events
    BY EventTyped DEF EventKinds, TelemetryKinds
  <2>2. /\ lineNo' \in [Streams -> Nat] /\ parts' \in [Streams -> Nat]
        /\ over' \in [Streams -> BOOLEAN] /\ step' \in [Streams -> Nat] /\ controls' \in Nat /\ statuses' \in Nat
    BY <1>0, <1>3 DEF EmitStatus
  <2> QED
    BY <1>3, <2>1, <2>2 DEF EmitStatus, OtherTypes
<1>4. ASSUME EmitControl PROVE Types'
  <2>1. PICK event \in Events : Produce(event)
    <3>1. \A kind \in {"step", "phase", "ended"} : Event(kind) \in Events
      BY EventTyped DEF EventKinds, ControlKinds
    <3> QED
      BY <1>4, <3>1 DEF EmitControl
  <2>2. /\ lineNo' \in [Streams -> Nat] /\ parts' \in [Streams -> Nat]
        /\ over' \in [Streams -> BOOLEAN] /\ step' \in [Streams -> Nat] /\ controls' \in Nat /\ statuses' \in Nat
    BY <1>0, <1>4 DEF EmitControl
  <2> QED
    BY <2>1, <2>2 DEF OtherTypes
<1> QED
  BY <1>1, <1>2, <1>3, <1>4 DEF ProducerStep

LEMMA TypesStep == Types /\ [Next]_vars => Types'
<1> SUFFICES ASSUME Types, [Next]_vars PROVE Types'
  OBVIOUS
<1>1. CASE TimePasses
  <2>1. MailboxTypeOK' /\ OtherTypes' /\ PlaceTypes' /\ DisplayTypes'
    BY <1>1, TypesSplit DEF TimePasses, MailboxTypeOK, OtherTypes, PlaceTypes, DisplayTypes,
       mailbox, producers, worker, session
  <2> QED
    BY <2>1, TypesJoin
<1>2. CASE UNCHANGED vars
  <2>1. MailboxTypeOK' /\ OtherTypes' /\ PlaceTypes' /\ DisplayTypes'
    BY <1>2, TypesSplit DEF vars, MailboxTypeOK, OtherTypes, PlaceTypes, DisplayTypes,
       mailbox, producers, display, worker, session
  <2> QED
    BY <2>1, TypesJoin
<1> QED
  BY <1>1, <1>2, TypesWorker, TypesSession, TypesProducer DEF Next

\* Every variable of the session and its inbox keeps its type.
THEOREM TypeCorrect == Spec => []TypeOK
<1>1. Types => TypeOK
  BY DEF Types
<1> QED
  BY <1>1, TypesInit, TypesStep, PTL DEF Spec

----------------------------------------------------------------------------
(* The order of what is written.  Everything in the worker's hands carries *)
(* an admission number: what was shown, the calls to make, the open group  *)
(* of interactive mode, the item taken and the queue follow each other.    *)

\* The calls that must keep the order have numbers above lo, up to hi.
WritesIn(c, lo, hi) ==
  /\ \A i \in DOMAIN c : c[i].kind \in InOrder => lo < c[i].seq /\ c[i].seq <= hi
  /\ \A i, j \in DOMAIN c :
        i < j /\ c[i].kind \in InOrder /\ c[j].kind \in InOrder => c[i].seq < c[j].seq

\* Of two sequences of calls the second has the higher numbers.
LEMMA WritesJoin ==
  ASSUME NEW a \in Seq(Entries), NEW b \in Seq(Entries),
         NEW lo \in Int, NEW mid \in Int, NEW hi \in Int, lo <= mid, mid <= hi,
         WritesIn(a, lo, mid), WritesIn(b, mid, hi)
  PROVE  WritesIn(a \o b, lo, hi)
<1> DEFINE c == a \o b
<1>1. /\ Len(a) \in Nat /\ Len(b) \in Nat /\ DOMAIN a = 1..Len(a) /\ DOMAIN b = 1..Len(b)
      /\ c \in Seq(Entries) /\ Len(c) = Len(a) + Len(b) /\ DOMAIN c = 1..Len(c)
      /\ \A i \in 1..Len(c) : c[i] = IF i <= Len(a) THEN a[i] ELSE b[i - Len(a)]
  BY ConcatProperties
<1>2. \A i \in 1..Len(a) : a[i].seq \in Int
  <2>1. \A i \in 1..Len(a) : a[i] \in Entries
    BY <1>1
  <2>2. \A e \in Entries : e.seq \in Int
    BY DEF Entries
  <2> QED
    BY <2>1, <2>2
<1>3. \A i \in 1..Len(b) : b[i].seq \in Int
  <2>1. \A i \in 1..Len(b) : b[i] \in Entries
    BY <1>1
  <2>2. \A e \in Entries : e.seq \in Int
    BY DEF Entries
  <2> QED
    BY <2>1, <2>2
<1> HIDE DEF c
<1>4. ASSUME NEW i \in 1..Len(c)
      PROVE  \/ i \in 1..Len(a) /\ c[i] = a[i]
             \/ ~(i <= Len(a)) /\ i - Len(a) \in 1..Len(b) /\ c[i] = b[i - Len(a)]
  BY <1>1, <1>4
<1>5. ASSUME NEW i \in 1..Len(c), c[i].kind \in InOrder
      PROVE  lo < c[i].seq /\ c[i].seq <= hi
  <2>1. CASE i \in 1..Len(a) /\ c[i] = a[i]
    <3>1. lo < a[i].seq /\ a[i].seq <= mid
      BY <1>1, <1>5, <2>1 DEF WritesIn
    <3> QED
      BY <1>2, <2>1, <3>1
  <2>2. CASE i - Len(a) \in 1..Len(b) /\ c[i] = b[i - Len(a)]
    <3>1. mid < b[i - Len(a)].seq /\ b[i - Len(a)].seq <= hi
      BY <1>1, <1>5, <2>2 DEF WritesIn
    <3> QED
      BY <1>3, <2>2, <3>1
  <2> QED
    BY <1>4, <1>5, <2>1, <2>2
<1>6. ASSUME NEW i \in 1..Len(c), NEW j \in 1..Len(c), i < j,
             c[i].kind \in InOrder, c[j].kind \in InOrder
      PROVE  c[i].seq < c[j].seq
  <2>1. CASE j <= Len(a)
    <3>1. i \in 1..Len(a) /\ j \in 1..Len(a) /\ c[i] = a[i] /\ c[j] = a[j]
      BY <1>1, <1>4, <1>6, <2>1
    <3> QED
      BY <1>1, <1>6, <3>1 DEF WritesIn
  <2>2. CASE ~(j <= Len(a)) /\ i <= Len(a)
    <3>1. i \in 1..Len(a) /\ c[i] = a[i] /\ j - Len(a) \in 1..Len(b) /\ c[j] = b[j - Len(a)]
      BY <1>1, <1>4, <1>6, <2>2
    <3>2. a[i].seq <= mid /\ mid < b[j - Len(a)].seq
      BY <1>1, <1>6, <3>1 DEF WritesIn
    <3> QED
      BY <1>2, <1>3, <3>1, <3>2
  <2>3. CASE ~(i <= Len(a))
    <3>1. /\ i - Len(a) \in 1..Len(b) /\ c[i] = b[i - Len(a)]
          /\ j - Len(a) \in 1..Len(b) /\ c[j] = b[j - Len(a)]
          /\ i - Len(a) < j - Len(a)
      BY <1>1, <1>4, <1>6, <2>3
    <3> QED
      BY <1>1, <1>6, <3>1 DEF WritesIn
  <2> QED
    BY <1>1, <2>1, <2>2, <2>3
<1>7. WritesIn(c, lo, hi)
  BY <1>1, <1>5, <1>6 DEF WritesIn
<1> QED
  BY <1>7 DEF c

OpenGroup == Mode = "interactive" /\ group.count > 0

\* Nothing that was or will be written from the worker's hands reaches n.
WritesBelow(n) ==
  /\ shown.seq < n /\ group.seq < n
  /\ \A i \in DOMAIN calls : calls[i].kind \in InOrder => calls[i].seq < n

QueueInv ==
  /\ \A i, j \in DOMAIN queue : i < j => queue[i].seq < queue[j].seq
  /\ \A i \in DOMAIN queue : queue[i].seq < sequence
  /\ \A i, j \in DOMAIN queue :
        /\ queue[i].event.kind = "prefix" /\ queue[j].event.kind = "prefix"
        /\ queue[i].event.stream = queue[j].event.stream /\ queue[i].event.step = queue[j].event.step
        => i = j

CallsInv ==
  /\ \A i \in DOMAIN calls : calls[i].kind \in InOrder => shown.seq < calls[i].seq
  /\ \A i, j \in DOMAIN calls :
        i < j /\ calls[i].kind \in InOrder /\ calls[j].kind \in InOrder
        => calls[i].seq < calls[j].seq
  /\ OpenGroup => /\ shown.seq < group.seq
                  /\ \A i \in DOMAIN calls :
                        calls[i].kind \in InOrder => calls[i].seq < group.seq

\* The numbers still to come: those in the queue and the next to be given.
Ahead == {sequence} \cup {queue[i].seq : i \in DOMAIN queue}

OrderInv ==
  /\ QueueInv /\ CallsInv
  /\ \A n \in Ahead : WritesBelow(n) /\ item.seq < n
  /\ item # NoItem => WritesBelow(item.seq) /\ wpc \in {"recheck", "stop", "stopped"}
  /\ wpc # "render" => calls = <<>>

LEMMA WritesNone == \A lo, hi : WritesIn(<<>>, lo, hi)
BY DEF WritesIn

LEMMA WritesOne ==
  ASSUME NEW e \in Entries, NEW lo \in Int, NEW hi \in Int,
         e.kind \in InOrder => lo < e.seq /\ e.seq <= hi
  PROVE  WritesIn(<<e>>, lo, hi)
BY DEF WritesIn

LEMMA WritesTwo ==
  ASSUME NEW d \in Entries, NEW e \in Entries, NEW lo \in Int, NEW hi \in Int,
         d.kind \notin InOrder, e.kind \in InOrder => lo < e.seq /\ e.seq <= hi
  PROVE  WritesIn(<<d, e>>, lo, hi)
BY DEF WritesIn

LEMMA WritesGroup ==
  ASSUME Types, NEW lo \in Int, NEW hi \in Int,
         OpenGroup => lo < group.seq /\ group.seq <= hi
  PROVE  WritesIn(GroupCalls, lo, hi)
<1>1. GroupCalls \in {<<>>, <<GroupEntry>>} /\ (GroupCalls = <<GroupEntry>> => group.count >= 1)
  BY DEF GroupCalls, Types, WorkerTypes, Groups
<1>2. GroupEntry \in Entries
  BY DEF Types, WorkerTypes, Groups, GroupEntry, Entry, Entries, EntryKinds
<1>3. group.count >= 1 /\ GroupEntry.kind \in InOrder => lo < GroupEntry.seq /\ GroupEntry.seq <= hi
  BY DEF GroupEntry, Entry, OpenGroup, InOrder, Types, WorkerTypes, Groups
<1> QED
  BY <1>1, <1>2, <1>3, WritesNone, WritesOne

LEMMA WritesNotice ==
  ASSUME Types, NEW it \in Items, NEW lo \in Int, NEW hi \in Int
  PROVE  WritesIn(Notice(it), lo, hi) /\ WritesIn(<<NoticeEntry>>, lo, hi)
<1>1. NoticeEntry \in Entries /\ NoticeEntry.kind \notin InOrder
  BY EntriesTyped DEF NoticeEntry, Entry, InOrder
<1>2. WritesIn(<<NoticeEntry>>, lo, hi)
  BY <1>1, WritesOne
<1> QED
  BY <1>2, WritesNone DEF Notice

LEMMA WritesUpTo ==
  ASSUME NEW c \in Seq(Entries), NEW lo \in Int, NEW mid \in Int, NEW hi \in Int,
         mid <= hi, WritesIn(c, lo, mid)
  PROVE  WritesIn(c, lo, hi)
<1>1. \A i \in DOMAIN c : c[i].seq \in Int
  <2>1. \A i \in DOMAIN c : c[i] \in Entries
    OBVIOUS
  <2>2. \A e \in Entries : e.seq \in Int
    BY DEF Entries
  <2> QED
    BY <2>1, <2>2
<1> QED
  BY <1>1 DEF WritesIn

\* Showing an item writes the open group before the item, and a group that
\* stays open, or that the item opens, comes after all that is written.
LEMMA ShowOrder ==
  ASSUME Types, CallsInv, NEW it \in Items, shown.seq < it.seq, group.seq < it.seq, Show(it)
  PROVE  /\ WritesIn(calls', shown.seq, it.seq)
         /\ group'.seq \in {group.seq, -1, it.seq}
         /\ OpenGroup' => shown.seq < group'.seq /\ WritesIn(calls', shown.seq, group'.seq - 1)
<1> DEFINE lo == shown.seq  mid == it.seq - 1  hi == it.seq
<1>0. /\ lo \in Int /\ mid \in Int /\ hi \in Int /\ group.seq \in Int
      /\ lo <= mid /\ mid <= hi /\ group.count \in Nat
      /\ it.event.kind \in ControlKinds \cup TelemetryKinds
  <2>1. lo \in Int /\ hi \in Int /\ group.seq \in Int /\ group.count \in Nat
    BY DEF Types, WorkerTypes, Shown, Items, Groups
  <2>2. it.event.kind \in ControlKinds \cup TelemetryKinds
    BY DEF Items, Events
  <2> QED
    BY <2>1, <2>2
<1>k. /\ LineEntry(it).seq = hi /\ PartEntry(it).seq = hi /\ ControlEntry(it).seq = hi
      /\ Transient.kind \notin InOrder
  BY DEF LineEntry, PartEntry, ControlEntry, Transient, Entry, InOrder
<1>t. /\ Transient \in Entries /\ LineEntry(it) \in Entries
      /\ PartEntry(it) \in Entries /\ ControlEntry(it) \in Entries
      /\ GroupCalls \in Seq(Entries) /\ Notice(it) \in Seq(Entries)
      /\ <<>> \in Seq(Entries) /\ <<Transient>> \in Seq(Entries)
      /\ <<LineEntry(it)>> \in Seq(Entries) /\ <<PartEntry(it)>> \in Seq(Entries)
      /\ <<ControlEntry(it)>> \in Seq(Entries)
      /\ <<Transient, ControlEntry(it)>> \in Seq(Entries)
      /\ GroupCalls \o Notice(it) \in Seq(Entries)
  BY EntriesTyped, ConcatTyped
<1> HIDE DEF lo, mid, hi
<1>g. WritesIn(GroupCalls, lo, mid)
  <2>1. OpenGroup => lo < group.seq /\ group.seq <= mid
    BY <1>0 DEF CallsInv, lo, mid, hi
  <2> QED
    BY <1>0, <2>1, WritesGroup
<1>p. \A x \in Int, y \in Int : WritesIn(<<>>, x, y) /\ WritesIn(<<Transient>>, x, y)
  BY <1>t, <1>k, WritesNone, WritesOne
<1>i. /\ WritesIn(<<LineEntry(it)>>, mid, hi) /\ WritesIn(<<PartEntry(it)>>, mid, hi)
      /\ WritesIn(<<ControlEntry(it)>>, mid, hi)
      /\ WritesIn(<<Transient, ControlEntry(it)>>, mid, hi)
  <2>1. mid < hi
    BY <1>0 DEF mid, hi
  <2>2. WritesIn(<<Transient, ControlEntry(it)>>, mid, hi)
    BY <1>0, <1>t, <1>k, <2>1, WritesTwo
  <2>3. WritesIn(<<LineEntry(it)>>, mid, hi)
    BY <1>0, <1>t, <1>k, <2>1, WritesOne
  <2>4. WritesIn(<<PartEntry(it)>>, mid, hi)
    BY <1>0, <1>t, <1>k, <2>1, WritesOne
  <2>5. WritesIn(<<ControlEntry(it)>>, mid, hi)
    BY <1>0, <1>t, <1>k, <2>1, WritesOne
  <2> QED
    BY <2>2, <2>3, <2>4, <2>5
<1>1. /\ WritesIn(GroupCalls \o Notice(it), lo, mid)
      /\ WritesIn(GroupCalls \o <<>>, lo, hi) /\ WritesIn(GroupCalls \o <<Transient>>, lo, hi)
  <2>1. WritesIn(Notice(it), mid, mid)
    BY <1>0, WritesNotice
  <2>2. WritesIn(GroupCalls \o Notice(it), lo, mid)
    BY <1>0, <1>t, <1>g, <2>1, WritesJoin
  <2> QED
    BY <1>0, <1>t, <1>g, <1>p, <2>2, WritesJoin
<1>2. /\ WritesIn(GroupCalls \o Notice(it) \o <<>>, lo, mid)
      /\ WritesIn(GroupCalls \o Notice(it) \o <<Transient>>, lo, mid)
  <2>1. WritesIn(<<>>, mid, mid) /\ WritesIn(<<Transient>>, mid, mid)
    BY <1>0, <1>p
  <2>2. mid <= mid
    BY <1>0
  <2>3. WritesIn(GroupCalls \o Notice(it) \o <<>>, lo, mid)
    BY <1>0, <1>t, <1>1, <2>1, <2>2, WritesJoin
  <2>4. WritesIn(GroupCalls \o Notice(it) \o <<Transient>>, lo, mid)
    BY <1>0, <1>t, <1>1, <2>1, <2>2, WritesJoin
  <2> QED
    BY <2>3, <2>4
<1>3. /\ WritesIn(GroupCalls \o <<PartEntry(it)>>, lo, hi)
      /\ WritesIn(GroupCalls \o <<ControlEntry(it)>>, lo, hi)
  BY <1>0, <1>t, <1>g, <1>i, WritesJoin
<1>4. /\ WritesIn(GroupCalls \o Notice(it) \o <<LineEntry(it)>>, lo, hi)
      /\ WritesIn(GroupCalls \o Notice(it) \o <<Transient, ControlEntry(it)>>, lo, hi)
  BY <1>0, <1>t, <1>1, <1>i, WritesJoin
<1>5. \A y \in Int : lo <= y => /\ WritesIn(<<>> \o <<Transient>>, lo, y)
                             /\ WritesIn(<<>> \o <<>>, lo, y)
  <2>1. <<>> \o <<Transient>> = <<Transient>> /\ <<>> \o <<>> = <<>>
    BY <1>t, ConcatEmptySeq
  <2> QED
    BY <1>0, <1>p, <2>1
<1>6. WritesIn(<<>> \o <<LineEntry(it)>>, lo, hi) /\ WritesIn(<<>> \o <<ControlEntry(it)>>, lo, hi)
  BY <1>0, <1>t, <1>p, <1>i, WritesJoin
<1>7. /\ WritesIn(GroupCalls \o Notice(it) \o <<>>, lo, hi)
      /\ WritesIn(GroupCalls \o Notice(it) \o <<Transient>>, lo, hi)
  <2>1. /\ GroupCalls \o Notice(it) \o <<>> \in Seq(Entries)
        /\ GroupCalls \o Notice(it) \o <<Transient>> \in Seq(Entries)
    BY <1>t, ConcatTyped
  <2> QED
    BY <1>0, <1>2, <2>1, WritesUpTo
<1>8. OpenGroup => lo < group.seq /\ lo <= group.seq - 1 /\ group.seq - 1 \in Int
  BY <1>0 DEF CallsInv, lo
<1>9. NoGroup.seq = -1 /\ NoGroup.count = 0 /\ NewGroup(it).seq = hi
  BY DEF NoGroup, NewGroup, hi
<1> DEFINE G == /\ WritesIn(calls', lo, hi)
                /\ group'.seq \in {group.seq, -1, hi}
                /\ OpenGroup' => lo < group'.seq /\ WritesIn(calls', lo, group'.seq - 1)
<1>c. ASSUME group' = NoGroup, WritesIn(calls', lo, hi) PROVE G
  BY <1>9, <1>c DEF OpenGroup
<1>s. ASSUME group'.seq = group.seq, group'.count > 0 => group.count > 0,
             calls' \in {<<>>, <<Transient>>, <<>> \o <<Transient>>, <<>> \o <<>>}
      PROVE  G
  BY <1>0, <1>p, <1>5, <1>8, <1>s DEF OpenGroup
<1>m. ASSUME Mode # "interactive", group'.seq \in {group.seq, -1, hi}, WritesIn(calls', lo, hi)
      PROVE  G
  BY <1>m DEF OpenGroup
<1>h. ASSUME group'.seq = hi, WritesIn(calls', lo, mid), WritesIn(calls', lo, hi) PROVE G
  BY <1>0, <1>h DEF mid, hi
<1> HIDE DEF G
<1>10. ASSUME ShowPrefix(it) PROVE G
  <2>1. Mode = "interactive" \/ Mode = "off" => G
    BY <1>10, <1>s DEF ShowPrefix, display
  <2>2. Mode = "lines" => G
    BY <1>0, <1>p, <1>3, <1>9, <1>10, <1>m DEF ShowPrefix, display, CloseGroup
  <2> QED
    BY <2>1, <2>2, PresentationAssumption
<1>11. ASSUME ShowBoundary(it) PROVE G
  <2>1. Mode = "off" => G
    BY <1>11, <1>s DEF ShowBoundary, display
  <2>2. Mode = "lines" => G
    BY <1>0, <1>p, <1>3, <1>9, <1>11, <1>m DEF ShowBoundary, CloseGroup
  <2>3. Mode = "interactive" => G
    BY <1>3, <1>11, <1>c DEF ShowBoundary, CloseGroup
  <2> QED
    BY <2>1, <2>2, <2>3, PresentationAssumption
<1>12. ASSUME ShowDiagnostic(it) PROVE G
  <2>1. CASE Exact
    BY <1>4, <1>12, <1>c, <2>1 DEF ShowDiagnostic, CloseGroup
  <2>2. CASE ~Exact /\ Mode # "interactive"
    <3>1. group' = [group EXCEPT !.count = @ + 1] \/ group' = NewGroup(it)
      BY <1>12, <2>2 DEF ShowDiagnostic
    <3>2. [group EXCEPT !.count = @ + 1].seq = group.seq
      BY DEF Types, WorkerTypes, Groups
    <3>3. WritesIn(calls', lo, hi)
      <4>1. calls' \in {<<>> \o <<>>, GroupCalls \o Notice(it) \o <<LineEntry(it)>>}
        BY <1>12, <2>2 DEF ShowDiagnostic, Variant, SameSource
      <4>2. WritesIn(<<>> \o <<>>, lo, hi)
        BY <1>0, <1>5
      <4> QED
        BY <1>4, <4>1, <4>2
    <3> QED
      BY <1>9, <1>m, <2>2, <3>1, <3>2, <3>3
  <2>3. CASE ~Exact /\ Mode = "interactive" /\ SameGroup(it) /\ Notice(it) = <<>>
    <3>1. group' = [group EXCEPT !.count = @ + 1] /\ group.count > 0
      BY <1>12, <2>3 DEF ShowDiagnostic, SameGroup, SameSource
    <3>2. [group EXCEPT !.count = @ + 1].seq = group.seq
      BY DEF Types, WorkerTypes, Groups
    <3>3. calls' \in {<<>> \o <<Transient>>, <<>> \o <<>>}
      BY <1>12, <2>3 DEF ShowDiagnostic
    <3> QED
      BY <1>s, <3>1, <3>2, <3>3
  <2>4. CASE ~Exact /\ Mode = "interactive" /\ ~(SameGroup(it) /\ Notice(it) = <<>>)
    <3>1. group' = NewGroup(it)
      BY <1>12, <2>4 DEF ShowDiagnostic
    <3>2. calls' \in {<<>> \o <<Transient>>, GroupCalls \o Notice(it) \o <<Transient>>}
      BY <1>12, <2>4 DEF ShowDiagnostic
    <3>3. WritesIn(<<>> \o <<Transient>>, lo, mid) /\ WritesIn(<<>> \o <<Transient>>, lo, hi)
      BY <1>0, <1>5
    <3>4. WritesIn(calls', lo, mid) /\ WritesIn(calls', lo, hi)
      BY <1>2, <1>7, <3>2, <3>3
    <3> QED
      BY <1>9, <1>h, <3>1, <3>4
  <2> QED
    BY <2>1, <2>2, <2>3, <2>4
<1>13. ASSUME ShowStatus(it) PROVE G
  BY <1>13, <1>s, PresentationAssumption DEF ShowStatus, display
<1>14. ASSUME ShowStarted(it) PROVE G
  <2>0. WritesIn(calls', lo, hi)
    <3>1. calls' \in {GroupCalls \o <<Transient>>, GroupCalls \o <<ControlEntry(it)>>,
                     GroupCalls \o <<>>, <<>> \o <<Transient>>,
                     <<>> \o <<ControlEntry(it)>>, <<>> \o <<>>}
      BY <1>14, PresentationAssumption DEF ShowStarted
    <3>2. WritesIn(<<>> \o <<Transient>>, lo, hi) /\ WritesIn(<<>> \o <<>>, lo, hi)
      BY <1>0, <1>5
    <3> QED
      BY <1>1, <1>3, <1>6, <3>1, <3>2
  <2>1. CASE group' = NoGroup
    BY <1>c, <2>0, <2>1
  <2>2. CASE group' = group /\ Mode = "interactive" /\ calls' = <<>> \o <<Transient>>
    BY <1>s, <2>2
  <2>3. CASE group' = group /\ Mode # "interactive"
    BY <1>m, <2>0, <2>3
  <2> QED
    BY <1>14, <2>1, <2>2, <2>3 DEF ShowStarted, CloseGroup
<1>15. ASSUME ShowEnded(it) \/ ShowReport(it) PROVE G
  BY <1>3, <1>4, <1>15, <1>c DEF ShowEnded, ShowReport, CloseGroup
<1>16. G
  BY <1>0, <1>10, <1>11, <1>12, <1>13, <1>14, <1>15 DEF Show, ControlKinds, TelemetryKinds
<1> QED
  BY <1>16 DEF G, lo, hi

LEMMA OrderInit == Init => OrderInv
<1> SUFFICES ASSUME Init PROVE OrderInv
  OBVIOUS
<1>1. queue = <<>> /\ sequence = 0 /\ calls = <<>> /\ wpc = "top"
  BY DEF Init, MailboxInit
<1>2. shown.seq = -1 /\ item = NoItem /\ item.seq = -1 /\ group.seq = -1 /\ ~(group.count > 0)
  BY DEF Init, NoItem, NoGroup
<1>3. Ahead = {0}
  BY <1>1 DEF Ahead
<1>4. QueueInv /\ CallsInv
  BY <1>1, <1>2 DEF QueueInv, CallsInv, OpenGroup
<1> QED
  BY <1>1, <1>2, <1>3, <1>4 DEF OrderInv, WritesBelow

\* An admission only adds a number that is higher than all the others.
LEMMA OrderAdmit ==
  ASSUME Types, OrderInv, NEW event \in Events, Admit(event),
         UNCHANGED <<group, calls, item, wpc, shown>>
  PROVE  OrderInv'
<1>0. /\ queue \in Seq(Admissions) /\ sequence \in Nat
      /\ \A i \in DOMAIN queue : queue[i].seq \in Nat
  <2>1. queue \in Seq(Admissions) /\ sequence \in Nat
    BY DEF Types, TypeOK, MailboxTypeOK, Admissions
  <2>2. \A i \in DOMAIN queue : queue[i] \in Admissions
    BY <2>1
  <2>3. \A a \in Admissions : a.seq \in Nat
    BY DEF Admissions
  <2> QED
    BY <2>1, <2>2, <2>3
<1>1. CallsInv'
  BY DEF OrderInv, CallsInv, OpenGroup
<1>2. /\ item' # NoItem => WritesBelow(item.seq)' /\ wpc' \in {"recheck", "stop", "stopped"}
      /\ wpc' # "render" => calls' = <<>>
  BY DEF OrderInv, WritesBelow
<1>3. ASSUME QueueInv', \A n \in Ahead' : n \in Ahead \/ n = sequence + 1
      PROVE  OrderInv'
  <2>1. ASSUME NEW n \in Ahead PROVE WritesBelow(n)' /\ item'.seq < n
    BY <2>1 DEF OrderInv, WritesBelow
  <2>2. WritesBelow(sequence) /\ item.seq < sequence
    BY DEF OrderInv, Ahead
  <2>3. /\ shown.seq \in Int /\ group.seq \in Int /\ item.seq \in Int
        /\ \A i \in DOMAIN calls : calls[i].seq \in Int
    <3>1. \A e \in Entries : e.seq \in Int
      BY DEF Entries
    <3>2. \A i \in DOMAIN calls : calls[i] \in Entries
      BY DEF Types, WorkerTypes
    <3>3. shown \in Shown /\ group \in Groups /\ item \in Items
      BY DEF Types, WorkerTypes
    <3> QED
      BY <3>1, <3>2, <3>3 DEF Shown, Groups, Items
  <2>4. WritesBelow(sequence + 1) /\ item.seq < sequence + 1
    BY <1>0, <2>2, <2>3 DEF WritesBelow
  <2>6. \A n : WritesBelow(n) => /\ shown'.seq < n /\ group'.seq < n
                              /\ \A i \in DOMAIN calls' : calls'[i].kind \in InOrder
                                                           => calls'[i].seq < n
    BY DEF WritesBelow
  <2>7. \A n \in Ahead' : WritesBelow(n) /\ item.seq < n
    BY <1>3, <2>4 DEF OrderInv
  <2> QED
    BY <1>1, <1>2, <1>3, <2>6, <2>7 DEF OrderInv, WritesBelow
<1>4. CASE Enqueue(event)
  <2>1. /\ queue' = Append(queue, Admitted(event, sequence))
        /\ Len(queue') = Len(queue) + 1 /\ DOMAIN queue' = 1..(Len(queue) + 1)
        /\ DOMAIN queue = 1..Len(queue) /\ Len(queue) \in Nat
        /\ \A i \in 1..Len(queue) : queue'[i] = queue[i]
        /\ queue'[Len(queue) + 1] = Admitted(event, sequence)
    <3>1. Admitted(event, sequence) \in Admissions
      BY <1>0 DEF Admitted, Admissions
    <3> QED
      BY <1>0, <1>4, <3>1 DEF Enqueue
  <2>2. sequence' = sequence + 1 /\ Admitted(event, sequence).seq = sequence
        /\ Admitted(event, sequence).event = event
    BY <1>4 DEF Enqueue, Admitted
  <2>3. \A i \in 1..(Len(queue) + 1) : i \in 1..Len(queue) \/ i = Len(queue) + 1
    BY <2>1
  <2>4. QueueInv'
    <3>1. \A i \in 1..Len(queue) : queue[i].seq < sequence
      BY <2>1 DEF OrderInv, QueueInv
    <3>2. ASSUME NEW i \in DOMAIN queue', NEW j \in DOMAIN queue', i < j
          PROVE  queue'[i].seq < queue'[j].seq
      BY <2>1, <2>2, <2>3, <3>1, <3>2 DEF OrderInv, QueueInv
    <3>3. ASSUME NEW i \in DOMAIN queue' PROVE queue'[i].seq < sequence'
      BY <1>0, <2>1, <2>2, <2>3, <3>1, <3>3
    <3>4. ASSUME NEW i \in DOMAIN queue', NEW j \in DOMAIN queue',
                 queue'[i].event.kind = "prefix", queue'[j].event.kind = "prefix",
                 queue'[i].event.stream = queue'[j].event.stream,
                 queue'[i].event.step = queue'[j].event.step
          PROVE  i = j
      <4>1. ASSUME NEW k \in 1..Len(queue), event.kind = "prefix", queue[k].event.kind = "prefix"
            PROVE  queue[k].event.stream # event.stream \/ queue[k].event.step # event.step
        BY <1>4, <2>1, <4>1 DEF Enqueue, Replaceable
      <4>2. CASE i \in 1..Len(queue) /\ j \in 1..Len(queue)
        BY <2>1, <3>4, <4>2 DEF OrderInv, QueueInv
      <4> QED
        BY <2>1, <2>2, <2>3, <3>4, <4>1, <4>2
    <3> QED
      BY <3>2, <3>3, <3>4 DEF QueueInv
  <2>5. ASSUME NEW n \in Ahead' PROVE n \in Ahead \/ n = sequence + 1
    <3>1. CASE n = sequence'
      BY <2>2, <3>1
    <3>2. ASSUME NEW i \in DOMAIN queue', n = queue'[i].seq PROVE n \in Ahead
      BY <2>1, <2>2, <2>3, <3>2 DEF Ahead
    <3> QED
      BY <2>5, <3>1, <3>2 DEF Ahead
  <2> QED
    BY <1>3, <2>4, <2>5
<1>5. CASE Supersede(event)
  <2>1. PICK i \in Replaceable(event) : queue' = [queue EXCEPT ![i].event = event]
    BY <1>5 DEF Supersede
  <2>2. /\ DOMAIN queue' = DOMAIN queue /\ i \in DOMAIN queue
        /\ \A k \in DOMAIN queue : k # i => queue'[k] = queue[k]
        /\ queue'[i].seq = queue[i].seq /\ queue'[i].event = event
    <3>1. i \in DOMAIN queue /\ queue[i] \in Admissions
      BY <1>0 DEF Replaceable
    <3> QED
      BY <1>0, <2>1, <3>1 DEF Admissions
  <2>3. event.kind = "prefix" /\ queue[i].event.kind = "prefix"
        /\ queue[i].event.stream = event.stream /\ queue[i].event.step = event.step /\ sequence' = sequence
    BY <1>5, <2>1 DEF Replaceable, Supersede
  <2>4. \A k \in DOMAIN queue : queue'[k].seq = queue[k].seq
    BY <2>2
  <2>5. \A k \in DOMAIN queue :
           /\ queue'[k].event.kind = queue[k].event.kind
           /\ queue'[k].event.stream = queue[k].event.stream /\ queue'[k].event.step = queue[k].event.step
    BY <2>2, <2>3
  <2>6. QueueInv'
    BY <2>2, <2>3, <2>4, <2>5 DEF OrderInv, QueueInv
  <2>7. Ahead' = Ahead
    BY <2>2, <2>3, <2>4 DEF Ahead
  <2> QED
    BY <1>3, <2>6, <2>7
<1>6. CASE UNCHANGED <<queue, sequence>>
  <2>1. QueueInv' /\ Ahead' = Ahead
    BY <1>6 DEF OrderInv, QueueInv, Ahead
  <2> QED
    BY <1>3, <2>1
<1> QED
  BY <1>4, <1>5, <1>6 DEF Admit, Reject, mailbox, DropTelemetry, OverflowControl, SignalEmergency

NumbersTyped ==
  /\ shown.seq \in Int /\ group.seq \in Int /\ item.seq \in Int /\ sequence \in Nat
  /\ \A i \in DOMAIN calls : calls[i].seq \in Int
  /\ Ahead \subseteq Nat

LEMMA TypedNumbers == Types => NumbersTyped
<1> SUFFICES ASSUME Types PROVE NumbersTyped
  OBVIOUS
<1>1. \A e \in Entries : e.seq \in Int
  BY DEF Entries
<1>2. \A i \in DOMAIN calls : calls[i] \in Entries
  BY DEF Types, WorkerTypes
<1>3. shown \in Shown /\ group \in Groups /\ item \in Items
  BY DEF Types, WorkerTypes
<1>4. queue \in Seq(Admissions) /\ sequence \in Nat
  BY DEF Types, TypeOK, MailboxTypeOK, Admissions
<1>5. \A i \in DOMAIN queue : queue[i] \in Admissions
  BY <1>4
<1>6. \A a \in Admissions : a.seq \in Nat
  BY DEF Admissions
<1> QED
  BY <1>1, <1>2, <1>3, <1>4, <1>5, <1>6 DEF Shown, Groups, Items, NumbersTyped, Ahead

\* Steps that write nothing and may give up calls, the group or the queue.
LEMMA OrderDrops ==
  ASSUME Types, OrderInv, queue' \in {queue, <<>>}, sequence' = sequence,
         shown' = shown, item' = item,
         group' = group \/ (group' = NoGroup /\ item = NoItem),
         calls' \in {calls, <<>>} \/ (calls # <<>> /\ calls' = Tail(calls)),
         wpc' # "render" => calls' = <<>>,
         item # NoItem => wpc' \in {"recheck", "stop", "stopped"}
  PROVE  OrderInv'
<1>1. NumbersTyped
  BY TypedNumbers
<1>2. calls \in Seq(Entries)
  BY DEF Types, WorkerTypes
<1>3. PICK d \in {0, 1} : \A i \in DOMAIN calls' : i + d \in DOMAIN calls /\ calls'[i] = calls[i + d]
  <2>1. CASE calls' = calls
    <3>1. \A i \in DOMAIN calls' : i + 0 \in DOMAIN calls /\ calls'[i] = calls[i + 0]
      BY <1>2, <2>1
    <3> QED
      BY <3>1
  <2>2. CASE calls' = <<>>
    BY <2>2
  <2>3. CASE calls # <<>> /\ calls' = Tail(calls)
    <3>1. \A i \in DOMAIN calls' : i + 1 \in DOMAIN calls /\ calls'[i] = calls[i + 1]
      BY <1>2, <2>3
    <3> QED
      BY <3>1
  <2> QED
    BY <2>1, <2>2, <2>3
<1>4. \A i \in DOMAIN calls' : i \in Nat
  BY <1>2
<1>5. NoGroup.seq = -1 /\ ~(NoGroup.count > 0)
  BY DEF NoGroup
<1>6. QueueInv'
  <2>1. CASE queue' = queue
    BY <2>1 DEF OrderInv, QueueInv
  <2>2. CASE queue' = <<>>
    BY <2>2 DEF QueueInv
  <2> QED
    BY <2>1, <2>2
<1>7. CallsInv'
  <2>1. ASSUME NEW i \in DOMAIN calls', calls'[i].kind \in InOrder
        PROVE  /\ shown'.seq < calls'[i].seq
               /\ OpenGroup' => calls'[i].seq < group'.seq
    BY <1>3, <1>5, <2>1 DEF OrderInv, CallsInv, OpenGroup
  <2>2. ASSUME NEW i \in DOMAIN calls', NEW j \in DOMAIN calls', i < j,
               calls'[i].kind \in InOrder, calls'[j].kind \in InOrder
        PROVE  calls'[i].seq < calls'[j].seq
    <3>1. i + d < j + d
      BY <1>4, <2>2
    <3> QED
      BY <1>3, <2>2, <3>1 DEF OrderInv, CallsInv
  <2>3. OpenGroup' => shown'.seq < group'.seq
    BY <1>5 DEF OrderInv, CallsInv, OpenGroup
  <2> QED
    BY <2>1, <2>2, <2>3 DEF CallsInv
<1>8. \A n \in Nat : WritesBelow(n) => WritesBelow(n)'
  <2>1. ASSUME NEW n \in Nat, WritesBelow(n)
        PROVE  /\ shown'.seq < n /\ group'.seq < n
               /\ \A i \in DOMAIN calls' : calls'[i].kind \in InOrder => calls'[i].seq < n
    BY <1>3, <1>5, <2>1 DEF WritesBelow
  <2> QED
    BY <2>1 DEF WritesBelow
<1>9. \A n \in Ahead' : n \in Ahead
  BY DEF Ahead
<1>10. item' # NoItem => WritesBelow(item.seq)' /\ wpc' \in {"recheck", "stop", "stopped"}
  <2>1. ASSUME item # NoItem
        PROVE  /\ shown'.seq < item'.seq /\ group'.seq < item'.seq
               /\ \A i \in DOMAIN calls' : calls'[i].kind \in InOrder => calls'[i].seq < item'.seq
    BY <1>3, <2>1 DEF OrderInv, WritesBelow
  <2> QED
    BY <2>1 DEF WritesBelow
<1>11. \A n \in Ahead' : WritesBelow(n)' /\ item'.seq < n
  BY <1>1, <1>8, <1>9 DEF OrderInv, NumbersTyped
<1> QED
  BY <1>6, <1>7, <1>10, <1>11 DEF OrderInv

\* Steps that give the worker a fresh sequence of calls.
LEMMA OrderCalls ==
  ASSUME Types, Types', OrderInv, UNCHANGED <<queue, sequence, shown>>, item' = NoItem,
         wpc' # "render" => calls' = <<>>,
         \A n \in Ahead : group'.seq < n /\ WritesIn(calls', shown.seq, n - 1),
         OpenGroup' => shown.seq < group'.seq /\ WritesIn(calls', shown.seq, group'.seq - 1)
  PROVE  OrderInv'
<1>1. NumbersTyped /\ NumbersTyped'
  <2>1. Types' => NumbersTyped'
    BY TypedNumbers, PTL
  <2> QED
    BY <2>1, TypedNumbers
<1>2. \A n \in Int : \A i \in DOMAIN calls' :
         WritesIn(calls', shown.seq, n - 1) /\ calls'[i].kind \in InOrder
         => shown.seq < calls'[i].seq /\ calls'[i].seq < n
  BY <1>1 DEF WritesIn, NumbersTyped
<1>3. sequence \in Ahead /\ sequence \in Nat
  BY <1>1 DEF Ahead, NumbersTyped
<1>4. WritesIn(calls', shown.seq, sequence - 1)
  BY <1>3
<1>5. CallsInv'
  <2>1. ASSUME NEW i \in DOMAIN calls', calls'[i].kind \in InOrder
        PROVE  /\ shown'.seq < calls'[i].seq
               /\ OpenGroup' => calls'[i].seq < group'.seq
    <3>1. shown.seq < calls'[i].seq
      BY <1>2, <1>3, <1>4, <2>1
    <3>2. OpenGroup' => calls'[i].seq < group'.seq
      BY <1>1, <1>2, <2>1 DEF NumbersTyped
    <3> QED
      BY <3>1, <3>2
  <2>2. \A i, j \in DOMAIN calls' :
          i < j /\ calls'[i].kind \in InOrder /\ calls'[j].kind \in InOrder
          => calls'[i].seq < calls'[j].seq
    BY <1>4 DEF WritesIn
  <2> QED
    BY <2>1, <2>2 DEF CallsInv
<1>6. ASSUME NEW n \in Ahead' PROVE WritesBelow(n)' /\ item'.seq < n
  <2>1. n \in Ahead /\ n \in Nat
    BY <1>1 DEF Ahead, NumbersTyped
  <2>2. /\ shown'.seq < n /\ group'.seq < n
        /\ \A i \in DOMAIN calls' : calls'[i].kind \in InOrder => calls'[i].seq < n
    BY <1>2, <2>1 DEF OrderInv, WritesBelow
  <2>3. item'.seq < n
    BY <2>1 DEF NoItem
  <2> QED
    BY <2>2, <2>3 DEF WritesBelow
<1>7. QueueInv'
  BY DEF OrderInv, QueueInv
<1> QED
  BY <1>5, <1>6, <1>7 DEF OrderInv

LEMMA OrderWorker ==
  ASSUME Types, Types', OrderInv, WorkerStep
  PROVE  OrderInv'
<1> USE DEF Idle
<1>0. NumbersTyped
  BY TypedNumbers
<1>g. /\ GroupCalls \in Seq(Entries) /\ <<Transient>> \in Seq(Entries) /\ <<>> \in Seq(Entries)
      /\ Transient.kind \notin InOrder /\ Transient \in Entries
  BY EntriesTyped, TypesSplit DEF PlaceTypes, Transient, Entry, InOrder
<1>b. \A n \in Ahead : n \in Nat /\ shown.seq <= n - 1 /\ group.seq < n
  BY <1>0 DEF OrderInv, WritesBelow, NumbersTyped
<1>c. \A n \in Ahead : WritesIn(GroupCalls, shown.seq, n - 1)
  <2>1. ASSUME NEW n \in Ahead PROVE WritesIn(GroupCalls, shown.seq, n - 1)
    <3>1. OpenGroup => shown.seq < group.seq /\ group.seq <= n - 1
      BY <1>0, <1>b DEF OrderInv, CallsInv, NumbersTyped
    <3> QED
      BY <1>0, <1>b, <3>1, WritesGroup DEF NumbersTyped
  <2> QED
    BY <2>1
<1>t. \A x \in Int, y \in Int : WritesIn(<<>>, x, y) /\ WritesIn(<<Transient>>, x, y)
  BY <1>g, WritesNone, WritesOne
<1>n. NoGroup.seq = -1 /\ ~(NoGroup.count > 0)
  BY DEF NoGroup
<1>1. CASE StopOnEmergency
  BY <1>1, OrderDrops DEF StopOnEmergency, Drain, OrderInv, session
<1>2. CASE Due
  <2>1. wpc = "top" /\ item = NoItem /\ calls = <<>>
    BY <1>2 DEF Due, OrderInv
  <2>2. \/ calls' \in {<<>>, <<Transient>>} /\ group' = group
        \/ calls' = GroupCalls /\ group' = NoGroup
    <3>1. CASE deadline # "due"
      BY <1>2, <3>1 DEF Due
    <3>2. CASE deadline = "due" /\ Mode = "interactive"
      BY <1>2, <3>2 DEF Due
    <3>3. CASE deadline = "due" /\ Mode # "interactive"
      BY <1>2, <3>3 DEF Due, CloseGroup
    <3> QED
      BY <3>1, <3>2, <3>3
  <2>3. \A n \in Ahead : group'.seq < n /\ WritesIn(calls', shown.seq, n - 1)
    BY <1>0, <1>b, <1>c, <1>t, <1>n, <2>2 DEF NumbersTyped
  <2>4. OpenGroup' => shown.seq < group'.seq /\ WritesIn(calls', shown.seq, group'.seq - 1)
    <3>1. OpenGroup' => /\ calls' \in {<<>>, <<Transient>>} /\ group' = group /\ OpenGroup
      BY <1>n, <2>2 DEF OpenGroup
    <3> QED
      BY <1>0, <1>t, <3>1 DEF OrderInv, CallsInv, NumbersTyped
  <2>5. UNCHANGED <<queue, sequence, shown>> /\ item' = NoItem
    BY <1>2, <2>1 DEF Due, mailbox
  <2>6. wpc' # "render" => calls' = <<>>
    BY <1>2 DEF Due
  <2> QED
    BY <2>3, <2>4, <2>5, <2>6, OrderCalls
<1>3. CASE Take
  <2>1. calls = <<>> /\ wpc = "take" /\ item = NoItem
    BY <1>3 DEF Take, OrderInv
  <2>2. CASE PopOldest /\ item' = Head(queue) /\ wpc' = "recheck"
    <3>1. queue \in Seq(Admissions) /\ queue # <<>>
      BY <2>2 DEF PopOldest, Types, TypeOK, MailboxTypeOK, Admissions
    <3>2. /\ queue' = Tail(queue) /\ Head(queue) = queue[1] /\ 1 \in DOMAIN queue
          /\ DOMAIN queue = 1..Len(queue) /\ Len(queue) \in Nat
          /\ DOMAIN queue' = 1..(Len(queue) - 1)
          /\ \A i \in DOMAIN queue' : i + 1 \in DOMAIN queue /\ queue'[i] = queue[i + 1]
      BY <2>2, <3>1 DEF PopOldest
    <3>3. UNCHANGED <<sequence, group, calls, shown>>
      BY <1>3, <2>2 DEF Take, PopOldest, display
    <3>4. QueueInv'
      <4>1. ASSUME NEW i \in DOMAIN queue', NEW j \in DOMAIN queue', i < j
            PROVE  queue'[i].seq < queue'[j].seq
        <5>1. i + 1 < j + 1
          BY <3>2, <4>1
        <5> QED
          BY <3>2, <5>1 DEF OrderInv, QueueInv
      <4>2. ASSUME NEW i \in DOMAIN queue' PROVE queue'[i].seq < sequence'
        BY <3>2, <3>3 DEF OrderInv, QueueInv
      <4>3. ASSUME NEW i \in DOMAIN queue', NEW j \in DOMAIN queue',
                   queue'[i].event.kind = "prefix", queue'[j].event.kind = "prefix",
                   queue'[i].event.stream = queue'[j].event.stream,
                   queue'[i].event.step = queue'[j].event.step
            PROVE  i = j
        <5>1. i + 1 = j + 1
          BY <3>2, <4>3 DEF OrderInv, QueueInv
        <5> QED
          BY <3>2, <5>1
      <4> QED
        BY <4>1, <4>2, <4>3 DEF QueueInv
    <3>5. ASSUME NEW n \in Ahead' PROVE n \in Ahead /\ queue[1].seq < n
      <4>1. CASE n = sequence
        BY <3>2, <4>1 DEF OrderInv, QueueInv, Ahead
      <4>2. ASSUME NEW i \in DOMAIN queue', n = queue'[i].seq PROVE n \in Ahead /\ queue[1].seq < n
        <5>1. i + 1 \in DOMAIN queue /\ 1 < i + 1 /\ n = queue[i + 1].seq
          BY <3>2, <4>2
        <5> QED
          BY <3>2, <5>1 DEF OrderInv, QueueInv, Ahead
      <4> QED
        BY <3>3, <3>5, <4>1, <4>2 DEF Ahead
    <3>6. \A n \in Ahead' : WritesBelow(n)' /\ item'.seq < n
      BY <2>2, <3>2, <3>3, <3>5 DEF OrderInv, WritesBelow
    <3>7. WritesBelow(queue[1].seq)
      BY <3>2 DEF OrderInv, Ahead
    <3>8. WritesBelow(item.seq)'
      BY <2>2, <3>2, <3>3, <3>7 DEF WritesBelow
    <3>9. CallsInv'
      BY <3>3 DEF OrderInv, CallsInv, OpenGroup
    <3> QED
      BY <2>1, <2>2, <3>3, <3>4, <3>6, <3>8, <3>9 DEF OrderInv
  <2>3. CASE ~(PopOldest /\ item' = Head(queue) /\ wpc' = "recheck")
    <3>1. UNCHANGED <<queue, sequence, shown, group, calls, item>> /\ wpc' # "render"
      BY <1>3, <2>1, <2>3 DEF Take, Park, mailbox, display
    <3> QED
      BY <2>1, <3>1, OrderDrops
  <2> QED
    BY <2>2, <2>3
<1>4. CASE Wake
  BY <1>4, OrderDrops DEF Wake, OrderInv, display
<1>5. CASE CloseOut
  <2>1. wpc = "recheck" /\ item = NoItem /\ calls = <<>> /\ item' = NoItem
    BY <1>5 DEF CloseOut, OrderInv
  <2>2. CASE ~closed
    BY <1>5, <2>1, <2>2, OrderDrops DEF CloseOut, mailbox, display
  <2>3. CASE closed
    <3>1. UNCHANGED <<queue, sequence, shown>> /\ group' = NoGroup /\ wpc' = "render"
      BY <1>5, <2>3 DEF CloseOut, TakeNotice, CloseGroup
    <3>2. /\ <<NoticeEntry>> \in Seq(Entries)
          /\ \A x \in Int, y \in Int : WritesIn(<<NoticeEntry>>, x, y)
      BY <2>1, EntriesTyped, WritesNotice, TypesSplit DEF PlaceTypes
    <3>3. ASSUME NEW n \in Ahead PROVE WritesIn(calls', shown.seq, n - 1)
      <4>1. shown.seq \in Int /\ n - 1 \in Int /\ shown.seq <= n - 1 /\ n - 1 <= n - 1
        BY <1>0, <1>b DEF NumbersTyped
      <4>2. /\ WritesIn(GroupCalls \o <<NoticeEntry>>, shown.seq, n - 1)
            /\ GroupCalls \o <<NoticeEntry>> \in Seq(Entries)
        BY <1>c, <1>g, <3>2, <4>1, WritesJoin, ConcatTyped
      <4>3. /\ WritesIn(GroupCalls \o <<>>, shown.seq, n - 1)
            /\ GroupCalls \o <<>> \in Seq(Entries)
        BY <1>c, <1>g, <1>t, <4>1, WritesJoin, ConcatTyped
      <4>4. WritesIn(<<Transient>>, n - 1, n - 1)
        BY <1>t, <4>1
      <4>5. WritesIn(GroupCalls \o <<NoticeEntry>> \o <<Transient>>, shown.seq, n - 1)
        BY <1>g, <4>1, <4>2, <4>4, WritesJoin
      <4>6. WritesIn(GroupCalls \o <<>> \o <<Transient>>, shown.seq, n - 1)
        BY <1>g, <4>1, <4>3, <4>4, WritesJoin
      <4> QED
        BY <1>5, <2>3, <4>5, <4>6 DEF CloseOut
    <3>4. \A n \in Ahead : group'.seq < n
      BY <1>b, <1>n, <3>1
    <3>5. ~OpenGroup'
      BY <1>n, <3>1 DEF OpenGroup
    <3> QED
      BY <2>1, <3>1, <3>3, <3>4, <3>5, OrderCalls
  <2> QED
    BY <2>2, <2>3
<1>6. CASE Dispatch
  <2>1. /\ item # NoItem /\ wpc = "recheck" /\ item \in Items /\ Show(item)
        /\ shown.seq < item.seq /\ group.seq < item.seq
    BY <1>6, TypesSplit DEF Dispatch, OrderInv, WritesBelow, PlaceTypes
  <2>2. /\ WritesIn(calls', shown.seq, item.seq)
        /\ group'.seq \in {group.seq, -1, item.seq}
        /\ OpenGroup' => shown.seq < group'.seq /\ WritesIn(calls', shown.seq, group'.seq - 1)
    BY <2>1, ShowOrder DEF OrderInv
  <2>3. UNCHANGED <<queue, sequence, shown>> /\ item' = NoItem
        /\ (wpc' # "render" => calls' = <<>>)
    BY <1>6 DEF Dispatch, TakeNotice, mailbox
  <2>4. calls' \in Seq(Entries)
    BY DEF Types, WorkerTypes
  <2>5. ASSUME NEW n \in Ahead PROVE group'.seq < n /\ WritesIn(calls', shown.seq, n - 1)
    <3>1. item.seq < n /\ item.seq \in Int /\ n \in Nat /\ group.seq < n /\ shown.seq \in Int
      BY <1>0, <1>b DEF OrderInv, NumbersTyped
    <3>2. item.seq <= n - 1 /\ n - 1 \in Int
      BY <3>1
    <3> QED
      BY <2>2, <2>4, <3>1, <3>2, WritesUpTo
  <2> QED
    BY <2>2, <2>3, <2>5, OrderCalls
<1>7. CASE Render
  <2>1. wpc = "render" /\ item = NoItem
    BY <1>7 DEF Render, OrderInv
  <2>2. CASE calls = <<>> \/ failed \/ cancelled
    BY <1>7, <2>1, <2>2, OrderDrops DEF Render, mailbox, display
  <2>3. CASE ~(calls = <<>> \/ failed \/ cancelled)
    <3>1. /\ calls # <<>> /\ calls' = Tail(calls) /\ shown' = Written(Head(calls))
          /\ UNCHANGED <<queue, sequence, item, group>> /\ (wpc' # "render" => calls' = <<>>)
      BY <1>7, <2>1, <2>3 DEF Render, mailbox, display
    <3>2. calls \in Seq(Entries)
      BY DEF Types, WorkerTypes
    <3>3. /\ Head(calls) = calls[1] /\ 1 \in DOMAIN calls
          /\ \A i \in DOMAIN calls' : /\ i + 1 \in DOMAIN calls /\ calls'[i] = calls[i + 1]
                                    /\ i \in Nat /\ 1 < i + 1
      BY <3>1, <3>2
    <3>4. shown'.seq = IF calls[1].kind \in InOrder THEN calls[1].seq ELSE shown.seq
      BY <3>1, <3>3 DEF Written
    <3>5. CallsInv'
      <4>1. ASSUME NEW i \in DOMAIN calls', calls'[i].kind \in InOrder
            PROVE  shown'.seq < calls'[i].seq
        BY <3>3, <3>4, <4>1 DEF OrderInv, CallsInv
      <4>2. ASSUME NEW i \in DOMAIN calls', NEW j \in DOMAIN calls', i < j,
                   calls'[i].kind \in InOrder, calls'[j].kind \in InOrder
            PROVE  calls'[i].seq < calls'[j].seq
        <5>1. i + 1 < j + 1
          BY <3>3, <4>2
        <5> QED
          BY <3>3, <4>2, <5>1 DEF OrderInv, CallsInv
      <4>3. OpenGroup' => /\ shown'.seq < group'.seq
                          /\ \A i \in DOMAIN calls' :
                                calls'[i].kind \in InOrder => calls'[i].seq < group'.seq
        BY <3>1, <3>3, <3>4 DEF OrderInv, CallsInv, OpenGroup
      <4> QED
        BY <4>1, <4>2, <4>3 DEF CallsInv
    <3>6. QueueInv' /\ Ahead' = Ahead
      BY <3>1 DEF OrderInv, QueueInv, Ahead
    <3>7. \A n \in Ahead' : WritesBelow(n)' /\ item'.seq < n
      BY <3>1, <3>3, <3>4, <3>6 DEF OrderInv, WritesBelow
    <3> QED
      BY <2>1, <3>1, <3>5, <3>6, <3>7 DEF OrderInv
  <2> QED
    BY <2>2, <2>3
<1>8. CASE RenderFails
  <2>1. wpc = "render" /\ item = NoItem
    BY <1>8 DEF RenderFails, OrderInv
  <2> QED
    BY <1>8, <2>1, OrderDrops DEF RenderFails, CloseGroup, mailbox
<1>9. CASE WorkerStops
  BY <1>9, OrderDrops DEF WorkerStops, OrderInv, mailbox, display
<1> QED
  BY <1>1, <1>2, <1>3, <1>4, <1>5, <1>6, <1>7, <1>8, <1>9 DEF WorkerStep

LEMMA OrderSession ==
  ASSUME Types, OrderInv, SessionStep
  PROVE  OrderInv'
<1> USE DEF Facade
<1>1. CASE SubmitFinalReport
  <2>1. Event("report") \in Events
    BY EventTyped DEF EventKinds, ControlKinds
  <2> QED
    BY <1>1, <2>1, OrderAdmit DEF SubmitFinalReport, display, worker
<1>2. CASE ~SubmitFinalReport
  <2>1. /\ UNCHANGED <<queue, sequence, shown, item, group, calls, wpc>>
    BY <1>2 DEF SessionStep, Shutdown, Close, Judge, Expire, CancelDisplay, Signal,
       SignalEmergency, mailbox, display, worker
  <2>2. /\ wpc' # "render" => calls' = <<>>
        /\ item # NoItem => wpc' \in {"recheck", "stop", "stopped"}
    BY <2>1 DEF OrderInv
  <2> QED
    BY <2>1, <2>2, OrderDrops
<1> QED
  BY <1>1, <1>2

\* Whatever a producer does, it offers one event.
LEMMA ProducedEvent ==
  ASSUME Types, ProducerStep
  PROVE  \E event \in Events : Produce(event)
<1>0. lineNo \in [Streams -> Nat] /\ step \in [Streams -> Nat]
  BY TypesSplit DEF OtherTypes
<1>1. ASSUME NEW s \in Streams, ReadLine(s) PROVE \E event \in Events : Produce(event)
  <2>0. lineNo[s] \in Nat /\ step[s] \in Nat
    BY <1>0
  <2>1. StreamEvent("boundary", s, NoText, TRUE) \in Events
    BY <2>0 DEF StreamEvent, Events, TelemetryKinds
  <2>2. \A text \in Texts : StreamEvent("diagnostic", s, text, FALSE) \in Events
    BY <2>0 DEF StreamEvent, Events, TelemetryKinds
  <2> QED
    BY <1>1, <2>1, <2>2 DEF ReadLine
<1>2. ASSUME NEW s \in Streams, NEW oversized \in BOOLEAN, ReadPart(s, oversized)
      PROVE  \E event \in Events : Produce(event)
  <2>0. lineNo[s] \in Nat /\ step[s] \in Nat
    BY <1>0
  <2>1. StreamEvent("prefix", s, NoText, oversized) \in Events
    BY <2>0 DEF StreamEvent, Events, TelemetryKinds
  <2> QED
    BY <1>2, <2>1 DEF ReadPart
<1>3. ASSUME EmitStatus PROVE \E event \in Events : Produce(event)
  <2>1. Event("status") \in Events
    BY EventTyped DEF EventKinds, TelemetryKinds
  <2> QED
    BY <1>3, <2>1 DEF EmitStatus
<1>4. ASSUME EmitControl PROVE \E event \in Events : Produce(event)
  <2>1. \A kind \in {"step", "phase", "ended"} : Event(kind) \in Events
    BY EventTyped DEF EventKinds, ControlKinds
  <2> QED
    BY <1>4, <2>1 DEF EmitControl
<1> QED
  BY <1>1, <1>2, <1>3, <1>4 DEF ProducerStep

LEMMA OrderProducer ==
  ASSUME Types, OrderInv, ProducerStep
  PROVE  OrderInv'
<1>1. PICK event \in Events : Produce(event)
  BY ProducedEvent
<1> QED
  BY <1>1, OrderAdmit DEF Produce, display, worker

LEMMA OrderStep == Types /\ OrderInv /\ [Next]_vars => OrderInv'
<1> SUFFICES ASSUME Types, OrderInv, [Next]_vars PROVE OrderInv'
  OBVIOUS
<1>1. CASE WorkerStep
  <2>1. Types'
    BY <1>1, TypesWorker
  <2> QED
    BY <1>1, <2>1, OrderWorker
<1>2. CASE TimePasses \/ UNCHANGED vars
  <2>1. UNCHANGED <<queue, sequence, shown, item, group, calls, wpc>>
    BY <1>2 DEF TimePasses, vars, mailbox, display, worker
  <2>2. /\ wpc' # "render" => calls' = <<>>
        /\ item # NoItem => wpc' \in {"recheck", "stop", "stopped"}
    BY <2>1 DEF OrderInv
  <2> QED
    BY <2>1, <2>2, OrderDrops
<1> QED
  BY <1>1, <1>2, OrderSession, OrderProducer DEF Next

LEMMA OrderHolds == Spec => [](Types /\ OrderInv)
BY TypesInit, TypesStep, OrderInit, OrderStep, PTL DEF Spec

\* The inbox keeps the order of admission and one replaceable prefix of a
\* stream in a step at most, through supersession, drops, overflow and emergencies.
THEOREM InboxOrdered == Spec => []QueueOrdered
<1>1. OrderInv => QueueOrdered
  BY DEF OrderInv, QueueInv, QueueOrdered, Replaceable
<1> QED
  BY <1>1, OrderHolds, PTL

\* Whatever is grouped, dropped, replaced or closed, durable output follows the
\* order of admission, in every mode and for any capacities.
THEOREM OutputInOrder == Spec => []DurableInOrder
<1>1. Types /\ OrderInv => DurableInOrder
  <2> SUFFICES ASSUME Types, OrderInv, Writing, Head(calls).kind \in InOrder
               PROVE  Head(calls).seq > shown.seq
    BY DEF DurableInOrder
  <2>1. calls \in Seq(Entries) /\ calls # <<>>
    BY DEF Types, WorkerTypes, Writing
  <2>2. Head(calls) = calls[1] /\ 1 \in DOMAIN calls
    BY <2>1
  <2>3. shown.seq < calls[1].seq
    BY <2>2 DEF OrderInv, CallsInv
  <2>4. shown.seq \in Int /\ calls[1].seq \in Int
    BY <2>2, TypedNumbers DEF NumbersTyped
  <2> QED
    BY <2>2, <2>3, <2>4
<1> QED
  BY <1>1, OrderHolds, PTL

----------------------------------------------------------------------------
(* What the calls still to be made will add to the omissions told, to the  *)
(* occurrences counted and to the notices that say "at least".  There are  *)
(* never more than four calls, so the sum over them is written out.        *)

Sums == {"told", "counted", "vague"}
Worth(m, e) ==
  CASE m = "counted" -> Counted(e)
    [] m = "told" -> IF e.kind \in {"notice", "at_least"} THEN e.count ELSE 0
    [] m = "vague" -> IF e.kind = "at_least" THEN 1 ELSE 0
At(m, c, i) == IF i \in DOMAIN c THEN Worth(m, c[i]) ELSE 0
Sum(m, c) == At(m, c, 1) + At(m, c, 2) + At(m, c, 3) + At(m, c, 4)

Live == ~failed /\ ~cancelled
Diagnostics == {i \in DOMAIN queue : queue[i].event.kind = "diagnostic"}
Taken == IF wpc = "recheck" /\ item.event.kind = "diagnostic" THEN 1 ELSE 0
Open == IF group.count = 0 THEN 0
        ELSE IF Mode = "interactive" THEN group.count ELSE group.count - 1

FewCalls == Len(calls) <= 4
\* While the display works: what was told, is about to be and is pending.
ToldInv ==
  LET told == shown.told + Sum("told", calls) + omissions.count
  IN Live => IF omissions.uncertain \/ shown.vague \/ Sum("vague", calls) > 0
             THEN told < dropped ELSE told = dropped
\* While the display works: where the admitted occurrences are.
CountInv ==
  Live => admitted = Cardinality(Diagnostics) + Taken + Open + replaced
                     + shown.count + Sum("counted", calls)
\* From the closing round on nothing is pending and nothing more comes.
Ending == (wpc = "render" /\ after = "stop") \/ wpc \in {"stop", "stopped"}
EndInv ==
  /\ Ending /\ ~failed => closed /\ omissions.count = 0 /\ group.count = 0
  /\ verdict = "healthy" => wpc = "stopped"

AccountInv == FewCalls /\ ToldInv /\ CountInv /\ EndInv

LEMMA WorthTyped ==
  ASSUME NEW e \in Entries, NEW m \in Sums
  PROVE  Worth(m, e) \in Int
BY DEF Worth, Counted, Entries, Sums

LEMMA AtTyped ==
  ASSUME NEW c \in Seq(Entries), NEW m \in Sums, NEW i \in Nat
  PROVE  /\ At(m, c, i) \in Int
         /\ i > Len(c) => At(m, c, i) = 0
<1>1. \A k \in DOMAIN c : Worth(m, c[k]) \in Int
  BY WorthTyped
<1> QED
  BY <1>1 DEF At

LEMMA SumTyped ==
  ASSUME NEW c \in Seq(Entries), NEW m \in Sums
  PROVE  Sum(m, c) \in Int
<1>1. \A i \in 1..4 : At(m, c, i) \in Int
  BY AtTyped
<1> QED
  BY <1>1 DEF Sum

LEMMA VagueTyped ==
  ASSUME NEW c \in Seq(Entries)
  PROVE  Sum("vague", c) >= 0
<1>1. \A i \in 1..4 : At("vague", c, i) \in {0, 1}
  BY DEF At, Worth
<1> QED
  BY <1>1 DEF Sum

LEMMA SumNone == \A m \in Sums : Sum(m, <<>>) = 0
BY DEF Sum, At

LEMMA SumOne ==
  ASSUME NEW e \in Entries, NEW m \in Sums
  PROVE  Sum(m, <<e>>) = Worth(m, e)
<1>1. DOMAIN <<e>> = {1} /\ <<e>>[1] = e
  OBVIOUS
<1>2. Worth(m, e) \in Int
  BY WorthTyped
<1>3. At(m, <<e>>, 1) = Worth(m, e) /\ At(m, <<e>>, 2) = 0
      /\ At(m, <<e>>, 3) = 0 /\ At(m, <<e>>, 4) = 0
  BY <1>1 DEF At
<1> QED
  BY <1>2, <1>3 DEF Sum

LEMMA AtJoin ==
  ASSUME NEW a \in Seq(Entries), NEW b \in Seq(Entries), NEW m \in Sums, NEW i \in 1..4
  PROVE  At(m, a \o b, i) = IF i <= Len(a) THEN At(m, a, i) ELSE At(m, b, i - Len(a))
<1>1. /\ Len(a) \in Nat /\ Len(b) \in Nat
      /\ DOMAIN a = 1..Len(a) /\ DOMAIN b = 1..Len(b)
      /\ DOMAIN (a \o b) = 1..(Len(a) + Len(b))
      /\ \A k \in 1..(Len(a) + Len(b)) :
            (a \o b)[k] = IF k <= Len(a) THEN a[k] ELSE b[k - Len(a)]
  OBVIOUS
<1>2. CASE i <= Len(a)
  BY <1>1, <1>2 DEF At
<1>3. CASE i > Len(a)
  <2>1. i \in DOMAIN (a \o b) <=> i - Len(a) \in DOMAIN b
    BY <1>1, <1>3
  <2>2. i \in DOMAIN (a \o b) => (a \o b)[i] = b[i - Len(a)]
    BY <1>1, <1>3
  <2> QED
    BY <1>1, <1>3, <2>1, <2>2 DEF At
<1> QED
  BY <1>1, <1>2, <1>3

LEMMA SumJoin ==
  ASSUME NEW a \in Seq(Entries), NEW b \in Seq(Entries), Len(a) + Len(b) <= 4
  PROVE  /\ \A m \in Sums : Sum(m, a \o b) = Sum(m, a) + Sum(m, b)
         /\ Len(a \o b) = Len(a) + Len(b) /\ a \o b \in Seq(Entries)
<1>1. ASSUME NEW m \in Sums
      PROVE  Sum(m, a \o b) = Sum(m, a) + Sum(m, b)
  <2>1. /\ At(m, a \o b, 1) = IF 1 <= Len(a) THEN At(m, a, 1) ELSE At(m, b, 1 - Len(a))
        /\ At(m, a \o b, 2) = IF 2 <= Len(a) THEN At(m, a, 2) ELSE At(m, b, 2 - Len(a))
        /\ At(m, a \o b, 3) = IF 3 <= Len(a) THEN At(m, a, 3) ELSE At(m, b, 3 - Len(a))
        /\ At(m, a \o b, 4) = IF 4 <= Len(a) THEN At(m, a, 4) ELSE At(m, b, 4 - Len(a))
    BY AtJoin
  <2>2. \A i \in 1..4 : At(m, a, i) \in Int /\ (i > Len(a) => At(m, a, i) = 0)
    BY AtTyped
  <2>3. \A i \in 1..4 : At(m, b, i) \in Int /\ (i > Len(b) => At(m, b, i) = 0)
    BY AtTyped
  <2>4. Len(a) \in 0..4 /\ Len(b) \in 0..4
    <3>1. Len(a) \in Nat /\ Len(b) \in Nat
      BY LenProperties
    <3>2. \A x, y \in Nat : x + y <= 4 => x \in 0..4 /\ y \in 0..4
      OBVIOUS
    <3> QED
      BY <3>1, <3>2
  <2>5. CASE Len(a) = 0
    <3>1. At(m, a, 1) = 0 /\ At(m, a, 2) = 0 /\ At(m, a, 3) = 0 /\ At(m, a, 4) = 0
      BY <2>2, <2>5
    <3> QED
      BY <2>1, <2>2, <2>3, <2>5, <3>1 DEF Sum
  <2>6. CASE Len(a) = 1
    <3>1. At(m, a, 2) = 0 /\ At(m, a, 3) = 0 /\ At(m, a, 4) = 0 /\ At(m, b, 4) = 0
      BY <2>2, <2>3, <2>4, <2>6
    <3> QED
      BY <2>1, <2>2, <2>3, <2>6, <3>1 DEF Sum
  <2>7. CASE Len(a) = 2
    <3>1. At(m, a, 3) = 0 /\ At(m, a, 4) = 0 /\ At(m, b, 3) = 0 /\ At(m, b, 4) = 0
      BY <2>2, <2>3, <2>4, <2>7
    <3> QED
      BY <2>1, <2>2, <2>3, <2>7, <3>1 DEF Sum
  <2>8. CASE Len(a) = 3
    <3>1. At(m, a, 4) = 0 /\ At(m, b, 2) = 0 /\ At(m, b, 3) = 0 /\ At(m, b, 4) = 0
      BY <2>2, <2>3, <2>4, <2>8
    <3> QED
      BY <2>1, <2>2, <2>3, <2>8, <3>1 DEF Sum
  <2>9. CASE Len(a) = 4
    <3>1. At(m, b, 1) = 0 /\ At(m, b, 2) = 0 /\ At(m, b, 3) = 0 /\ At(m, b, 4) = 0
      BY <2>3, <2>4, <2>9
    <3> QED
      BY <2>1, <2>2, <2>3, <2>9, <3>1 DEF Sum
  <2> QED
    BY <2>4, <2>5, <2>6, <2>7, <2>8, <2>9
<1>2. Len(a \o b) = Len(a) + Len(b)
  OBVIOUS
<1> QED
  BY <1>1, <1>2, ConcatTyped

LEMMA SumTail ==
  ASSUME NEW c \in Seq(Entries), c # <<>>, Len(c) <= 4
  PROVE  /\ \A m \in Sums : Sum(m, c) = Worth(m, Head(c)) + Sum(m, Tail(c))
         /\ Len(Tail(c)) <= 4 /\ Tail(c) \in Seq(Entries) /\ Head(c) \in Entries
<1> DEFINE a == <<Head(c)>>  b == Tail(c)
<1>1. /\ Head(c) \in Entries /\ b \in Seq(Entries) /\ a \in Seq(Entries)
      /\ c = a \o b /\ Len(a) = 1 /\ Len(b) = Len(c) - 1 /\ Len(c) \in Nat
  BY HeadTailProperties
<1>2. \A m \in Sums : Sum(m, a) = Worth(m, Head(c))
  BY <1>1, SumOne
<1>3. Len(a) + Len(b) <= 4 /\ Len(b) <= 4
  BY <1>1
<1> HIDE DEF a, b
<1>4. \A m \in Sums : Sum(m, a \o b) = Sum(m, a) + Sum(m, b)
  BY <1>1, <1>3, SumJoin
<1> QED
  BY <1>1, <1>2, <1>3, <1>4 DEF b

----------------------------------------------------------------------------
(* The diagnostics in the queue.                                           *)

DiagnosticsIn(q) == {i \in DOMAIN q : q[i].event.kind = "diagnostic"}
OneIf(event) == IF event.kind = "diagnostic" THEN 1 ELSE 0

LEMMA DiagnosticsFinite ==
  ASSUME NEW q \in Seq(Admissions)
  PROVE  IsFiniteSet(DiagnosticsIn(q)) /\ Cardinality(DiagnosticsIn(q)) \in Nat
<1>1. DiagnosticsIn(q) \in SUBSET (1..Len(q)) /\ Len(q) \in Nat
  BY DEF DiagnosticsIn
<1>2. IsFiniteSet(1..Len(q))
  BY <1>1, FS_Interval
<1> QED
  BY <1>1, <1>2, FS_Subset, FS_CardinalityType

LEMMA DiagnosticsAppend ==
  ASSUME NEW q \in Seq(Admissions), NEW x \in Admissions
  PROVE  Cardinality(DiagnosticsIn(Append(q, x)))
            = Cardinality(DiagnosticsIn(q)) + OneIf(x.event)
<1>1. /\ DOMAIN q = 1..Len(q) /\ Len(q) \in Nat
      /\ DOMAIN Append(q, x) = 1..Len(q) + 1
      /\ \A i \in 1..Len(q) : Append(q, x)[i] = q[i]
      /\ Append(q, x)[Len(q) + 1] = x
  OBVIOUS
<1>2. Len(q) + 1 \notin DiagnosticsIn(q)
  BY <1>1 DEF DiagnosticsIn
<1>3. CASE x.event.kind = "diagnostic"
  <2>1. DiagnosticsIn(Append(q, x)) = DiagnosticsIn(q) \cup {Len(q) + 1}
    BY <1>1, <1>3 DEF DiagnosticsIn
  <2> QED
    BY <2>1, <1>2, <1>3, DiagnosticsFinite, FS_AddElement DEF OneIf
<1>4. CASE x.event.kind # "diagnostic"
  <2>1. DiagnosticsIn(Append(q, x)) = DiagnosticsIn(q)
    BY <1>1, <1>4 DEF DiagnosticsIn
  <2> QED
    BY <2>1, <1>4, DiagnosticsFinite DEF OneIf
<1> QED
  BY <1>3, <1>4

LEMMA DiagnosticsTail ==
  ASSUME NEW q \in Seq(Admissions), q # <<>>
  PROVE  Cardinality(DiagnosticsIn(q))
            = Cardinality(DiagnosticsIn(Tail(q))) + OneIf(Head(q).event)
<1> DEFINE rest == DiagnosticsIn(q) \ {1}
           shift == [i \in rest |-> i - 1]
<1>1. /\ DOMAIN q = 1..Len(q) /\ Len(q) \in Nat \ {0} /\ Head(q) = q[1]
      /\ Tail(q) \in Seq(Admissions)
      /\ DOMAIN Tail(q) = 1..Len(q) - 1
      /\ \A i \in 1..Len(q) - 1 : Tail(q)[i] = q[i + 1]
  OBVIOUS
<1>2. /\ IsFiniteSet(rest)
      /\ Cardinality(rest) = Cardinality(DiagnosticsIn(q)) - OneIf(Head(q).event)
  <2>1. 1 \in DiagnosticsIn(q) <=> Head(q).event.kind = "diagnostic"
    BY <1>1 DEF DiagnosticsIn
  <2>2. IsFiniteSet(rest)
        /\ Cardinality(rest) = IF 1 \in DiagnosticsIn(q) THEN Cardinality(DiagnosticsIn(q)) - 1
                               ELSE Cardinality(DiagnosticsIn(q))
    BY DiagnosticsFinite, FS_RemoveElement
  <2> QED
    BY <2>1, <2>2, DiagnosticsFinite DEF OneIf
<1>3. shift \in Bijection(rest, DiagnosticsIn(Tail(q)))
  <2>1. \A i \in rest : i \in 2..Len(q) /\ q[i].event.kind = "diagnostic"
    BY <1>1 DEF DiagnosticsIn
  <2>2. \A i \in rest : i - 1 \in 1..Len(q) - 1 /\ Tail(q)[i - 1].event.kind = "diagnostic"
    BY <2>1, <1>1
  <2>3. shift \in [rest -> DiagnosticsIn(Tail(q))]
    BY <2>2, <1>1 DEF DiagnosticsIn
  <2>4. \A i, j \in rest : shift[i] = shift[j] => i = j
    BY <2>1
  <2>5. \A k \in DiagnosticsIn(Tail(q)) : k + 1 \in rest /\ shift[k + 1] = k
    BY <1>1 DEF DiagnosticsIn
  <2> QED
    BY <2>3, <2>4, <2>5 DEF Bijection, Injection, IsInjective, Surjection
<1>4. Cardinality(rest) = Cardinality(DiagnosticsIn(Tail(q)))
  BY <1>2, <1>3, FS_Bijection DEF ExistsBijection
<1>5. Cardinality(DiagnosticsIn(q)) \in Nat /\ Cardinality(DiagnosticsIn(Tail(q))) \in Nat
  BY <1>1, DiagnosticsFinite
<1> QED
  BY <1>2, <1>4, <1>5 DEF OneIf

\* An admission counts the diagnostics that enter the queue; none leaves it,
\* and one that does not enter is dropped or rejected.
LEMMA DiagnosticsAdmit ==
  ASSUME Types, NEW event \in Events, Admit(event)
  PROVE  /\ Cardinality(Diagnostics')
              = Cardinality(Diagnostics)
                  + (IF event.kind = "diagnostic" /\ Len(queue') > Len(queue) THEN 1 ELSE 0)
         /\ Cardinality(Diagnostics) \in Nat
<1>t. queue \in Seq(Admissions) /\ sequence \in Nat
  BY DEF Types, TypeOK, MailboxTypeOK, Admissions
<1>d. Diagnostics = DiagnosticsIn(queue) /\ Diagnostics' = DiagnosticsIn(queue')
  BY DEF Diagnostics, DiagnosticsIn
<1>n. Cardinality(Diagnostics) \in Nat
  BY <1>t, <1>d, DiagnosticsFinite
<1>1. CASE Enqueue(event)
  <2>1. Admitted(event, sequence) \in Admissions /\ Admitted(event, sequence).event = event
    BY <1>t DEF Admitted, Admissions
  <2>2. queue' = Append(queue, Admitted(event, sequence))
    BY <1>1 DEF Enqueue
  <2>3. Len(queue') = Len(queue) + 1 /\ Len(queue) \in Nat
    BY <1>t, <2>1, <2>2
  <2> QED
    BY <1>t, <1>d, <1>n, <2>1, <2>2, <2>3, DiagnosticsAppend DEF OneIf
<1>2. CASE Supersede(event)
  <2>1. PICK i \in DOMAIN queue : /\ queue[i].event.kind = "prefix" /\ event.kind = "prefix"
                                  /\ queue' = [queue EXCEPT ![i].event = event]
    BY <1>2 DEF Supersede, Replaceable
  <2>2. /\ DOMAIN queue' = DOMAIN queue
        /\ \A j \in DOMAIN queue : queue'[j].event = IF j = i THEN event ELSE queue[j].event
    <3>1. queue[i] \in Admissions
      BY <1>t
    <3>2. [queue[i] EXCEPT !.event = event].event = event
      BY <3>1 DEF Admissions
    <3>3. queue' = [queue EXCEPT ![i] = [queue[i] EXCEPT !.event = event]]
      BY <2>1
    <3> QED
      BY <3>2, <3>3
  <2>3. Diagnostics' = Diagnostics
    BY <2>1, <2>2 DEF Diagnostics
  <2> QED
    BY <1>n, <2>1, <2>3
<1>3. CASE UNCHANGED queue
  <2>1. Len(queue') = Len(queue) /\ Len(queue) \in Nat /\ Diagnostics' = Diagnostics
    BY <1>3, <1>t DEF Diagnostics
  <2> QED
    BY <1>n, <2>1
<1>4. Reject \/ DropTelemetry(event) \/ OverflowControl(event) => UNCHANGED queue
  BY DEF Reject, DropTelemetry, OverflowControl, SignalEmergency, mailbox
<1> QED
  BY <1>1, <1>2, <1>3, <1>4 DEF Admit

----------------------------------------------------------------------------
(* What showing an item adds.                                              *)

\* At most k calls that add n occurrences, t omissions and v vague notices.
Adds(c, n, t, v, k) ==
  /\ c \in Seq(Entries) /\ Len(c) <= k
  /\ Sum("counted", c) = n /\ Sum("told", c) = t /\ Sum("vague", c) = v

LEMMA AddsJoin ==
  ASSUME NEW a, NEW b, NEW n \in Int, NEW t \in Int, NEW v \in Int, NEW k \in 0..4,
         NEW n2 \in Int, NEW t2 \in Int, NEW v2 \in Int, NEW k2 \in 0..4,
         k + k2 <= 4, Adds(a, n, t, v, k), Adds(b, n2, t2, v2, k2)
  PROVE  Adds(a \o b, n + n2, t + t2, v + v2, k + k2)
<1>1. /\ a \in Seq(Entries) /\ b \in Seq(Entries) /\ Len(a) <= k /\ Len(b) <= k2
      /\ Sum("counted", a) = n /\ Sum("told", a) = t /\ Sum("vague", a) = v
      /\ Sum("counted", b) = n2 /\ Sum("told", b) = t2 /\ Sum("vague", b) = v2
  BY DEF Adds
<1>2. Len(a) + Len(b) <= k + k2 /\ Len(a) + Len(b) <= 4
  <2>1. Len(a) \in Nat /\ Len(b) \in Nat
    BY <1>1, LenProperties
  <2> QED
    BY <1>1, <2>1
<1>3. /\ \A m \in Sums : Sum(m, a \o b) = Sum(m, a) + Sum(m, b)
      /\ Len(a \o b) = Len(a) + Len(b) /\ a \o b \in Seq(Entries)
  BY <1>1, <1>2, SumJoin
<1>4. /\ Sum("counted", a \o b) = n + n2 /\ Sum("told", a \o b) = t + t2
      /\ Sum("vague", a \o b) = v + v2
  BY <1>1, <1>3 DEF Sums
<1> QED
  BY <1>2, <1>3, <1>4 DEF Adds

LEMMA AddsOne ==
  ASSUME NEW e \in Entries
  PROVE  Adds(<<e>>, Worth("counted", e), Worth("told", e), Worth("vague", e), 1)
BY SumOne DEF Adds, Sums

LEMMA AddsNone == Adds(<<>>, 0, 0, 0, 0)
BY SumNone DEF Adds, Sums

LEMMA AddsPlain ==
  ASSUME Types, NEW it \in Items
  PROVE  /\ Adds(<<Transient>>, 0, 0, 0, 1)
         /\ Adds(<<PartEntry(it)>>, 0, 0, 0, 1)
         /\ Adds(<<ControlEntry(it)>>, 0, 0, 0, 1)
         /\ Adds(<<LineEntry(it)>>, 1, 0, 0, 1)
<1>1. \A e \in Entries :
         /\ e.kind \in {"transient", "part", "control"} => Adds(<<e>>, 0, 0, 0, 1)
         /\ e.kind = "line" => Adds(<<e>>, e.count, 0, 0, 1)
  <2> SUFFICES ASSUME NEW e \in Entries
               PROVE  /\ e.kind \in {"transient", "part", "control"} => Adds(<<e>>, 0, 0, 0, 1)
                      /\ e.kind = "line" => Adds(<<e>>, e.count, 0, 0, 1)
    OBVIOUS
  <2>1. Adds(<<e>>, Worth("counted", e), Worth("told", e), Worth("vague", e), 1)
    BY AddsOne
  <2>2. e.kind \in {"transient", "part", "control", "line"} =>
           Worth("told", e) = 0 /\ Worth("vague", e) = 0
    BY DEF Worth
  <2>3. /\ e.kind \in {"transient", "part", "control"} => Worth("counted", e) = 0
        /\ e.kind = "line" => Worth("counted", e) = e.count
    BY DEF Worth, Counted
  <2> QED
    BY <2>1, <2>2, <2>3
<1>2. /\ Transient \in Entries /\ LineEntry(it) \in Entries
      /\ PartEntry(it) \in Entries /\ ControlEntry(it) \in Entries
  BY EntriesTyped
<1>3. /\ Transient.kind = "transient" /\ PartEntry(it).kind = "part"
      /\ ControlEntry(it).kind = "control"
      /\ LineEntry(it).kind = "line" /\ LineEntry(it).count = 1
  BY DEF Transient, PartEntry, ControlEntry, LineEntry, Entry
<1> QED
  BY <1>1, <1>2, <1>3

LEMMA OpenTyped ==
  ASSUME Types PROVE Open \in Nat /\ group.count \in Nat
BY DEF Open, Types, WorkerTypes, Groups

LEMMA AddsGroup ==
  ASSUME Types PROVE Adds(GroupCalls, Open, 0, 0, 1)
<1>1. group.count \in Nat
  BY OpenTyped
<1>2. GroupEntry \in Entries
  BY DEF Types, WorkerTypes, Groups, GroupEntry, Entry, Entries, EntryKinds
<1>3. Adds(<<GroupEntry>>, Worth("counted", GroupEntry), Worth("told", GroupEntry),
           Worth("vague", GroupEntry), 1)
  BY <1>2, AddsOne
<1>4. /\ GroupEntry.count = group.count
      /\ GroupEntry.kind = IF Mode = "interactive" THEN "line" ELSE "summary"
  BY DEF GroupEntry, Entry
<1>5. Worth("told", GroupEntry) = 0 /\ Worth("vague", GroupEntry) = 0
  BY <1>4 DEF Worth
<1>6. CASE group.count >= IF Mode = "interactive" THEN 1 ELSE 2
  <2>1. Worth("counted", GroupEntry) = Open
    BY <1>1, <1>4, <1>6 DEF Counted, Open, Worth
  <2> QED
    BY <1>3, <1>5, <1>6, <2>1 DEF GroupCalls
<1>7. CASE ~(group.count >= IF Mode = "interactive" THEN 1 ELSE 2)
  <2>1. Open = 0 /\ GroupCalls = <<>>
    BY <1>1, <1>7 DEF Open, GroupCalls
  <2> QED
    BY <2>1, AddsNone DEF Adds
<1> QED
  BY <1>6, <1>7

\* What a notice would tell now, and what the notice of an item tells.
ToldNow == omissions.count
VagueNow == IF omissions.uncertain THEN 1 ELSE 0
ToldBy(it) == IF Notice(it) = <<>> THEN 0 ELSE ToldNow
VagueBy(it) == IF Notice(it) = <<>> THEN 0 ELSE VagueNow

LEMMA AddsNoticeEntry ==
  ASSUME Types
  PROVE  /\ Adds(<<NoticeEntry>>, 0, ToldNow, VagueNow, 1)
         /\ ToldNow \in Nat /\ VagueNow \in 0..1
<1>1. ToldNow \in Nat /\ VagueNow \in 0..1
  BY MailboxAssumption DEF Types, TypeOK, MailboxTypeOK, ToldNow, VagueNow
<1>2. NoticeEntry \in Entries
  BY <1>1 DEF NoticeEntry, Entry, Entries, EntryKinds, ToldNow
<1>3. Adds(<<NoticeEntry>>, Worth("counted", NoticeEntry), Worth("told", NoticeEntry),
           Worth("vague", NoticeEntry), 1)
  BY <1>2, AddsOne
<1>4. /\ NoticeEntry.count = omissions.count
      /\ NoticeEntry.kind = IF omissions.uncertain THEN "at_least" ELSE "notice"
  BY DEF NoticeEntry, Entry
<1>5. /\ Worth("counted", NoticeEntry) = 0 /\ Worth("told", NoticeEntry) = ToldNow
      /\ Worth("vague", NoticeEntry) = VagueNow
  BY <1>4 DEF Counted, Worth, ToldNow, VagueNow
<1> QED
  BY <1>1, <1>3, <1>5

LEMMA AddsNotice ==
  ASSUME Types, NEW it \in Items
  PROVE  /\ Adds(Notice(it), 0, ToldBy(it), VagueBy(it), 1)
         /\ ToldBy(it) \in Nat /\ VagueBy(it) \in 0..1
<1>1. Notice(it) \in {<<>>, <<NoticeEntry>>} /\ <<NoticeEntry>> # <<>>
  BY DEF Notice
<1>2. CASE Notice(it) = <<>>
  <2>1. ToldBy(it) = 0 /\ VagueBy(it) = 0
    BY <1>2 DEF ToldBy, VagueBy
  <2> QED
    BY <1>2, <2>1, AddsNone DEF Adds
<1>3. CASE Notice(it) # <<>>
  <2>1. Notice(it) = <<NoticeEntry>> /\ ToldBy(it) = ToldNow /\ VagueBy(it) = VagueNow
    BY <1>1, <1>3 DEF ToldBy, VagueBy
  <2> QED
    BY <2>1, AddsNoticeEntry
<1> QED
  BY <1>2, <1>3

LEMMA AddsWiden ==
  ASSUME NEW c, NEW n, NEW t, NEW v, NEW k \in 0..4, NEW j \in 0..4, k <= j, Adds(c, n, t, v, k)
  PROVE  Adds(c, n, t, v, j)
<1>1. Len(c) \in Nat
  BY LenProperties DEF Adds
<1> QED
  BY <1>1 DEF Adds

\* The sequences of calls the display makes: the open group first, then what
\* follows.
LEMMA AddsAfterGroup ==
  ASSUME Types, NEW c, NEW n \in Int, NEW t \in Int, NEW v \in Int, Adds(c, n, t, v, 3)
  PROVE  Adds(GroupCalls \o c, Open + n, t, v, 4)
<1> DEFINE g == GroupCalls  o == Open
<1>1. Adds(g, o, 0, 0, 1) /\ o \in Int
  BY AddsGroup, OpenTyped
<1> HIDE DEF g, o
<1>2. Adds(g \o c, o + n, 0 + t, 0 + v, 1 + 3)
  BY <1>1, AddsJoin
<1>3. Adds(g \o c, o + n, t, v, 4)
  BY <1>2
<1> QED
  BY <1>3 DEF g, o

LEMMA AddsAfterNotice ==
  ASSUME Types, NEW b, NEW t \in Int, NEW v \in Int, Adds(b, 0, t, v, 1),
         NEW c, NEW n \in Int, Adds(c, n, 0, 0, 2)
  PROVE  Adds(GroupCalls \o b \o c, Open + n, t, v, 4)
<1> DEFINE g == GroupCalls  o == Open
<1>1. Adds(g, o, 0, 0, 1) /\ o \in Int
  BY AddsGroup, OpenTyped
<1> DEFINE lg == Len(g)  lb == Len(b)  lc == Len(c)
<1> HIDE DEF g, o
<1>2. /\ b \in Seq(Entries) /\ c \in Seq(Entries) /\ g \in Seq(Entries)
      /\ lg <= 1 /\ lb <= 1 /\ lc <= 2
      /\ lg \in Nat /\ lb \in Nat /\ lc \in Nat
  <2>1. /\ b \in Seq(Entries) /\ c \in Seq(Entries) /\ g \in Seq(Entries)
        /\ lg <= 1 /\ lb <= 1 /\ lc <= 2
    BY <1>1 DEF Adds
  <2>2. lg \in Nat /\ lb \in Nat /\ lc \in Nat
    BY <2>1, LenProperties
  <2> QED
    BY <2>1, <2>2
<1>s. /\ Sum("counted", g) = o /\ Sum("told", g) = 0 /\ Sum("vague", g) = 0
      /\ Sum("counted", b) = 0 /\ Sum("told", b) = t /\ Sum("vague", b) = v
      /\ Sum("counted", c) = n /\ Sum("told", c) = 0 /\ Sum("vague", c) = 0
  BY <1>1 DEF Adds
<1> HIDE DEF lg, lb, lc
<1> DEFINE a == g \o b
<1>3. lg + lb <= 4 /\ (lg + lb) + lc <= 4
  BY <1>2
<1>4. /\ \A m \in Sums : Sum(m, a) = Sum(m, g) + Sum(m, b)
      /\ Len(a) = lg + lb /\ a \in Seq(Entries)
  BY <1>2, <1>3, SumJoin DEF lg, lb
<1> HIDE DEF a
<1>5. /\ Sum("counted", a) = o /\ Sum("told", a) = t /\ Sum("vague", a) = v
  <2>1. /\ Sum("counted", a) = o + 0 /\ Sum("told", a) = 0 + t /\ Sum("vague", a) = 0 + v
    BY <1>s, <1>4 DEF Sums
  <2> QED
    BY <1>1, <2>1
<1>6. /\ \A m \in Sums : Sum(m, a \o c) = Sum(m, a) + Sum(m, c)
      /\ Len(a \o c) = (lg + lb) + lc /\ a \o c \in Seq(Entries)
  <2>1. Len(a) + lc <= 4
    BY <1>3, <1>4
  <2>2. /\ \A m \in Sums : Sum(m, a \o c) = Sum(m, a) + Sum(m, c)
        /\ Len(a \o c) = Len(a) + lc /\ a \o c \in Seq(Entries)
    BY <1>2, <1>4, <2>1, SumJoin DEF lc
  <2> QED
    BY <1>4, <2>2
<1>7. /\ Sum("counted", a \o c) = o + n /\ Sum("told", a \o c) = t
      /\ Sum("vague", a \o c) = v
  <2>1. /\ Sum("counted", a \o c) = o + n /\ Sum("told", a \o c) = t + 0
        /\ Sum("vague", a \o c) = v + 0
    BY <1>s, <1>5, <1>6 DEF Sums
  <2> QED
    BY <2>1
<1>8. Adds(a \o c, o + n, t, v, 4)
  BY <1>3, <1>6, <1>7 DEF Adds
<1> QED
  BY <1>8 DEF a, g, o

\* Showing an item moves its occurrence, and those of the group it closes,
\* into calls, the group or the replaced ones, and announces a notice due.
ShowAdds(it) ==
  \E n \in Int : /\ Adds(calls', n, ToldBy(it), VagueBy(it), 4)
                 /\ Open + OneIf(it.event) = Open' + (replaced' - replaced) + n

LEMMA ShowQuietly ==
  ASSUME Types, NEW it \in Items, Show(it), it.event.kind \notin {"diagnostic", "ended"}
  PROVE  ShowAdds(it)
<1>1. ToldBy(it) = 0 /\ VagueBy(it) = 0 /\ OneIf(it.event) = 0
  BY DEF Notice, ToldBy, VagueBy, OneIf
<1>2. Open \in Nat /\ replaced \in Nat
  BY OpenTyped DEF Types, TypeOK
\* The group is closed and written, or nothing of it is touched.
<1>3. SUFFICES /\ replaced' = replaced
               /\ \/ Adds(calls', Open, 0, 0, 4) /\ Open' = 0
                  \/ Adds(calls', 0, 0, 0, 4) /\ Open' = Open
  BY <1>1, <1>2, <1>3 DEF ShowAdds
<1>4. ASSUME NEW c, Adds(c, 0, 0, 0, 1)
      PROVE  Adds(c, 0, 0, 0, 4) /\ Adds(GroupCalls \o c, Open, 0, 0, 4)
  <2>1. Adds(c, 0, 0, 0, 3) /\ Adds(c, 0, 0, 0, 4)
    BY <1>4, AddsWiden
  <2>2. Adds(GroupCalls \o c, Open + 0, 0, 0, 4)
    BY <2>1, AddsAfterGroup
  <2> QED
    BY <1>2, <2>1, <2>2
<1>5. /\ Adds(<<>>, 0, 0, 0, 4) /\ Adds(<<Transient>>, 0, 0, 0, 4)
      /\ Adds(<<ControlEntry(it)>>, 0, 0, 0, 4)
      /\ Adds(GroupCalls \o <<>>, Open, 0, 0, 4) /\ Adds(GroupCalls \o <<Transient>>, Open, 0, 0, 4)
      /\ Adds(GroupCalls \o <<PartEntry(it)>>, Open, 0, 0, 4)
      /\ Adds(GroupCalls \o <<ControlEntry(it)>>, Open, 0, 0, 4)
  <2>1. Adds(<<>>, 0, 0, 0, 1)
    BY AddsNone, AddsWiden
  <2>2. /\ Adds(<<Transient>>, 0, 0, 0, 1) /\ Adds(<<PartEntry(it)>>, 0, 0, 0, 1)
        /\ Adds(<<ControlEntry(it)>>, 0, 0, 0, 1)
    BY AddsPlain
  <2> QED
    BY Zenon, <1>4, <2>1, <2>2
<1>6. /\ CloseGroup => Open' = 0
      /\ UNCHANGED group => Open' = Open
  BY DEF CloseGroup, NoGroup, Open
<1>7. CASE ShowPrefix(it)
  <2>1. replaced' = replaced
    BY <1>7 DEF ShowPrefix
  <2>2. \/ calls' \in {<<>>, <<Transient>>} /\ UNCHANGED group
        \/ calls' = GroupCalls \o <<PartEntry(it)>> /\ CloseGroup
    BY <1>7 DEF ShowPrefix, display, CloseGroup
  <2> QED
    BY <1>5, <1>6, <2>1, <2>2
<1>8. CASE ShowBoundary(it)
  <2>1. replaced' = replaced
    BY <1>8 DEF ShowBoundary
  <2>2. \/ calls' = <<>> /\ UNCHANGED group
        \/ calls' = GroupCalls \o <<PartEntry(it)>> /\ CloseGroup
    BY <1>8 DEF ShowBoundary, display, CloseGroup
  <2> QED
    BY <1>5, <1>6, <2>1, <2>2
<1>9. CASE ShowStatus(it)
  <2>1. replaced' = replaced /\ UNCHANGED group
    BY <1>9 DEF ShowStatus, display
  <2>2. calls' \in {<<>>, <<Transient>>}
    BY <1>9, PresentationAssumption DEF ShowStatus
  <2> QED
    BY <1>5, <1>6, <2>1, <2>2
<1>10. CASE ShowStarted(it)
  <2> DEFINE c == CASE Mode = "interactive" -> <<Transient>>
                    [] Mode = "lines" -> <<ControlEntry(it)>>
                    [] Mode = "off" -> IF it.event.kind = "phase" THEN <<ControlEntry(it)>> ELSE <<>>
  <2>1. replaced' = replaced
    BY <1>10 DEF ShowStarted
  <2>2. c \in {<<>>, <<Transient>>, <<ControlEntry(it)>>}
    BY PresentationAssumption
  <2>3. \/ calls' = GroupCalls \o c /\ CloseGroup
        \/ calls' = <<>> \o c /\ UNCHANGED group
    BY <1>10 DEF ShowStarted, CloseGroup
  <2>4. Adds(c, 0, 0, 0, 4) /\ Adds(GroupCalls \o c, Open, 0, 0, 4) /\ <<>> \o c = c
    <3>1. c \in Seq(Entries) => <<>> \o c = c
      BY ConcatEmptySeq
    <3> HIDE DEF c
    <3>2. Adds(c, 0, 0, 0, 4)
      BY <1>5, <2>2
    <3>3. Adds(GroupCalls \o c, Open, 0, 0, 4)
      BY <1>5, <2>2
    <3> QED
      BY <3>1, <3>2, <3>3 DEF Adds
  <2> HIDE DEF c
  <2> QED
    BY <1>6, <2>1, <2>3, <2>4
<1>11. CASE ShowReport(it)
  BY <1>5, <1>6, <1>11 DEF ShowReport
<1>12. it.event.kind \in ControlKinds \cup TelemetryKinds
  BY DEF Items, Events
<1> QED
  BY <1>7, <1>8, <1>9, <1>10, <1>11, <1>12 DEF Show, ControlKinds, TelemetryKinds

LEMMA ShowEnds ==
  ASSUME Types, NEW it \in Items, ShowEnded(it), it.event.kind = "ended"
  PROVE  ShowAdds(it)
<1> DEFINE c == <<Transient, ControlEntry(it)>>
<1>1. Adds(c, 0, 0, 0, 2)
  <2>1. Transient \in Entries /\ ControlEntry(it) \in Entries
    BY EntriesTyped
  <2>2. c \in Seq(Entries) /\ Len(c) = 2 /\ DOMAIN c = 1..2
        /\ c[1] = Transient /\ c[2] = ControlEntry(it)
    BY <2>1
  <2>3. \A m \in Sums : Worth(m, Transient) = 0 /\ Worth(m, ControlEntry(it)) = 0
    BY DEF Sums, Worth, Counted, Transient, ControlEntry, Entry
  <2> HIDE DEF c
  <2>4. \A m \in Sums : \A i \in 1..4 : At(m, c, i) = 0
    BY <2>2, <2>3 DEF At
  <2>5. \A m \in Sums : Sum(m, c) = 0
    BY <2>4 DEF Sum
  <2> QED
    BY <2>2, <2>5 DEF Adds, Sums
<1>2. calls' = GroupCalls \o Notice(it) \o c /\ group' = NoGroup /\ replaced' = replaced
  BY DEF ShowEnded, CloseGroup
<1> HIDE DEF c
<1>3. Adds(calls', Open + 0, ToldBy(it), VagueBy(it), 4)
  BY <1>1, <1>2, AddsNotice, AddsAfterNotice
<1>4. Open' = 0 /\ OneIf(it.event) = 0 /\ Open \in Nat /\ replaced \in Nat
  BY <1>2, OpenTyped DEF CloseGroup, NoGroup, Open, OneIf, Types, TypeOK
<1> QED
  BY <1>2, <1>3, <1>4 DEF ShowAdds

LEMMA ShowCounts ==
  ASSUME Types, NEW it \in Items, ShowDiagnostic(it), it.event.kind = "diagnostic"
  PROVE  ShowAdds(it)
<1> DEFINE T == ToldBy(it)  V == VagueBy(it)  notice == Notice(it)
           repeat == SameGroup(it) /\ notice = <<>>
           variant == Variant(it) /\ notice = <<>>
           closed_ == GroupCalls \o notice
<1>1. /\ Open \in Nat /\ group.count \in Nat /\ replaced \in Nat /\ OneIf(it.event) = 1
      /\ T \in Nat /\ V \in 0..1
  BY OpenTyped, AddsNotice DEF Types, TypeOK, OneIf
<1>2. notice = <<>> => T = 0 /\ V = 0
  BY DEF ToldBy, VagueBy
<1>3. /\ Adds(closed_ \o <<>>, Open, T, V, 4)
      /\ Adds(closed_ \o <<Transient>>, Open, T, V, 4)
      /\ Adds(closed_ \o <<LineEntry(it)>>, Open + 1, T, V, 4)
  <2>1. /\ Adds(<<>>, 0, 0, 0, 2) /\ Adds(<<Transient>>, 0, 0, 0, 2)
        /\ Adds(<<LineEntry(it)>>, 1, 0, 0, 2)
    <3>1. Adds(<<>>, 0, 0, 0, 2)
      BY AddsNone, AddsWiden
    <3>2. \A c, n : Adds(c, n, 0, 0, 1) => Adds(c, n, 0, 0, 2)
      BY AddsWiden
    <3> QED
      BY <3>1, <3>2, AddsPlain
  <2>2. ASSUME NEW c, NEW n \in Int, Adds(c, n, 0, 0, 2)
        PROVE  Adds(closed_ \o c, Open + n, T, V, 4)
    BY <1>1, <2>2, AddsNotice, AddsAfterNotice
  <2>3. \A c : Adds(c, 0, 0, 0, 2) => Adds(closed_ \o c, Open, T, V, 4)
    <3> SUFFICES ASSUME NEW c, Adds(c, 0, 0, 0, 2) PROVE Adds(closed_ \o c, Open, T, V, 4)
      OBVIOUS
    <3>1. Adds(closed_ \o c, Open + 0, T, V, 4)
      BY <2>2
    <3> QED
      BY <1>1, <3>1
  <2>4. Adds(closed_ \o <<LineEntry(it)>>, Open + 1, T, V, 4)
    BY <2>1, <2>2
  <2> QED
    BY <2>1, <2>3, <2>4
<1>4. /\ Adds(<<>> \o <<>>, 0, 0, 0, 4) /\ Adds(<<>> \o <<Transient>>, 0, 0, 0, 4)
  <2>1. Adds(<<>>, 0, 0, 0, 4) /\ Adds(<<Transient>>, 0, 0, 0, 4)
    <3>1. Adds(<<>>, 0, 0, 0, 4)
      BY AddsNone, AddsWiden
    <3>2. \A c : Adds(c, 0, 0, 0, 1) => Adds(c, 0, 0, 0, 4)
      BY AddsWiden
    <3> QED
      BY <3>1, <3>2, AddsPlain
  <2>2. <<>> \o <<>> = <<>> /\ <<>> \o <<Transient>> = <<Transient>>
    BY <2>1, ConcatEmptySeq DEF Adds
  <2> QED
    BY <2>1, <2>2
<1>5. [group EXCEPT !.count = @ + 1].count = group.count + 1 /\ NewGroup(it).count = 1
  BY DEF Types, WorkerTypes, Groups, NewGroup
<1>6. CASE Exact
  <2>1. calls' = closed_ \o <<LineEntry(it)>> /\ group' = NoGroup /\ replaced' = replaced
    BY <1>6 DEF ShowDiagnostic, CloseGroup
  <2>2. Open' = 0
    BY <2>1 DEF NoGroup, Open
  <2>3. Adds(calls', Open + 1, T, V, 4)
    BY <1>3, <2>1
  <2> QED
    BY <1>1, <2>1, <2>2, <2>3 DEF ShowAdds
<1>7. CASE ~Exact /\ Mode = "interactive"
  <2>1. Open = group.count /\ Open' = group'.count
    BY <1>1, <1>7 DEF Open
  <2>2. CASE repeat
    <3>1. /\ group' = [group EXCEPT !.count = @ + 1] /\ replaced' = replaced
          /\ calls' \in {<<>> \o <<>>, <<>> \o <<Transient>>}
      BY <1>7, <2>2 DEF ShowDiagnostic, SameGroup, Variant, SameSource
    <3>2. Adds(calls', 0, T, V, 4) /\ Open' = Open + 1
      BY <1>2, <1>4, <1>5, <2>1, <2>2, <3>1
    <3> QED
      BY <1>1, <3>1, <3>2 DEF ShowAdds
  <2>3. CASE variant
    <3>1. /\ group' = NewGroup(it) /\ replaced' = replaced + group.count
          /\ calls' = <<>> \o <<Transient>>
      BY <1>7, <2>3 DEF ShowDiagnostic, SameGroup, Variant, SameSource
    <3>2. Adds(calls', 0, T, V, 4) /\ Open' = 1
      BY <1>2, <1>4, <1>5, <2>1, <2>3, <3>1
    <3> QED
      BY <1>1, <2>1, <3>1, <3>2 DEF ShowAdds
  <2>4. CASE ~repeat /\ ~variant
    <3>1. /\ group' = NewGroup(it) /\ replaced' = replaced
          /\ calls' = closed_ \o <<Transient>>
      BY <1>7, <2>4 DEF ShowDiagnostic
    <3>2. Adds(calls', Open, T, V, 4) /\ Open' = 1
      BY <1>3, <1>5, <2>1, <3>1
    <3> QED
      BY <1>1, <3>1, <3>2 DEF ShowAdds
  <2> QED
    BY <2>2, <2>3, <2>4
<1>8. CASE ~Exact /\ Mode # "interactive"
  <2>1. ~Variant(it)
    BY <1>8 DEF Variant
  <2>2. replaced' = replaced
    BY <2>1 DEF ShowDiagnostic
  <2>3. CASE repeat
    <3>1. /\ group' = [group EXCEPT !.count = @ + 1] /\ group.count > 0
          /\ calls' = <<>> \o <<>>
      BY <1>8, <2>3 DEF ShowDiagnostic, SameGroup, SameSource
    <3>2. Adds(calls', 0, T, V, 4)
      BY <1>2, <1>4, <2>3, <3>1
    <3>3. Open' = group.count /\ Open = group.count - 1
      BY <1>1, <1>5, <1>8, <3>1 DEF Open
    <3> QED
      BY <1>1, <2>2, <3>2, <3>3 DEF ShowAdds
  <2>4. CASE ~repeat
    <3>1. /\ group' = NewGroup(it)
          /\ calls' = closed_ \o <<LineEntry(it)>>
      BY <1>8, <2>1, <2>4 DEF ShowDiagnostic
    <3>2. Adds(calls', Open + 1, T, V, 4) /\ Open' = 0
      BY <1>3, <1>5, <1>8, <3>1 DEF Open
    <3> QED
      BY <1>1, <2>2, <3>2 DEF ShowAdds
  <2> QED
    BY <2>3, <2>4
<1> QED
  BY <1>6, <1>7, <1>8

LEMMA ShowSums ==
  ASSUME Types, NEW it \in Items, Show(it)
  PROVE  ShowAdds(it)
<1>1. CASE it.event.kind = "diagnostic"
  <2>1. ShowDiagnostic(it)
    BY <1>1 DEF Show
  <2> QED
    BY <1>1, <2>1, ShowCounts
<1>2. CASE it.event.kind = "ended"
  <2>1. ShowEnded(it)
    BY <1>2 DEF Show
  <2> QED
    BY <1>2, <2>1, ShowEnds
<1> QED
  BY <1>1, <1>2, ShowQuietly

----------------------------------------------------------------------------
(* The accounts stay right in every step.                                  *)

LEMMA AccountInit == Init => AccountInv
<1> SUFFICES ASSUME Init PROVE AccountInv
  OBVIOUS
<1>1. Sum("told", calls) = 0 /\ Sum("vague", calls) = 0 /\ Sum("counted", calls) = 0
      /\ Len(calls) = 0
  BY SumNone DEF Init, Sums
<1>2. Cardinality(Diagnostics) = 0
  <2>1. Diagnostics = {}
    BY DEF Init, MailboxInit, Diagnostics
  <2> QED
    BY <2>1, FS_EmptySet
<1>3. Open = 0 /\ Taken = 0
  BY DEF Init, NoGroup, Open, Taken
<1>4. FewCalls /\ ToldInv
  BY <1>1 DEF Init, MailboxInit, NoOmissions, FewCalls, ToldInv
<1>5. CountInv
  BY <1>1, <1>2, <1>3 DEF Init, CountInv
<1>6. EndInv
  BY DEF Init, EndInv, Ending
<1> QED
  BY <1>4, <1>5, <1>6 DEF AccountInv

\* The numbers the accounts are made of.
AccountTypes ==
  /\ shown.told \in Nat /\ shown.count \in Int /\ shown.vague \in BOOLEAN
  /\ omissions.count \in Nat /\ omissions.uncertain \in BOOLEAN
  /\ dropped \in Nat /\ admitted \in Nat /\ replaced \in Nat /\ Open \in Nat
  /\ calls \in Seq(Entries) /\ \A m \in Sums : Sum(m, calls) \in Int
  /\ Cardinality(Diagnostics) \in Nat /\ Taken \in {0, 1}

LEMMA TypedAccounts == Types => AccountTypes
<1> SUFFICES ASSUME Types PROVE AccountTypes
  OBVIOUS
<1>1. calls \in Seq(Entries) /\ \A m \in Sums : Sum(m, calls) \in Int
  BY SumTyped DEF Types, WorkerTypes
<1>2. Cardinality(Diagnostics) \in Nat
  <2>1. queue \in Seq(Admissions) /\ Diagnostics = DiagnosticsIn(queue)
    BY DEF Types, TypeOK, MailboxTypeOK, Admissions, Diagnostics, DiagnosticsIn
  <2> QED
    BY <2>1, DiagnosticsFinite
<1>3. omissions.count \in Nat /\ omissions.uncertain \in BOOLEAN /\ dropped \in Nat
  BY MailboxAssumption DEF Types, TypeOK, MailboxTypeOK
<1>4. shown.told \in Nat /\ shown.count \in Int /\ shown.vague \in BOOLEAN
  BY DEF Types, WorkerTypes, Shown
<1>5. admitted \in Nat /\ replaced \in Nat /\ Open \in Nat
  BY OpenTyped DEF Types, TypeOK
<1> QED
  BY <1>1, <1>2, <1>3, <1>4, <1>5 DEF AccountTypes, Taken

LEMMA TypedAccountsNext == Types' => AccountTypes'
BY TypedAccounts, PTL

\* An admission adds what it drops to the omissions and what it lets in to the
\* queue; past close it changes nothing.
LEMMA AccountAdmit ==
  ASSUME Types, AccountInv, NEW event \in Events, Admit(event),
         admitted' = IF event.kind = "diagnostic" /\ Len(queue') > Len(queue)
                     THEN admitted + 1 ELSE admitted,
         UNCHANGED <<display, failed, worker, shown, replaced, verdict>>
  PROVE  AccountInv'
<1> USE TypedAccounts
<1>0. UNCHANGED <<group, failed, wpc, item, calls, after, shown, replaced, verdict>>
  BY DEF display, worker
<1>1. FewCalls'
  BY <1>0 DEF AccountInv, FewCalls
<1>2. ToldInv'
  <2>1. CASE DropTelemetry(event) /\ event.kind = "diagnostic"
    <3>1. /\ dropped' = dropped + 1 /\ cancelled' = cancelled
          /\ omissions'.count = IF omissions.count < OmissionLimit
                                THEN omissions.count + 1 ELSE omissions.count
          /\ omissions'.uncertain = (omissions.uncertain \/ omissions.count >= OmissionLimit)
      BY <2>1 DEF DropTelemetry, OneMoreOmission
    <3>u. omissions'.uncertain <=> omissions.uncertain \/ omissions.count >= OmissionLimit
      BY Zenon, <3>1
    <3> DEFINE s == Sum("told", calls)  v == Sum("vague", calls)
    <3>2. s' = s /\ v' = v /\ s \in Int /\ v \in Int
      BY <1>0 DEF AccountTypes, Sums
    <3> DEFINE told == shown.told + s + omissions.count
    <3>3. Live' => IF omissions.uncertain \/ shown.vague \/ v > 0
                   THEN told < dropped ELSE told = dropped
      BY <1>0, <3>1 DEF AccountInv, ToldInv, Live
    <3> HIDE DEF s, v
    <3>b. shown' = shown /\ shown.told \in Int /\ omissions.count \in Int /\ dropped \in Int
      BY <1>0 DEF AccountTypes
    <3>4. CASE omissions.count < OmissionLimit
      <4>1. told' = told + 1 /\ told \in Int /\ (omissions'.uncertain <=> omissions.uncertain)
        <5>1. omissions'.count = omissions.count + 1
          BY <3>1, <3>4
        <5>2. omissions'.uncertain <=> omissions.uncertain
          <6>1. ~(omissions.count >= OmissionLimit)
            BY <3>4, <3>b, MailboxAssumption
          <6> QED
            BY Zenon, <3>u, <6>1
        <5> QED
          BY <3>2, <3>b, <5>1, <5>2
      <4>2. Live' => IF omissions'.uncertain \/ shown'.vague \/ v' > 0
                     THEN told' < dropped' ELSE told' = dropped'
        BY <1>0, <3>1, <3>2, <3>3, <4>1 DEF AccountTypes
      <4> QED
        BY <4>2 DEF ToldInv, s, v
    <3>5. CASE ~(omissions.count < OmissionLimit)
      <4>1. told' = told /\ told \in Int /\ omissions'.uncertain
        <5>1. omissions'.count = omissions.count
          BY <3>1, <3>5
        <5>2. omissions'.uncertain
          <6>1. omissions.count >= OmissionLimit
            BY <3>5, <3>b, MailboxAssumption
          <6> QED
            BY Zenon, <3>u, <6>1
        <5> QED
          BY <3>2, <3>b, <5>1, <5>2
      <4>2. Live' => told' < dropped'
        BY <3>1, <3>3, <4>1 DEF AccountTypes
      <4> QED
        BY <4>1, <4>2 DEF ToldInv, s
    <3> QED
      BY <3>4, <3>5
  <2>2. CASE UNCHANGED <<omissions, dropped, cancelled>>
    BY <1>0, <2>2 DEF AccountInv, ToldInv, Live
  <2>3. CASE OverflowControl(event)
    BY <2>3 DEF OverflowControl, SignalEmergency, ToldInv, Live
  <2> QED
    BY <2>1, <2>2, <2>3 DEF Admit, Reject, Enqueue, Supersede, DropTelemetry, mailbox
<1>3. CountInv'
  <2>1. CASE OverflowControl(event)
    BY <2>1 DEF OverflowControl, SignalEmergency, CountInv, Live
  <2>2. CASE cancelled' = cancelled
    <3> DEFINE d == Cardinality(Diagnostics)  s == Sum("counted", calls)
    <3>1. d' = d + (IF event.kind = "diagnostic" /\ Len(queue') > Len(queue) THEN 1 ELSE 0)
          /\ d \in Nat
      BY DiagnosticsAdmit
    <3>2. s' = s /\ Open' = Open /\ Taken' = Taken /\ s \in Int
      BY <1>0 DEF AccountTypes, Sums, Open, Taken
    <3>3. Live' => admitted = d + Taken + Open + replaced + shown.count + s
      BY <1>0, <2>2 DEF AccountInv, CountInv, Live
    <3> HIDE DEF d, s
    <3>a. PICK x \in {0, 1} : d' = d + x /\ admitted' = admitted + x
      BY <3>1 DEF AccountTypes
    <3>b. replaced' = replaced /\ shown'.count = shown.count
      BY <1>0
    <3>c. Taken \in Int /\ Open \in Int /\ replaced \in Int /\ shown.count \in Int
      BY DEF AccountTypes
    <3>4. Live' => admitted' = d' + Taken' + Open' + replaced' + shown'.count + s'
      BY <3>1, <3>2, <3>3, <3>a, <3>b, <3>c
    <3> QED
      BY <3>4 DEF CountInv, d, s
  <2> QED
    BY <2>1, <2>2 DEF Admit, Reject, Enqueue, Supersede, DropTelemetry, mailbox
<1>4. EndInv'
  <2>1. closed => closed' /\ UNCHANGED omissions
    BY DEF Admit, Reject, Enqueue, Supersede, DropTelemetry, OverflowControl, SignalEmergency,
           mailbox
  <2> QED
    BY <1>0, <2>1 DEF AccountInv, EndInv, Ending
<1> QED
  BY <1>1, <1>2, <1>3, <1>4 DEF AccountInv

\* Steps that touch none of the accounts: what works or ended stays so.
LEMMA AccountFrame ==
  ASSUME Types, AccountInv,
         UNCHANGED <<omissions, dropped, shown, calls, group, replaced, admitted>>,
         Live' => Live /\ Taken' = Taken /\ Diagnostics' = Diagnostics,
         EndInv'
  PROVE  AccountInv'
<1>1. /\ FewCalls' /\ ToldInv'
  BY DEF AccountInv, FewCalls, ToldInv
<1>2. Open' = Open
  BY DEF Open
<1>3. CountInv'
  BY <1>2 DEF AccountInv, CountInv
<1> QED
  BY <1>1, <1>3 DEF AccountInv

\* Steps that give the worker new calls when it has none.
LEMMA AccountCalls ==
  ASSUME Types, Types', AccountInv, calls = <<>>,
         UNCHANGED <<queue, dropped, shown, admitted, failed, cancelled>>,
         NEW n \in Int, NEW t, NEW v, Adds(calls', n, t, v, 4),
         \/ t = 0 /\ v = 0 /\ omissions' = omissions
         \/ t = ToldNow /\ v = VagueNow /\ omissions' = NoOmissions,
         Taken + Open = Taken' + Open' + (replaced' - replaced) + n,
         EndInv'
  PROVE  AccountInv'
<1>1. AccountTypes /\ AccountTypes'
  BY TypedAccounts, TypedAccountsNext
<1>2. Sum("told", calls) = 0 /\ Sum("vague", calls) = 0 /\ Sum("counted", calls) = 0
  BY SumNone DEF Sums
<1> DEFINE tc == Sum("told", calls)'  vc == Sum("vague", calls)'  nc == Sum("counted", calls)'
<1>3. nc = n /\ tc = t /\ vc = v /\ FewCalls'
  BY DEF Adds, FewCalls
<1> HIDE DEF tc, vc, nc
<1>4. ToldInv'
  <2>1. Live' => IF omissions.uncertain \/ shown.vague
                 THEN shown.told + omissions.count < dropped
                 ELSE shown.told + omissions.count = dropped
    BY <1>1, <1>2 DEF AccountInv, ToldInv, Live, AccountTypes
  <2>2. shown.told \in Int /\ omissions.count \in Int /\ dropped \in Int
    BY <1>1 DEF AccountTypes
  <2>3. CASE t = 0 /\ v = 0 /\ omissions' = omissions
    <3>1. shown'.told + tc + omissions'.count = shown.told + omissions.count /\ ~(vc > 0)
      BY <1>3, <2>2, <2>3
    <3>2. Live' => IF omissions'.uncertain \/ shown'.vague \/ vc > 0
                   THEN shown'.told + tc + omissions'.count < dropped'
                   ELSE shown'.told + tc + omissions'.count = dropped'
      BY <2>1, <2>3, <3>1
    <3> QED
      BY <3>2 DEF ToldInv, tc, vc
  <2>4. CASE t = ToldNow /\ v = VagueNow /\ omissions' = NoOmissions
    <3>1. omissions'.count = 0 /\ omissions'.uncertain = FALSE
      BY <2>4 DEF NoOmissions
    <3>2. shown'.told + tc + omissions'.count = shown.told + omissions.count
      BY <1>3, <2>2, <2>4, <3>1 DEF ToldNow
    <3>3. vc > 0 <=> omissions.uncertain
      BY <1>3, <2>4 DEF VagueNow
    <3>4. Live' => IF omissions'.uncertain \/ shown'.vague \/ vc > 0
                   THEN shown'.told + tc + omissions'.count < dropped'
                   ELSE shown'.told + tc + omissions'.count = dropped'
      BY <2>1, <3>1, <3>2, <3>3
    <3> QED
      BY <3>4 DEF ToldInv, tc, vc
  <2> QED
    BY <2>3, <2>4
<1>5. CountInv'
  <2> DEFINE d == Cardinality(Diagnostics)  dn == Cardinality(Diagnostics)'
  <2>1. dn = d
    BY DEF Diagnostics
  <2>2. Live' => admitted = d + Taken + Open + replaced + shown.count
    BY <1>1, <1>2 DEF AccountInv, CountInv, Live, AccountTypes
  <2>3. /\ d \in Int /\ Taken \in Int /\ Open \in Int /\ replaced \in Int /\ shown.count \in Int
        /\ Taken' \in Int /\ Open' \in Int /\ replaced' \in Int
    BY <1>1 DEF AccountTypes
  <2> HIDE DEF d, dn
  <2>4. Live' => admitted' = dn + Taken' + Open' + replaced' + shown'.count + nc
    <3> DEFINE s == shown.count  k == Taken  o == Open  r == replaced
    <3>1. /\ s \in Int /\ k \in Int /\ o \in Int /\ r \in Int /\ k' \in Int /\ o' \in Int
          /\ r' \in Int /\ k + o = k' + o' + (r' - r) + n /\ s' = s
      BY <2>3
    <3>2. Live' => admitted' = d + k + o + r + s
      BY <2>2
    <3> HIDE DEF s, k, o, r
    <3>3. d + k + o + r + s = d + k' + o' + r' + s + n
      <4> DEFINE x == k'  y == o'  z == r'
      <4>1. x \in Int /\ y \in Int /\ z \in Int /\ k + o = x + y + (z - r) + n /\ d \in Int
        BY <2>3, <3>1
      <4> HIDE DEF x, y, z
      <4>2. d + k + o + r + s = d + x + y + z + s + n
        BY <3>1, <4>1
      <4> QED
        BY <4>2 DEF x, y, z
    <3>4. Live' => admitted' = dn + k' + o' + r' + s' + nc
      BY <1>3, <2>1, <3>1, <3>2, <3>3
    <3> QED
      BY <3>4 DEF s, k, o, r
  <2> QED
    BY <2>4 DEF CountInv, dn, nc
<1> QED
  BY <1>3, <1>4, <1>5 DEF AccountInv

\* A call that was written counts where it was pending before.
LEMMA AccountWrite ==
  ASSUME Types, Types', AccountInv, calls # <<>>, ~failed, ~cancelled,
         calls' = Tail(calls), shown' = Written(Head(calls)),
         UNCHANGED <<queue, omissions, dropped, group, replaced, admitted, failed, cancelled>>,
         Taken' = Taken, EndInv'
  PROVE  AccountInv'
<1>1. AccountTypes /\ AccountTypes' /\ Live
  BY TypedAccounts, TypedAccountsNext DEF Live
<1> DEFINE e == Head(calls)
           t == Sum("told", calls)  v == Sum("vague", calls)  n == Sum("counted", calls)
           tt == Sum("told", calls)'  vt == Sum("vague", calls)'  nt == Sum("counted", calls)'
<1>2. /\ t = Worth("told", e) + tt /\ v = Worth("vague", e) + vt /\ n = Worth("counted", e) + nt
      /\ FewCalls' /\ e \in Entries
  BY <1>1, SumTail DEF AccountInv, FewCalls, AccountTypes, Sums
<1>3. vt >= 0 /\ tt \in Int /\ vt \in Int /\ nt \in Int
  BY <1>1, VagueTyped DEF AccountTypes, Sums
<1>4. /\ Worth("told", e) \in Int /\ Worth("vague", e) \in {0, 1} /\ Worth("counted", e) \in Int
  BY <1>2, WorthTyped DEF Sums, Worth
<1>5. /\ shown'.told = shown.told + Worth("told", e)
      /\ shown'.count = shown.count + Worth("counted", e)
  <2>1. shown'.told = shown.told + Worth("told", e)
    BY DEF Written, Worth
  <2>2. shown'.count = shown.count + Worth("counted", e)
    BY DEF Written, Worth
  <2> QED
    BY <2>1, <2>2
<1>v. shown'.vague <=> shown.vague \/ Worth("vague", e) > 0
  <2>3. shown'.vague = IF e.kind = "at_least" THEN TRUE ELSE shown.vague
    BY DEF Written
  <2>4. e.kind = "at_least" <=> Worth("vague", e) > 0
    BY DEF Worth
  <2> QED
    BY <1>1, <2>3, <2>4 DEF AccountTypes
<1>6. /\ IF omissions.uncertain \/ shown.vague \/ v > 0
         THEN shown.told + t + omissions.count < dropped
         ELSE shown.told + t + omissions.count = dropped
      /\ admitted = Cardinality(Diagnostics) + Taken + Open + replaced + shown.count + n
  BY <1>1 DEF AccountInv, ToldInv, CountInv
<1> HIDE DEF e, t, v, n, tt, vt, nt
<1>7. /\ shown.told \in Int /\ omissions.count \in Int /\ dropped \in Int /\ shown.count \in Int
      /\ Cardinality(Diagnostics) \in Int /\ Taken \in Int /\ Open \in Int /\ replaced \in Int
  BY <1>1 DEF AccountTypes
<1>8. ToldInv'
  <2>1. shown'.told + tt + omissions'.count = shown.told + t + omissions.count
    <3> DEFINE w == Worth("told", e)  s == shown.told  o == omissions.count
    <3>1. shown'.told = s + w /\ t = w + tt /\ omissions'.count = o
      BY <1>2, <1>5
    <3>2. s \in Int /\ w \in Int /\ tt \in Int /\ o \in Int
      BY <1>3, <1>4, <1>7
    <3> HIDE DEF w, s, o
    <3>3. (s + w) + tt + o = s + (w + tt) + o
      BY <3>2
    <3>4. shown'.told + tt + omissions'.count = s + t + o
      BY <3>1, <3>3
    <3> QED
      BY <3>4 DEF s, o
  <2>2. v > 0 <=> Worth("vague", e) > 0 \/ vt > 0
    BY <1>2, <1>3, <1>4
  <2>3. IF omissions'.uncertain \/ shown'.vague \/ vt > 0
        THEN shown'.told + tt + omissions'.count < dropped'
        ELSE shown'.told + tt + omissions'.count = dropped'
    BY <1>v, <1>6, <2>1, <2>2
  <2> QED
    BY <2>3 DEF ToldInv, tt, vt
<1>9. CountInv'
  <2> DEFINE d == Cardinality(Diagnostics)  dn == Cardinality(Diagnostics)'
  <2>1. dn = d /\ Open' = Open /\ d \in Int
    BY <1>7 DEF Diagnostics, Open
  <2>2. admitted = d + Taken + Open + replaced + shown.count + n
    BY <1>6
  <2> HIDE DEF d, dn
  <2>3. admitted' = dn + Taken' + Open' + replaced' + shown'.count + nt
    <3> DEFINE w == Worth("counted", e)  s == shown.count  k == Taken  o == Open  r == replaced
    <3>1. shown'.count = s + w /\ n = w + nt /\ Taken' = k /\ Open' = o /\ replaced' = r
      BY <1>2, <1>5, <2>1
    <3>2. /\ s \in Int /\ w \in Int /\ nt \in Int /\ d \in Int /\ k \in Int /\ o \in Int
          /\ r \in Int
      BY <1>3, <1>4, <1>7, <2>1
    <3>3. admitted' = d + k + o + r + s + n
      BY <2>2
    <3> HIDE DEF w, s, k, o, r
    <3>4. d + k + o + r + s + (w + nt) = d + k + o + r + (s + w) + nt
      BY <3>2
    <3> QED
      BY <2>1, <3>1, <3>3, <3>4
  <2> QED
    BY <2>3 DEF CountInv, dn, nt
<1> QED
  BY <1>2, <1>8, <1>9 DEF AccountInv

LEMMA AccountWorker ==
  ASSUME Types, Types', OrderInv, AccountInv, WorkerStep
  PROVE  AccountInv'
<1> USE DEF Idle
<1>q. wpc # "render" => calls = <<>>
  BY DEF OrderInv
<1>a. AccountTypes
  BY TypedAccounts
<1>e. /\ Ending /\ ~failed => closed /\ omissions.count = 0 /\ group.count = 0
      /\ verdict = "healthy" => wpc = "stopped"
  BY DEF AccountInv, EndInv
<1>f. /\ calls' = <<>> => FewCalls'
      /\ failed' => ToldInv' /\ CountInv'
  BY DEF FewCalls, ToldInv, CountInv, Live
<1>n. NoItem.event.kind = "status" /\ NoGroup.count = 0
  BY DEF NoItem, Event, NoGroup
<1>1. CASE StopOnEmergency
  <2>1. failed' /\ calls' = <<>> /\ verdict' = verdict /\ wpc # "stopped"
    BY <1>1 DEF StopOnEmergency, session
  <2>2. EndInv'
    BY <1>e, <2>1 DEF EndInv
  <2> QED
    BY <1>f, <2>1, <2>2 DEF AccountInv
<1>2. CASE Due
  <2>1. /\ calls = <<>> /\ wpc = "top" /\ wpc' \in {"take", "render"} /\ after' = "take"
        /\ UNCHANGED <<queue, dropped, shown, admitted, failed, cancelled, omissions, replaced,
                       verdict>>
    BY <1>2, <1>q DEF Due, mailbox, producers, session
  <2>2. EndInv' /\ Taken = 0 /\ Taken' = 0
    BY <1>e, <2>1 DEF EndInv, Ending, Taken
  <2>3. \/ calls' \in {<<>>, <<Transient>>} /\ group' = group
        \/ calls' = GroupCalls /\ group' = NoGroup
    BY <1>2 DEF Due, CloseGroup
  <2>4. CASE calls' \in {<<>>, <<Transient>>} /\ group' = group
    <3>1. Adds(calls', 0, 0, 0, 4)
      <4>1. Adds(<<>>, 0, 0, 0, 4)
        BY AddsNone, AddsWiden
      <4>2. Adds(<<Transient>>, 0, 0, 0, 1)
        BY AddsPlain DEF Types, WorkerTypes
      <4>3. Adds(<<Transient>>, 0, 0, 0, 4)
        BY <4>2, AddsWiden
      <4> QED
        BY <2>4, <4>1, <4>3
    <3>2. Taken + Open = Taken' + Open' + (replaced' - replaced) + 0
      BY <1>a, <2>1, <2>2, <2>4 DEF Open, AccountTypes
    <3> QED
      BY <2>1, <2>2, <3>1, <3>2, AccountCalls
  <2>5. CASE calls' = GroupCalls /\ group' = NoGroup
    <3> DEFINE n == Open
    <3>1. Adds(calls', n, 0, 0, 4) /\ n \in Int
      <4>1. Adds(GroupCalls, n, 0, 0, 1)
        BY AddsGroup
      <4>2. Adds(GroupCalls, n, 0, 0, 4)
        BY <4>1, AddsWiden
      <4> QED
        BY <2>5, <4>2, <1>a DEF AccountTypes
    <3>2. Taken + Open = Taken' + Open' + (replaced' - replaced) + n
      <4>1. Open' = 0
        BY <1>n, <2>5 DEF Open
      <4> QED
        BY <1>a, <2>1, <2>2, <4>1 DEF AccountTypes
    <3> HIDE DEF n
    <3> QED
      BY <2>1, <2>2, <3>1, <3>2, AccountCalls
  <2> QED
    BY <2>3, <2>4, <2>5
<1>3. CASE Take
  <2>1. /\ wpc = "take" /\ wpc' \in {"recheck", "parked"} /\ calls = <<>>
        /\ UNCHANGED <<dropped, shown, admitted, failed, cancelled, omissions, replaced,
                       verdict, calls, group>>
    BY <1>3, <1>q DEF Take, PopOldest, Park, mailbox, producers, session, display
  <2>2. EndInv'
    BY <1>e, <2>1 DEF EndInv, Ending
  <2>3. Cardinality(Diagnostics)' + Taken' = Cardinality(Diagnostics) + Taken
    <3>1. Taken = 0
      BY <2>1 DEF Taken
    <3>2. CASE PopOldest /\ item' = Head(queue) /\ wpc' = "recheck"
      <4>1. queue # <<>> /\ queue' = Tail(queue) /\ queue \in Seq(Admissions)
        BY <3>2 DEF PopOldest, Types, TypeOK, MailboxTypeOK, Admissions
      <4>2. Taken' = OneIf(Head(queue).event)
        BY <3>2 DEF Taken, OneIf
      <4>3. /\ Diagnostics = DiagnosticsIn(queue)
            /\ Diagnostics' = DiagnosticsIn(Tail(queue))
        BY <4>1 DEF Diagnostics, DiagnosticsIn
      <4>4. Cardinality(DiagnosticsIn(queue))
               = Cardinality(DiagnosticsIn(Tail(queue))) + OneIf(Head(queue).event)
        BY <4>1, DiagnosticsTail
      <4>5. Cardinality(DiagnosticsIn(Tail(queue))) \in Nat
        <5>1. Tail(queue) \in Seq(Admissions)
          BY <4>1
        <5> QED
          BY <5>1, DiagnosticsFinite
      <4> QED
        BY <3>1, <4>2, <4>3, <4>4, <4>5 DEF OneIf
    <3>3. CASE queue' = queue /\ (item' = NoItem \/ wpc' = "parked")
      <4>1. Taken' = 0 /\ Diagnostics' = Diagnostics
        BY <1>n, <3>3 DEF Taken, Diagnostics
      <4> QED
        BY <3>1, <4>1
    <3> QED
      BY <1>3, <3>2, <3>3 DEF Take, Park, mailbox
  <2>4. FewCalls' /\ ToldInv'
    BY <2>1 DEF AccountInv, FewCalls, ToldInv, Live
  <2>5. CountInv'
    <3> DEFINE d == Cardinality(Diagnostics)  n == Sum("counted", calls)
    <3>1. /\ d' + Taken' = d + Taken /\ Open' = Open /\ n' = n
          /\ d \in Int /\ n \in Int /\ Open \in Int /\ Taken \in Int
          /\ d' \in Int /\ Taken' \in Int
      BY <1>a, <2>1, <2>3, TypedAccountsNext DEF AccountTypes, Sums, Open
    <3>2. Live' => admitted = d + Taken + Open + replaced + shown.count + n
      BY <2>1 DEF AccountInv, CountInv, Live
    <3>3. replaced \in Int /\ shown.count \in Int
      BY <1>a DEF AccountTypes
    <3> HIDE DEF d, n
    <3>4. (d + Taken) + Open + replaced + shown.count + n
             = (d' + Taken') + Open' + replaced' + shown'.count + n'
      BY <2>1, <3>1
    <3>5. Live' => admitted' = d' + Taken' + Open' + replaced' + shown'.count + n'
      BY <2>1, <3>2, <3>4
    <3> QED
      BY <3>5 DEF CountInv, d, n
  <2> QED
    BY <2>2, <2>4, <2>5 DEF AccountInv
<1>4. CASE Wake
  <2>1. /\ UNCHANGED <<omissions, dropped, shown, calls, group, replaced, admitted, queue,
                       failed, cancelled, verdict>>
        /\ wpc = "parked" /\ wpc' = "take"
    BY <1>4 DEF Wake, producers, session, display
  <2>2. EndInv' /\ Taken' = Taken /\ Diagnostics' = Diagnostics /\ (Live' => Live)
    BY <1>e, <2>1 DEF EndInv, Ending, Taken, Diagnostics, Live
  <2> QED
    BY <2>1, <2>2, AccountFrame
<1>5. CASE CloseOut
  <2>1. /\ calls = <<>> /\ wpc = "recheck" /\ item = NoItem
        /\ UNCHANGED <<queue, dropped, shown, admitted, failed, cancelled, replaced, verdict>>
    BY <1>5, <1>q DEF CloseOut, mailbox, producers, session, TakeNotice
  <2>2. Taken = 0
    BY <1>n, <2>1 DEF Taken
  <2>3. CASE closed
    <3> DEFINE b == IF NoticeDue(-1) THEN <<NoticeEntry>> ELSE <<>>
               c == <<Transient>>  n == Open
               t == IF NoticeDue(-1) THEN ToldNow ELSE 0
               v == IF NoticeDue(-1) THEN VagueNow ELSE 0
    <3>1. /\ calls' = GroupCalls \o b \o c /\ group' = NoGroup
          /\ omissions' = (IF NoticeDue(-1) THEN NoOmissions ELSE omissions)
          /\ wpc' = "render" /\ after' = "stop" /\ closed' = closed
      BY <1>5, <2>3 DEF CloseOut, CloseGroup, TakeNotice
    <3>2. Adds(b, 0, t, v, 1) /\ t \in Int /\ v \in Int
      <4>1. Adds(<<>>, 0, 0, 0, 1)
        BY AddsNone, AddsWiden
      <4>2. Adds(<<NoticeEntry>>, 0, ToldNow, VagueNow, 1) /\ ToldNow \in Int /\ VagueNow \in Int
        BY AddsNoticeEntry
      <4> QED
        BY <4>1, <4>2
    <3>3. Adds(c, 0, 0, 0, 2)
      <4>1. Adds(c, 0, 0, 0, 1)
        BY AddsPlain DEF Types, WorkerTypes
      <4> QED
        BY <4>1, AddsWiden
    <3>4. /\ Open' = 0 /\ Taken' = 0 /\ n \in Int
      BY <1>a, <1>n, <3>1 DEF Open, Taken, AccountTypes
    <3>5. Taken + Open = Taken' + Open' + (replaced' - replaced) + n
      BY <1>a, <2>1, <2>2, <3>4 DEF AccountTypes
    <3>6. \/ t = 0 /\ v = 0 /\ omissions' = omissions
          \/ t = ToldNow /\ v = VagueNow /\ omissions' = NoOmissions
      BY <3>1
    <3>7. omissions'.count = 0
      BY <1>a, <3>1 DEF NoticeDue, NoOmissions, AccountTypes
    <3>8. EndInv'
      BY <1>e, <1>n, <2>1, <2>3, <3>1, <3>7 DEF EndInv, Ending
    <3> HIDE DEF b, c, n, t, v
    <3>9. Adds(GroupCalls \o b \o c, Open + 0, t, v, 4)
      BY <3>2, <3>3, AddsAfterNotice
    <3>10. Adds(calls', n, t, v, 4)
      BY <3>1, <3>4, <3>9 DEF n
    <3> QED
      BY <2>1, <3>4, <3>5, <3>6, <3>8, <3>10, AccountCalls
  <2>4. CASE ~closed
    <3>1. /\ UNCHANGED <<omissions, dropped, shown, calls, group, replaced, admitted>>
          /\ wpc' = "top"
      BY <1>5, <2>1, <2>4 DEF CloseOut, mailbox, display
    <3>2. EndInv' /\ Taken' = Taken /\ Diagnostics' = Diagnostics /\ (Live' => Live)
      BY <1>e, <2>1, <2>2, <3>1 DEF EndInv, Ending, Taken, Diagnostics, Live
    <3> QED
      BY <3>1, <3>2, AccountFrame
  <2> QED
    BY <2>3, <2>4
<1>6. CASE Dispatch
  <2>1. /\ calls = <<>> /\ wpc = "recheck" /\ item \in Items /\ Show(item)
        /\ wpc' \in {"top", "render"} /\ after' = "top"
        /\ UNCHANGED <<queue, dropped, shown, admitted, failed, cancelled, verdict>>
    BY <1>6, <1>q DEF Dispatch, mailbox, producers, session, TakeNotice, Types, WorkerTypes
  <2>2. Taken = OneIf(item.event) /\ Taken' = 0
    BY <2>1 DEF Taken, OneIf
  <2>3. EndInv'
    BY <1>e, <2>1 DEF EndInv, Ending
  <2> DEFINE t == ToldBy(item)  v == VagueBy(item)
  <2>4. PICK n \in Int : /\ Adds(calls', n, t, v, 4)
                         /\ Open + OneIf(item.event) = Open' + (replaced' - replaced) + n
    BY <2>1, ShowSums DEF ShowAdds
  <2>5. Taken + Open = Taken' + Open' + (replaced' - replaced) + n
    <3>1. Open \in Int /\ Open' \in Int /\ replaced \in Int /\ replaced' \in Int
          /\ OneIf(item.event) \in Int
      BY <1>a, TypedAccountsNext DEF AccountTypes, OneIf
    <3> QED
      BY <2>2, <2>4, <3>1
  <2>6. \/ t = 0 /\ v = 0 /\ omissions' = omissions
        \/ t = ToldNow /\ v = VagueNow /\ omissions' = NoOmissions
    <3>1. CASE item.event.kind \in {"diagnostic", "ended"} /\ NoticeDue(item.seq)
      <4>1. Notice(item) = <<NoticeEntry>> /\ omissions' = NoOmissions
        BY <1>6, <3>1 DEF Dispatch, TakeNotice, Notice
      <4>2. <<NoticeEntry>> # <<>>
        OBVIOUS
      <4> QED
        BY <4>1, <4>2 DEF ToldBy, VagueBy
    <3>2. CASE ~(item.event.kind \in {"diagnostic", "ended"} /\ NoticeDue(item.seq))
      <4>1. Notice(item) = <<>> /\ omissions' = omissions
        BY <1>6, <3>2 DEF Dispatch, TakeNotice, Notice, mailbox
      <4> QED
        BY <4>1 DEF ToldBy, VagueBy
    <3> QED
      BY <3>1, <3>2
  <2> HIDE DEF t, v
  <2> QED
    BY <2>1, <2>3, <2>4, <2>5, <2>6, AccountCalls
<1>7. CASE Render
  <2>1. /\ wpc = "render" /\ verdict' = verdict
        /\ wpc' \in {wpc, after} /\ after' = after
        /\ UNCHANGED <<queue, omissions, dropped, group, replaced, admitted, failed, cancelled,
                       closed>>
    BY <1>7 DEF Render, mailbox, producers, session, display
  <2>2. after \in {"top", "take", "stop"}
    BY DEF Types, WorkerTypes
  <2>3. Taken = 0 /\ Taken' = 0 /\ EndInv'
    BY <1>e, <2>1, <2>2 DEF Taken, EndInv, Ending
  <2>4. CASE calls # <<>> /\ ~failed /\ ~cancelled
    <3>1. calls' = Tail(calls) /\ shown' = Written(Head(calls))
      BY <1>7, <2>4 DEF Render
    <3> QED
      BY <2>1, <2>3, <2>4, <3>1, AccountWrite
  <2>5. CASE calls = <<>>
    <3>1. calls' = calls /\ shown' = shown
      BY <1>7, <2>5 DEF Render
    <3>2. Diagnostics' = Diagnostics /\ (Live' => Live) /\ Taken' = Taken
      BY <2>1, <2>3 DEF Diagnostics, Live
    <3> QED
      BY <2>1, <2>3, <3>1, <3>2, AccountFrame
  <2>6. CASE failed \/ cancelled
    <3>1. calls' = <<>> /\ (failed' \/ cancelled')
      BY <1>7, <2>1, <2>6 DEF Render
    <3>2. ToldInv' /\ CountInv'
      BY <3>1 DEF ToldInv, CountInv, Live
    <3> QED
      BY <1>f, <2>3, <3>1, <3>2 DEF AccountInv
  <2> QED
    BY <2>4, <2>5, <2>6
<1>8. CASE RenderFails
  <2>1. failed' /\ calls' = Tail(calls) /\ calls # <<>> /\ verdict' = verdict /\ wpc = "render"
    BY <1>8 DEF RenderFails, session
  <2>2. FewCalls'
    BY <1>a, <2>1, SumTail DEF AccountInv, FewCalls, AccountTypes
  <2>3. EndInv'
    BY <1>e, <2>1 DEF EndInv
  <2> QED
    BY <1>f, <2>1, <2>2, <2>3 DEF AccountInv
<1>9. CASE WorkerStops
  <2>1. /\ UNCHANGED <<omissions, dropped, shown, calls, group, replaced, admitted, queue,
                       failed, cancelled, verdict, closed>>
        /\ wpc = "stop" /\ wpc' = "stopped"
    BY <1>9 DEF WorkerStops, producers, session, mailbox, display
  <2>2. EndInv' /\ Taken' = Taken /\ Diagnostics' = Diagnostics /\ (Live' => Live)
    BY <1>e, <2>1 DEF EndInv, Ending, Taken, Diagnostics, Live
  <2> QED
    BY <2>1, <2>2, AccountFrame
<1> QED
  BY <1>1, <1>2, <1>3, <1>4, <1>5, <1>6, <1>7, <1>8, <1>9 DEF WorkerStep

LEMMA AccountSession ==
  ASSUME Types, AccountInv, SessionStep
  PROVE  AccountInv'
<1> USE DEF Facade
<1>e. /\ Ending /\ ~failed => closed /\ omissions.count = 0 /\ group.count = 0
      /\ verdict = "healthy" => wpc = "stopped"
  BY DEF AccountInv, EndInv
<1>1. CASE SubmitFinalReport
  <2>1. Event("report") \in Events /\ Event("report").kind # "diagnostic"
    BY EventTyped DEF EventKinds, ControlKinds, Event
  <2>2. /\ Admit(Event("report")) /\ admitted' = admitted
        /\ UNCHANGED <<display, failed, worker, shown, replaced, verdict>>
    BY <1>1 DEF SubmitFinalReport, producers
  <2> QED
    BY <2>1, <2>2, AccountAdmit
<1>2. CASE ~SubmitFinalReport
  <2>1. /\ UNCHANGED <<queue, omissions, dropped, shown, calls, group, replaced, admitted, item,
                       wpc, after>>
        /\ (failed => failed') /\ (cancelled => cancelled') /\ (closed => closed')
    BY <1>2 DEF SessionStep, Shutdown, Close, Judge, Expire, CancelDisplay, Signal,
       SignalEmergency, mailbox, display, worker, producers
  <2>2. verdict' = "healthy" => verdict = "healthy" \/ wpc = "stopped"
    BY <1>2 DEF SessionStep, Shutdown, Judge, Expire, CancelDisplay, Signal
  <2>3. EndInv' /\ Taken' = Taken /\ Diagnostics' = Diagnostics /\ (Live' => Live)
    BY <1>e, <2>1, <2>2 DEF EndInv, Ending, Taken, Diagnostics, Live
  <2> QED
    BY <2>1, <2>3, AccountFrame
<1> QED
  BY <1>1, <1>2

LEMMA AccountStep == Types /\ OrderInv /\ AccountInv /\ [Next]_vars => AccountInv'
<1> SUFFICES ASSUME Types, OrderInv, AccountInv, [Next]_vars PROVE AccountInv'
  OBVIOUS
<1>1. CASE WorkerStep
  <2>1. Types'
    BY <1>1, TypesWorker
  <2> QED
    BY <1>1, <2>1, AccountWorker
<1>2. CASE ProducerStep
  <2>1. PICK event \in Events : Produce(event)
    BY <1>2, ProducedEvent
  <2> QED
    BY <2>1, AccountAdmit DEF Produce, session
<1>3. CASE TimePasses \/ UNCHANGED vars
  <2>1. UNCHANGED <<omissions, dropped, shown, calls, group, replaced, admitted, queue, failed,
                    cancelled, verdict, closed, wpc, after, item>>
    BY <1>3 DEF TimePasses, vars, mailbox, display, worker, producers, session
  <2>2. EndInv' /\ Taken' = Taken /\ Diagnostics' = Diagnostics /\ (Live' => Live)
    BY <2>1 DEF AccountInv, EndInv, Ending, Taken, Diagnostics, Live
  <2> QED
    BY <2>1, <2>2, AccountFrame
<1> QED
  BY <1>1, <1>2, <1>3, AccountSession DEF Next

LEMMA AccountHolds == Spec => [](Types /\ AccountInv)
<1>1. Types /\ OrderInv /\ AccountInv /\ [Next]_vars => Types' /\ OrderInv' /\ AccountInv'
  BY TypesStep, OrderStep, AccountStep
<1> QED
  BY <1>1, TypesInit, OrderInit, AccountInit, PTL DEF Spec

\* Every diagnostic dropped for lack of room is told of or still pending, in
\* exact numbers unless a notice says "at least": through saturation of the
\* counter, notices held back until their boundary, and the closing round.
THEOREM DroppedAreReported == Spec => []OmissionsReported
<1>1. Types /\ AccountInv => OmissionsReported
  <2> SUFFICES ASSUME Types, AccountInv, Functioning PROVE OmissionsReported
    BY DEF OmissionsReported
  <2>1. Live /\ Sum("told", calls) = 0 /\ Sum("vague", calls) = 0
    BY SumNone DEF Functioning, Live, Sums
  <2>2. AccountTypes
    BY TypedAccounts
  <2> QED
    BY <2>1, <2>2 DEF AccountInv, ToldInv, OmissionsReported, AccountTypes
<1> QED
  BY <1>1, AccountHolds, PTL

\* No occurrence of an admitted diagnostic is lost or invented, whatever is
\* grouped, counted, replaced or closed, in every mode and for any capacities.
THEOREM OccurrencesNeverLost == Spec => []OccurrencesAccounted
<1>1. Types /\ AccountInv => OccurrencesAccounted
  <2> SUFFICES ASSUME Types, AccountInv, Functioning PROVE OccurrencesAccounted
    BY DEF OccurrencesAccounted
  <2>1. Live /\ Sum("counted", calls) = 0
    BY SumNone DEF Functioning, Live, Sums
  <2>2. AccountTypes
    BY TypedAccounts
  <2>3. admitted = Cardinality(Diagnostics) + Taken + Open + replaced + shown.count
    BY <2>1, <2>2 DEF AccountInv, CountInv, AccountTypes
  <2> QED
    BY <2>3 DEF OccurrencesAccounted, Diagnostics, Taken, Open
<1> QED
  BY <1>1, AccountHolds, PTL

\* A session that ends well owes nothing: no omission and no open group.
THEOREM EndsWithNothingPending == Spec => []NothingPendingAfterClose
<1>1. AccountInv => NothingPendingAfterClose
  BY DEF AccountInv, EndInv, Ending, NothingPendingAfterClose
<1> QED
  BY <1>1, AccountHolds, PTL
=============================================================================
