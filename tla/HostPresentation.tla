-------------------------- MODULE HostPresentation --------------------------
(***************************************************************************)
(* A live presentation session of the host: versioning/host_presentation   *)
(* with the grouping of versioning/diagnostic_identity.  Producers admit   *)
(* events to the mailbox, one worker thread takes them and drives the      *)
(* display, and the session submits the final report and shuts down within *)
(* a bounded time even if the renderer hangs.                              *)
(*                                                                         *)
(* Simplifications.  A renderer call that changes only what is transient   *)
(* (status, slot) is one Transient call; of the durable ones shown keeps    *)
(* what the properties compare.                                            *)
(* Time is a deadline that runs and falls due (the one-second window of    *)
(* lines mode, the refresh of interactive mode).  Whether a heartbeat is   *)
(* drawn in lines mode depends on the clock: either may happen.  A write   *)
(* and its check of the cancellation are one step, as the write reads      *)
(* nothing else.  The host name policy and the wording are left out.       *)
(***************************************************************************)
EXTENDS PresentationMailbox

CONSTANTS Mode,          \* "interactive", "lines" or "off"
          Exact,         \* network_url_display is EXACT: nothing is grouped
          FetchTexts,    \* texts that are recognised fetches
          TemplateOf,    \* the text with its numbers abstracted
          MaxLines, MaxParts, MaxControls, MaxStatus   \* bounds of the producers

ASSUME PresentationAssumption ==
  /\ Mode \in {"interactive", "lines", "off"}
  /\ Exact \in BOOLEAN
  /\ FetchTexts \subseteq Texts

VARIABLES
  lineNo, parts, over,      \* per stream: the line being read, its prefixes, oversized
  step,                     \* per stream: the phase and step whose output it is
  controls, statuses,       \* numbers of control and status events emitted
  group,                    \* the DiagnosticGroup of the coalescer
  provisional, overShown,   \* _provisional, _overflow_presented
  deadline,                 \* next_deadline: "none", "running" or "due"
  failed,                   \* _rendering_failed
  wpc, item, calls, after,  \* the worker: place, event taken, renderer calls to make
  spc, verdict,             \* the session: place, result of shutdown
  shown, admitted, replaced \* history: what was written, occurrences admitted, replaced

producers == <<lineNo, parts, over, step, controls, statuses, admitted>>
display == <<group, provisional, overShown, deadline>>
worker == <<wpc, item, calls, after>>
session == <<spc, verdict>>
vars == <<mailbox, producers, display, failed, worker, session, shown, replaced>>

NoItem == [event |-> Event("status"), seq |-> -1]
NoGroup == [stream |-> NoStream, step |-> 0, text |-> NoText, line |-> 0, count |-> 0, seq |-> -1]
NewGroup(it) == [stream |-> it.event.stream, step |-> it.event.step, text |-> it.event.text,
                 line |-> it.event.line, count |-> 1, seq |-> it.seq]
NoLines == [s \in Streams |-> 0]

Init ==
  /\ MailboxInit
  /\ lineNo = [s \in Streams |-> 1]
  /\ parts = NoLines
  /\ over = [s \in Streams |-> FALSE]
  /\ step = NoLines
  /\ controls = 0 /\ statuses = 0
  /\ group = NoGroup
  /\ provisional = NoLines /\ overShown = {} /\ deadline = "none"
  /\ failed = FALSE
  /\ wpc = "top" /\ item = NoItem /\ calls = <<>> /\ after = "top"
  /\ spc = "open" /\ verdict = "none"
  /\ shown = [seq |-> -1, line |-> NoLines, count |-> 0, told |-> 0, vague |-> FALSE]
  /\ admitted = 0 /\ replaced = 0

----------------------------------------------------------------------------
(* Renderer calls.                                                         *)

Entry(kind, stream, line, count, seq) ==
  [kind |-> kind, stream |-> stream, line |-> line, count |-> count, seq |-> seq]
Transient == Entry("transient", NoStream, 0, 0, -1)
LineEntry(it) == Entry("line", it.event.stream, it.event.line, 1, it.seq)
PartEntry(it) == Entry("part", it.event.stream, it.event.line, 0, it.seq)
ControlEntry(it) == Entry("control", NoStream, 0, 0, it.seq)
NoticeEntry == Entry(IF omissions.uncertain THEN "at_least" ELSE "notice",
                     NoStream, 0, omissions.count, -1)
Notice(it) ==
  IF it.event.kind \in {"diagnostic", "ended"} /\ NoticeDue(it.seq) THEN <<NoticeEntry>> ELSE <<>>

\* _finalize_current: interactive mode writes the group now, the other modes
\* have written its first occurrence and may owe the count.
GroupEntry ==
  Entry(IF Mode = "interactive" THEN "line" ELSE "summary",
        group.stream, group.line, group.count, group.seq)

\* A possible bug: off by one in when a group owes a line.
GroupCallsLate ==
  IF group.count > (IF Mode = "interactive" THEN 1 ELSE 2) THEN <<GroupEntry>> ELSE <<>>

GroupCalls ==
  IF group.count >= (IF Mode = "interactive" THEN 1 ELSE 2) THEN <<GroupEntry>> ELSE <<>>

----------------------------------------------------------------------------
(* What each kind of event does to the display.  Each operator says which  *)
(* calls follow and what becomes of the group, the provisional lines and   *)
(* the deadline.                                                           *)

CloseGroup == group' = NoGroup /\ deadline' = "none"
Forget(s) == provisional' = [provisional EXCEPT ![s] = 0] /\ overShown' = overShown \ {s}
ForgetAll == provisional' = NoLines /\ overShown' = {}

ShowPrefix(it) ==
  LET s == it.event.stream
      reveals == Mode = "lines" /\ it.event.over /\ s \notin overShown
  IN IF Mode = "off"
     THEN calls' = <<>> /\ UNCHANGED <<display, replaced>>
     ELSE /\ provisional' = [provisional EXCEPT ![s] = it.event.line]
          /\ overShown' = IF reveals THEN overShown \cup {s} ELSE overShown
          /\ calls' = IF Mode = "interactive" THEN <<Transient>>
                      ELSE IF reveals THEN GroupCalls \o <<PartEntry(it)>> ELSE <<>>
          /\ IF reveals THEN CloseGroup ELSE UNCHANGED <<group, deadline>>
          /\ UNCHANGED replaced

ShowBoundary(it) ==
  LET s == it.event.stream
  IN IF Mode = "off"
     THEN calls' = <<>> /\ UNCHANGED <<display, replaced>>
     ELSE /\ provisional' = [provisional EXCEPT ![s] = 0]
          /\ overShown' = IF Mode = "lines" THEN overShown \ {s} ELSE overShown
          /\ IF Mode = "lines" /\ s \in overShown
             THEN calls' = <<>> /\ UNCHANGED <<group, deadline>>
             ELSE calls' = GroupCalls \o <<PartEntry(it)>> /\ CloseGroup
          /\ UNCHANGED replaced

\* presentation_metadata: what is compared before the text.
SameSource(it) == group.count > 0 /\ group.stream = it.event.stream /\ group.step = it.event.step
SameGroup(it) == SameSource(it) /\ group.text = it.event.text
Variant(it) ==
  /\ Mode = "interactive" /\ SameSource(it) /\ group.text # it.event.text
  /\ {group.text, it.event.text} \cap FetchTexts = {}
  /\ TemplateOf[group.text] = TemplateOf[it.event.text]

\* A notice closes the group first; otherwise the group decides.
ShowDiagnostic(it) ==
  LET notice == Notice(it)
      repeat == SameGroup(it) /\ notice = <<>>
      variant == Variant(it) /\ notice = <<>>
      closing == IF repeat \/ variant THEN <<>> ELSE GroupCalls \o notice
  IN /\ Forget(it.event.stream)
     /\ replaced' = IF variant /\ ~Exact THEN replaced + group.count ELSE replaced
     /\ IF Exact
        THEN calls' = GroupCalls \o notice \o <<LineEntry(it)>> /\ CloseGroup
        ELSE /\ group' = IF repeat THEN [group EXCEPT !.count = @ + 1] ELSE NewGroup(it)
             /\ IF Mode = "interactive"
                THEN /\ calls' = closing \o (IF repeat /\ it.event.text \notin FetchTexts
                                             THEN <<>> ELSE <<Transient>>)
                     /\ deadline' = IF deadline = "none" \/ notice # <<>> THEN "running" ELSE deadline
                ELSE /\ calls' = closing \o (IF repeat THEN <<>> ELSE <<LineEntry(it)>>)
                     /\ deadline' = IF repeat THEN deadline ELSE "running"

ShowStatus(it) ==
  /\ calls' \in CASE Mode = "interactive" -> {<<Transient>>}
                  [] Mode = "lines" -> {<<>>, <<Transient>>}
                  [] Mode = "off" -> {<<>>}
  /\ UNCHANGED <<display, replaced>>

\* STARTED closes a group of fetches only.
ShowStarted(it) ==
  LET fetching == group.count > 0 /\ group.text \in FetchTexts
  IN /\ calls' = (IF fetching THEN GroupCalls ELSE <<>>) \o
                 (CASE Mode = "interactive" -> <<Transient>>
                    [] Mode = "lines" -> <<ControlEntry(it)>>
                    [] Mode = "off" -> IF it.event.kind = "phase" THEN <<ControlEntry(it)>> ELSE <<>>)
     /\ IF fetching THEN CloseGroup ELSE UNCHANGED <<group, deadline>>
     /\ IF it.event.kind = "step" THEN ForgetAll ELSE UNCHANGED <<provisional, overShown>>
     /\ UNCHANGED replaced

\* A possible bug: a terminal state is drawn before the group it ends.
ShowEndedFirst(it) ==
  /\ calls' = Notice(it) \o <<Transient, ControlEntry(it)>> \o GroupCalls
  /\ CloseGroup /\ ForgetAll
  /\ UNCHANGED replaced

ShowEnded(it) ==
  /\ calls' = GroupCalls \o Notice(it) \o <<Transient, ControlEntry(it)>>
  /\ CloseGroup /\ ForgetAll
  /\ UNCHANGED replaced

ShowReport(it) ==
  /\ calls' = GroupCalls \o <<ControlEntry(it)>>
  /\ CloseGroup
  /\ UNCHANGED <<provisional, overShown, replaced>>

Show(it) ==
  CASE it.event.kind = "prefix" -> ShowPrefix(it)
    [] it.event.kind = "boundary" -> ShowBoundary(it)
    [] it.event.kind = "diagnostic" -> ShowDiagnostic(it)
    [] it.event.kind = "status" -> ShowStatus(it)
    [] it.event.kind \in {"step", "phase"} -> ShowStarted(it)
    [] it.event.kind = "ended" -> ShowEnded(it)
    [] it.event.kind = "report" -> ShowReport(it)

----------------------------------------------------------------------------
(* The worker: PresentationWorker._run.                                    *)

Idle(place) == wpc = place /\ UNCHANGED <<producers, session, shown, replaced>>

\* _stop_on_emergency and HostPresentationState.cancel
StopOnEmergency ==
  /\ \E place \in {"top", "recheck"} : Idle(place)
  /\ aborted
  /\ Drain
  /\ failed' = TRUE
  /\ ForgetAll /\ deadline' = "none"
  /\ wpc' = "stop" /\ calls' = <<>>
  /\ UNCHANGED <<group, item, after>>

\* due: a deadline that has passed is serviced before the worker waits.
Due ==
  /\ Idle("top") /\ ~aborted
  /\ IF deadline # "due"
     THEN calls' = <<>> /\ UNCHANGED <<group, deadline>>
     ELSE IF Mode = "interactive"
     THEN /\ calls' \in IF group.count > 0 THEN {<<>>, <<Transient>>} ELSE {<<>>}
          /\ deadline' = IF group.count > 0 THEN "running" ELSE "none"
          /\ UNCHANGED group
     ELSE calls' = GroupCalls /\ CloseGroup
  /\ wpc' = (IF calls' = <<>> THEN "take" ELSE "render") /\ after' = "take"
  /\ UNCHANGED <<mailbox, failed, provisional, overShown, item>>

Take ==
  /\ Idle("take")
  /\ UNCHANGED <<display, failed, calls, after>>
  /\ \/ PopOldest /\ item' = Head(queue) /\ wpc' = "recheck"
     \/ /\ aborted \/ (queue = <<>> /\ (closed \/ deadline = "due"))
        /\ item' = NoItem /\ wpc' = "recheck" /\ UNCHANGED mailbox
     \/ Park /\ deadline # "due" /\ wpc' = "parked" /\ UNCHANGED item

\* The condition is signalled, or the deadline the wait was given has passed.
Wake ==
  /\ Idle("parked")
  /\ ~parked \/ deadline = "due"
  /\ parked' = FALSE /\ wpc' = "take"
  /\ UNCHANGED <<queue, sequence, closed, aborted, cancelled, omissions, dropped>>
  /\ UNCHANGED <<display, failed, item, calls, after>>

\* A possible bug: the pending omissions are not announced at the end.
CloseOutSilently ==
  /\ Idle("recheck") /\ ~aborted /\ item = NoItem
  /\ IF closed
     THEN /\ calls' = GroupCalls \o <<Transient>>
          /\ CloseGroup /\ ForgetAll
          /\ wpc' = "render" /\ after' = "stop"
     ELSE /\ wpc' = "top"
          /\ UNCHANGED <<display, calls, after>>
  /\ UNCHANGED <<mailbox, failed, item>>

\* Nothing was taken: the closed flag is read under the lock again, later.
CloseOut ==
  /\ Idle("recheck") /\ ~aborted /\ item = NoItem
  /\ IF closed
     THEN /\ calls' = GroupCalls \o (IF NoticeDue(-1) THEN <<NoticeEntry>> ELSE <<>>) \o <<Transient>>
          /\ TakeNotice(-1)
          /\ CloseGroup /\ ForgetAll
          /\ wpc' = "render" /\ after' = "stop"
     ELSE /\ wpc' = "top"
          /\ UNCHANGED <<mailbox, display, calls, after>>
  /\ UNCHANGED <<failed, item>>

Dispatch ==
  /\ wpc = "recheck" /\ ~aborted /\ item # NoItem
  /\ IF item.event.kind \in {"diagnostic", "ended"} THEN TakeNotice(item.seq) ELSE UNCHANGED mailbox
  /\ Show(item)
  /\ item' = NoItem
  /\ wpc' = (IF calls' = <<>> THEN "top" ELSE "render") /\ after' = "top"
  /\ UNCHANGED <<producers, session, failed, shown>>

InOrder == {"line", "part", "control"}    \* kinds that are written as they come
Counted(e) == IF e.kind = "line" THEN e.count
              ELSE IF e.kind = "summary" THEN e.count - 1 ELSE 0
Written(e) ==
  [seq |-> IF e.kind \in InOrder THEN e.seq ELSE shown.seq,
   line |-> IF e.kind \in {"line", "part"}
            THEN [shown.line EXCEPT ![e.stream] = e.line] ELSE shown.line,
   count |-> shown.count + Counted(e),
   told |-> shown.told + (IF e.kind \in {"notice", "at_least"} THEN e.count ELSE 0),
   vague |-> IF e.kind = "at_least" THEN TRUE ELSE shown.vague]

\* _safe: one renderer call, made unless rendering failed or was cancelled.
Render ==
  /\ wpc = "render"
  /\ UNCHANGED <<mailbox, producers, session, item, after, replaced>>
  /\ \/ /\ calls = <<>> \/ failed \/ cancelled
        /\ calls' = <<>> /\ wpc' = after
        /\ UNCHANGED <<display, failed, shown>>
     \/ /\ calls # <<>> /\ ~failed /\ ~cancelled
        /\ calls' = Tail(calls)
        /\ wpc' = IF calls' = <<>> THEN after ELSE wpc
        /\ shown' = Written(Head(calls))
        /\ UNCHANGED <<display, failed>>

\* The renderer raises: rendering is off for good, pending state is dropped.
RenderFails ==
  /\ wpc = "render" /\ calls # <<>> /\ ~failed /\ ~cancelled
  /\ failed' = TRUE
  /\ CloseGroup /\ ForgetAll
  /\ calls' = Tail(calls)
  /\ UNCHANGED <<mailbox, producers, session, wpc, item, after, shown, replaced>>

\* mark_worker_stopped; the thread ends.
WorkerStops ==
  /\ Idle("stop")
  /\ wpc' = "stopped"
  /\ UNCHANGED <<mailbox, display, failed, item, calls, after>>

----------------------------------------------------------------------------
(* The session: HostPresentationSession.                                   *)

Facade(place) ==
  /\ spc = place
  /\ UNCHANGED <<producers, worker, display, shown, replaced>>

SubmitFinalReport ==
  /\ Facade("open")
  /\ Admit(Event("report"))
  /\ spc' = "reported"
  /\ UNCHANGED <<failed, verdict>>

Shutdown ==
  /\ \E place \in {"open", "reported"} : Facade(place)
  /\ Close
  /\ spc' = "waiting"
  /\ UNCHANGED <<failed, verdict>>

\* The worker has completed and its thread is gone.
Judge ==
  /\ Facade("waiting") /\ wpc = "stopped"
  /\ verdict' = IF aborted THEN "unhealthy" ELSE "healthy"
  /\ spc' = IF aborted THEN "cancelling" ELSE "done"
  /\ UNCHANGED <<mailbox, failed>>

\* A possible bug: the join has no bound.
ExpireOnceCompleted ==
  /\ Facade("waiting") /\ wpc = "stop"
  /\ verdict' = "unhealthy"
  /\ spc' = "cancelling"
  /\ UNCHANGED <<mailbox, failed>>

\* WORKER_JOIN_SECONDS have passed.
Expire ==
  /\ Facade("waiting") /\ wpc # "stopped"
  /\ verdict' = "unhealthy"
  /\ spc' = "cancelling"
  /\ UNCHANGED <<mailbox, failed>>

CancelDisplay ==
  /\ spc = "cancelling"
  /\ failed' = TRUE
  /\ ForgetAll /\ deadline' = "none"
  /\ spc' = "signalling"
  /\ UNCHANGED <<mailbox, producers, worker, group, verdict, shown, replaced>>

Signal ==
  /\ Facade("signalling")
  /\ SignalEmergency
  /\ spc' = "done"
  /\ UNCHANGED <<failed, verdict>>

----------------------------------------------------------------------------
(* The producers: the reader of each stream, the activity monitor, the     *)
(* orchestrator.  They may outlive shutdown, and none of them waits; what   *)
(* they do after the session ended is rejected and not modelled.           *)

Produce(event) ==
  /\ spc # "done"
  /\ Admit(event)
  /\ admitted' = IF event.kind = "diagnostic" /\ Len(queue') > Len(queue) THEN admitted + 1 ELSE admitted
  /\ UNCHANGED <<display, failed, worker, session, shown, replaced>>

StreamEvent(kind, s, text, oversized) ==
  [kind |-> kind, stream |-> s, step |-> step[s], line |-> lineNo[s], text |-> text, over |-> oversized]

\* Committed text of an unfinished line, the last of an oversized one marked.
ReadPart(s, oversized) ==
  /\ lineNo[s] <= MaxLines /\ parts[s] < MaxParts /\ ~over[s]
  /\ Produce(StreamEvent("prefix", s, NoText, oversized))
  /\ parts' = [parts EXCEPT ![s] = @ + 1]
  /\ over' = [over EXCEPT ![s] = oversized]
  /\ UNCHANGED <<lineNo, step, controls, statuses>>

ReadLine(s) ==
  /\ lineNo[s] <= MaxLines
  /\ IF over[s] THEN Produce(StreamEvent("boundary", s, NoText, TRUE))
     ELSE \E text \in Texts : Produce(StreamEvent("diagnostic", s, text, FALSE))
  /\ lineNo' = [lineNo EXCEPT ![s] = @ + 1]
  /\ parts' = [parts EXCEPT ![s] = 0]
  /\ over' = [over EXCEPT ![s] = FALSE]
  /\ UNCHANGED <<step, controls, statuses>>

EmitStatus ==
  /\ statuses < MaxStatus
  /\ Produce(Event("status"))
  /\ statuses' = statuses + 1
  /\ UNCHANGED <<lineNo, parts, over, step, controls>>

\* What starts may have streams of its own, or those of before go on.
EmitControl ==
  /\ controls < MaxControls
  /\ \E kind \in {"step", "phase", "ended"} :
        /\ Produce(Event(kind))
        /\ \/ UNCHANGED step
           \/ kind # "ended" /\ parts = NoLines /\ step' = [s \in Streams |-> controls + 1]
  /\ controls' = controls + 1
  /\ UNCHANGED <<lineNo, parts, over, statuses>>

TimePasses ==
  /\ deadline = "running"
  /\ deadline' = "due"
  /\ UNCHANGED <<mailbox, producers, group, provisional, overShown, failed, worker,
                 session, shown, replaced>>

WorkerStep ==
  \/ StopOnEmergency \/ Due \/ Take \/ Wake \/ CloseOut \/ Dispatch
  \/ Render \/ RenderFails \/ WorkerStops
SessionStep == SubmitFinalReport \/ Shutdown \/ Judge \/ Expire \/ CancelDisplay \/ Signal
ProducerStep ==
  \/ \E s \in Streams : ReadLine(s) \/ \E oversized \in BOOLEAN : ReadPart(s, oversized)
  \/ EmitStatus \/ EmitControl

Next == WorkerStep \/ SessionStep \/ ProducerStep \/ TimePasses
Spec == Init /\ [][Next]_vars

\* The worker runs and its writes end; time passes.
WorkerFairness == WF_vars(WorkerStep) /\ WF_vars(TimePasses)
\* shutdown is one sequential call whose waits have deadlines.
SessionFairness == WF_vars(Judge \/ Expire) /\ WF_vars(CancelDisplay) /\ WF_vars(Signal)
\* A renderer that may hang for ever: only the session is sure to move.
StallingSpec == Spec /\ SessionFairness
\* A worker that owes its end to nobody: the session may stop where it is.
FairSpec == Spec /\ WorkerFairness

----------------------------------------------------------------------------
TypeOK ==
  /\ MailboxTypeOK
  /\ admitted \in Nat /\ replaced \in Nat
  /\ lineNo \in [Streams -> Nat] /\ parts \in [Streams -> Nat] /\ step \in [Streams -> Nat] /\ over \in [Streams -> BOOLEAN]
  /\ group.count \in Nat
  /\ provisional \in [Streams -> Nat] /\ overShown \subseteq Streams \cup {NoStream}
  /\ deadline \in {"none", "running", "due"}
  /\ failed \in BOOLEAN
  /\ wpc \in {"top", "take", "parked", "recheck", "render", "stop", "stopped"}
  /\ spc \in {"open", "reported", "waiting", "cancelling", "signalling", "done"}
  /\ verdict \in {"none", "healthy", "unhealthy"}

\* The inbox is a first-in first-out queue by admission number, and holds at
\* most one replaceable prefix of a stream in a step, so that a chatty unfinished line
\* cannot fill it (PresentationMailbox.admit_telemetry, admit_control).
QueueOrdered ==
  /\ \A i, j \in DOMAIN queue : i < j => queue[i].seq < queue[j].seq
  /\ \A i \in DOMAIN queue : queue[i].seq < sequence
  /\ \A i, j \in DOMAIN queue :
        queue[i].event.kind = "prefix" /\ j \in Replaceable(queue[i].event) => i = j

Functioning == ~failed /\ ~cancelled /\ calls = <<>>

Writing == wpc = "render" /\ calls # <<>> /\ ~failed /\ ~cancelled

\* What is durably shown keeps the order of admission, over both lanes, all
\* producers and every grouping rule; the repetition counts of lines mode, by
\* their nature late, are the exception (docker-build-output: "the facade SHALL
\* preserve ordering across all admitted events").
DurableInOrder ==
  Writing /\ Head(calls).kind \in InOrder => Head(calls).seq > shown.seq

\* Every diagnostic dropped for lack of room is announced by a notice or still
\* pending, in exact numbers unless the notice says "at least".
OmissionsReported ==
  LET told == shown.told + omissions.count
  IN Functioning =>
       IF omissions.uncertain \/ shown.vague THEN told < dropped ELSE told = dropped

\* No occurrence of an admitted diagnostic is lost or invented by the grouping:
\* each is in the queue, taken, in a line or a count that was written, in the
\* open group, or replaced by a later number (interactive mode).
OccurrencesAccounted ==
  LET queued == Cardinality({i \in DOMAIN queue : queue[i].event.kind = "diagnostic"})
      taken == IF wpc = "recheck" /\ item.event.kind = "diagnostic" THEN 1 ELSE 0
      open == IF group.count = 0 THEN 0
              ELSE IF Mode = "interactive" THEN group.count ELSE group.count - 1
  IN Functioning => admitted = queued + taken + open + replaced + shown.count

\* Past close the omissions are announced too: a session that ends well has
\* nothing pending (normal close presents the notice).
NothingPendingAfterClose ==
  verdict = "healthy" /\ ~failed => omissions.count = 0 /\ group.count = 0

\* Events accepted before close drain on the healthy path
\* (docker-build-output: "events accepted before close SHALL drain in order on
\* the healthy path").
AcceptedEventsDrain == verdict = "healthy" => queue = <<>>

\* The lines of one stream are durably shown in the order they were read, each
\* once (comment in admit_telemetry: "Replace in place so FIFO ordering relative
\* to the finalized record boundary is preserved").
LinesInOrder ==
  Writing /\ Head(calls).kind \in {"line", "part"} =>
     Head(calls).line > shown.line[Head(calls).stream]

\* shutdown returns although the renderer may hang for ever.
ShutdownReturns == spc = "waiting" ~> spc = "done"

\* Once the inbox is closed the worker ends, provided its writes do, without
\* the emergency of an expired shutdown (PresentationWorker._run, take).
WorkerEnds == closed ~> wpc = "stopped"
=============================================================================
