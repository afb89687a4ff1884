--------------------------- MODULE ContainerRemoval ---------------------------
(***************************************************************************)
(* assemble and DockerRunExecutor.run_streaming (npm_environment/          *)
(* execution): the client that runs the assembler container, the thread    *)
(* that is prepared to remove the container by name, the continuation that *)
(* lets it, and assemble, which removes what the thread did not.  The      *)
(* daemon acts after its clients: what a killed client asked for may still *)
(* be carried out.  Readers and their output are StreamCollection.         *)
(***************************************************************************)
EXTENDS Integers, FiniteSets

VARIABLES
  place,        \* where assemble is
  client,       \* "none", "running", "stopping", or how docker run ended
  creation, ctr,  \* the request to create the container; whether it runs
  staging,
  action,       \* the removal thread
  context, cancelled,   \* StopContext was given; the wait for it was called off
  actionFailed, helper, \* what removal met; its rm client still runs
  attempted,    \* container_removal_attempted
  cleaner,      \* where the continuation is
  reason, timedOut, failures, complete,   \* of the owned process
  elapsed,      \* of the budget of the cleanup
  exit, told,   \* how assemble leaves, and its notes
  unseen        \* ghost: a removal found nothing while the creation was under way

processVars == <<client, creation, ctr>>
actionVars == <<action, context, cancelled, actionFailed, helper, attempted>>
cleanerVars == <<cleaner, complete, elapsed>>
requestVars == <<reason, timedOut, failures>>
exitVars == <<exit, told>>
removalVars == <<place, staging, unseen, processVars, actionVars, cleanerVars, requestVars, exitVars>>

RemovalInit ==
  /\ place = "staging" /\ staging = FALSE /\ unseen = FALSE
  /\ client = "none" /\ creation = "idle" /\ ctr = FALSE
  /\ action = "unstarted" /\ context = FALSE /\ cancelled = FALSE
  /\ actionFailed = FALSE /\ helper = FALSE /\ attempted = FALSE
  /\ cleaner = "watch" /\ complete = FALSE /\ elapsed = 0
  /\ reason = "none" /\ timedOut = FALSE /\ failures = {}
  /\ exit = "none" /\ told = {}

AssembleGoes(step) == place' = step
\* Of the first request the reason stays.
Request(why) == reason' = IF reason = "none" THEN why ELSE reason
Alive == client \in {"running", "stopping"}

----------------------------------------------------------------------------
(* The daemon and the client of docker run --rm --name *)

ClientAsks ==
  /\ client = "running" /\ creation = "idle"
  /\ creation' = "asked" /\ UNCHANGED <<client, ctr>>
\* It may also come to nothing.
DaemonAnswers ==
  /\ creation = "asked" /\ creation' = "answered"
  /\ ctr' \in (IF client = "running" THEN {TRUE} ELSE BOOLEAN) /\ UNCHANGED client
ContainerEnds ==
  /\ ctr /\ ctr' = FALSE
  /\ client' \in (IF client = "running" THEN {"zero", "failed"} ELSE {client}) /\ UNCHANGED creation
\* Refused by the daemon, cut from it, or stopped.
ClientEnds ==
  /\ Alive /\ client' = "failed" /\ UNCHANGED <<creation, ctr>>
Outside ==
  /\ ClientAsks \/ DaemonAnswers \/ ContainerEnds \/ ClientEnds
  /\ UNCHANGED <<place, staging, unseen, actionVars, cleanerVars, requestVars, exitVars>>

\* docker rm -f by name: absent counts as removed (_removal_errors,
\* _cleanup_container); else the client says no, or is killed for being late.
RemoveContainer(succeeds) ==
  /\ IF succeeds THEN ctr' = FALSE ELSE ctr' \in {ctr, FALSE}
  /\ unseen' = (unseen \/ (succeeds /\ creation = "asked"))
  /\ UNCHANGED creation

----------------------------------------------------------------------------
(* _ContainerRemovalAction._work *)

\* A possible bug: the removal counts as attempted when the thread is only told to stop.
WakeAttempted ==
  /\ action = "waiting" /\ (context \/ cancelled)
  /\ attempted' = TRUE
  /\ action' = IF context THEN "attempting" ELSE "done"
  /\ UNCHANGED <<context, cancelled, actionFailed, helper, processVars, unseen>>

Wake ==
  /\ action = "waiting" /\ (context \/ cancelled)
  /\ attempted' = context
  /\ action' = IF context THEN "attempting" ELSE "done"
  /\ UNCHANGED <<context, cancelled, actionFailed, helper, processVars, unseen>>

\* The stage has passed: TimeoutError.
TooLate ==
  /\ action = "attempting" /\ elapsed > 0
  /\ actionFailed' = TRUE /\ action' = "done"
  /\ UNCHANGED <<context, cancelled, helper, attempted, processVars, unseen>>

Removes ==
  /\ action = "attempting" /\ elapsed = 0
  /\ action' = "removing"
  /\ UNCHANGED <<context, cancelled, actionFailed, helper, attempted, processVars, unseen>>

\* _run_captured: a client that is late is killed, and if that fails kept.
RmClient(succeeds) ==
  actionFailed' = ~ succeeds /\ helper' \in (IF succeeds THEN {FALSE} ELSE BOOLEAN)
Removed(succeeds) ==
  /\ action = "removing" /\ action' = "done"
  /\ RemoveContainer(succeeds) /\ UNCHANGED client
  /\ RmClient(succeeds)
  /\ UNCHANGED <<context, cancelled, attempted>>
HelperEnds ==
  /\ helper /\ helper' = FALSE
  /\ UNCHANGED <<action, context, cancelled, actionFailed, attempted, processVars, unseen>>

Thread ==
  /\ Wake \/ TooLate \/ Removes \/ HelperEnds \/ \E ok \in BOOLEAN : Removed(ok)
  /\ UNCHANGED <<place, staging, cleanerVars, requestVars, exitVars>>

----------------------------------------------------------------------------
(* The continuation of the owned process *)

\* The request may have come since the loop last looked.
Deadline ==
  /\ cleaner = "watch" /\ client # "none"
  /\ timedOut' = TRUE /\ Request("deadline")
  /\ UNCHANGED <<failures, cleaner, complete, client, actionVars>>

\* _run_policy: nothing after a natural end, nor when no time is left for it.
RunPolicy ==
  /\ cleaner = "watch" /\ reason # "none"
  /\ IF client = "none" \/ reason = "natural" \/ elapsed > 0
     THEN cleaner' = "cancel" /\ UNCHANGED <<client, context>>
     ELSE /\ cleaner' = "stage" /\ context' = TRUE
          /\ client' = IF client = "running" THEN "stopping" ELSE client
  /\ UNCHANGED <<requestVars, complete, action, cancelled, actionFailed, helper, attempted>>
StageEnds ==
  /\ cleaner = "stage" /\ (action = "done" \/ actionFailed \/ elapsed > 0)
  /\ cleaner' = "cancel" /\ UNCHANGED <<requestVars, complete, client, actionVars>>
CancelAction ==
  /\ cleaner = "cancel" /\ cancelled' = TRUE /\ cleaner' = "reap"
  /\ UNCHANGED <<requestVars, complete, client, action, context, actionFailed, helper, attempted>>
\* A client in the kernel's hands outlives its SIGKILL.
Reap ==
  /\ cleaner = "reap" /\ cleaner' = "settle"
  /\ client' \in (IF Alive THEN {"killed", "stopping"} ELSE {client})
  /\ UNCHANGED <<requestVars, complete, actionVars>>

\* _complete: the child is reaped, the action done and its client too.
AllSettled == ~ Alive /\ action \in {"unstarted", "done"} /\ ~ helper
\* What the action met is recorded when it is observed.
Observed == failures \cup (IF actionFailed THEN {"action"} ELSE {})
PublishStatus ==
  /\ cleaner \in {"settle", "late"} /\ (AllSettled \/ (cleaner = "settle" /\ elapsed > 1))
  /\ complete' = AllSettled /\ failures' = Observed
  /\ cleaner' = IF AllSettled THEN "over" ELSE "late"
  /\ UNCHANGED <<reason, timedOut, client, actionVars>>

Continuation ==
  /\ Deadline \/ RunPolicy \/ StageEnds \/ CancelAction \/ Reap \/ PublishStatus
  /\ UNCHANGED <<place, staging, unseen, creation, ctr, elapsed, exitVars>>

\* First the time for the removal passes, then the whole budget.
TimeGoesBy ==
  /\ reason # "none" /\ elapsed < 2 /\ elapsed' = elapsed + 1
  /\ UNCHANGED <<place, staging, unseen, processVars, actionVars, cleaner, complete, requestVars, exitVars>>

----------------------------------------------------------------------------
(* run_streaming: launch and collection *)

\* action.prepare, which may fail with its thread started or not.
Prepare(started, ready) ==
  /\ place = "prepare"
  /\ action' = IF started THEN "waiting" ELSE "done"
  /\ IF started /\ ready THEN AssembleGoes("popen") /\ UNCHANGED <<reason, failures>>
     ELSE AssembleGoes("settle") /\ Request("setup") /\ failures' = failures \cup {"unexpected"}
  /\ UNCHANGED <<client, context, cancelled, actionFailed, helper, attempted>>
Popen(succeeds) ==
  /\ place = "popen"
  /\ IF succeeds THEN client' = "running" /\ AssembleGoes("launched") /\ UNCHANGED <<reason, failures>>
     ELSE /\ AssembleGoes("settle") /\ Request("setup") /\ failures' = failures \cup {"ordinary"}
          /\ UNCHANGED client
  /\ UNCHANGED actionVars
\* on_launched: the activity's next step, and the collector.
Launched(succeeds) ==
  /\ place = "launched"
  /\ IF succeeds THEN AssembleGoes("collect") /\ UNCHANGED <<reason, failures>>
     ELSE AssembleGoes("settle") /\ Request("setup") /\ failures' = failures \cup {"unexpected"}
  /\ UNCHANGED <<client, actionVars>>
\* The child has ended by itself, or somebody asked it to.
Collected ==
  /\ place = "collect" /\ (~ Alive \/ reason # "none")
  /\ Request("natural") /\ AssembleGoes("settle")
  /\ UNCHANGED <<failures, client, actionVars>>
ReaderFails ==
  /\ place = "collect" /\ reason = "none"
  /\ Request("reader") /\ failures' = failures \cup {"ordinary"}
  /\ UNCHANGED <<place, client, actionVars>>
\* Waiting goes on after an interruption, with what is left of the budget.
InterruptRun ==
  /\ place \in {"popen", "launched", "collect", "settle"} /\ "interruption" \notin failures
  /\ failures' = failures \cup {"interruption"} /\ Request("cancel") /\ AssembleGoes("settle")
  /\ UNCHANGED <<client, actionVars>>

Run ==
  /\ \/ \E ok \in BOOLEAN : Popen(ok) \/ Launched(ok) \/ \E ready \in BOOLEAN : Prepare(ok, ready)
     \/ Collected \/ ReaderFails \/ InterruptRun
  /\ UNCHANGED <<staging, unseen, creation, ctr, timedOut, cleanerVars, exitVars>>

\* fail: what was raised, and notes for all else that failed.
Raised ==
  IF "interruption" \in failures THEN "interrupted"
  ELSE IF timedOut /\ "unexpected" \notin failures THEN "timeout" ELSE "executor_failure"
ExitFailure == IF client = "zero" THEN "returned" ELSE "npm_exit_nonzero"
\* A possible bug: an incomplete cleanup is no failure.
NotesOfFailures == failures \cap {"action"}
Notes == (failures \cap {"action"}) \cup (IF complete THEN {} ELSE {"incomplete"})
RunResult ==
  /\ place = "settle" /\ (cleaner \in {"late", "over"} \/ elapsed > 1)
  /\ exit' = IF failures # {} \/ timedOut \/ ~ complete THEN Raised ELSE ExitFailure
  /\ told' = Notes
  /\ AssembleGoes(IF exit' = "returned" THEN "over" ELSE "rm")
  /\ UNCHANGED <<staging, unseen, processVars, actionVars, cleanerVars, requestVars>>

----------------------------------------------------------------------------
(* assemble *)

PrepareStaging(outcome) ==
  /\ place = "staging"
  /\ IF outcome = "ready" THEN staging' = TRUE /\ AssembleGoes("lockfile") /\ UNCHANGED exit
     ELSE exit' = outcome /\ AssembleGoes("over") /\ UNCHANGED staging
WriteLockfile(outcome) ==
  /\ place = "lockfile" /\ UNCHANGED staging
  /\ IF outcome = "ready" THEN AssembleGoes("prepare") /\ UNCHANGED exit
     ELSE exit' = outcome /\ AssembleGoes("unstage")
Begin ==
  /\ \E outcome \in {"ready", "unsafe", "interrupted"} : PrepareStaging(outcome) \/ WriteLockfile(outcome)
  /\ UNCHANGED <<unseen, processVars, actionVars, cleanerVars, requestVars, told>>

\* _cleanup_container, unless the thread has tried.
RemoveIfNotAttempted ==
  /\ place = "rm" /\ AssembleGoes("unstage")
  /\ \/ attempted /\ UNCHANGED <<unseen, creation, ctr, told>>
     \/ ~ attempted /\ \E ok \in BOOLEAN :
          RemoveContainer(ok) /\ told' = IF ok THEN told ELSE told \cup {"rm"}
  /\ UNCHANGED <<staging, client, actionVars, cleanerVars, requestVars, exit>>
\* _remove_staging_safely and _attach_cleanup_notes
RemoveStaging ==
  /\ place = "unstage" /\ AssembleGoes("over")
  /\ \/ staging' = FALSE /\ UNCHANGED told
     \/ staging' = staging /\ told' = told \cup {"residue"}
  /\ UNCHANGED <<unseen, processVars, actionVars, cleanerVars, requestVars, exit>>

RemovalNext ==
  \/ Begin \/ Run \/ RunResult \/ RemoveIfNotAttempted \/ RemoveStaging
  \/ Thread \/ Continuation \/ TimeGoesBy \/ Outside
RemovalSpec == RemovalInit /\ [][RemovalNext]_removalVars

----------------------------------------------------------------------------

\* When assemble has left with an error a container that goes on running, or a
\* staging directory that stays, is told of, unless the daemon created the
\* container after its removal had found none; and when it returns its result
\* nobody removed or will remove the container, and nothing is left to be told
\* (execution.py: assemble, run_streaming and _ContainerRemovalAction).
RemovalSound ==
  place = "over" =>
    IF exit = "returned" THEN staging /\ ~ ctr /\ ~ attempted /\ ~ context /\ told = {}
    ELSE /\ staging => "residue" \in told
         /\ ctr => unseen \/ told \cap {"action", "incomplete", "rm"} # {}
=============================================================================
