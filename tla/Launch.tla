------------------------------- MODULE Launch -------------------------------
(***************************************************************************)
(* The run command (constructor_cli, launcher, effective): it selects the  *)
(* workspaces, resolves the configuration, materialises the artifacts of   *)
(* the extensions, publishes a projection of its own, allocates the lowest *)
(* free name pi-N and runs one container.  Launches overlap, are           *)
(* interrupted and are killed; containers outlive a killed launch.         *)
(*                                                                         *)
(* A projection and its container are known by the number of the launch;   *)
(* the spellings of a path, the configuration and the artifacts are free.  *)
(***************************************************************************)
EXTENDS Integers, Sequences, FiniteSets, SequencesExt, FiniteSetsExt, TLC

CONSTANTS Launchers,       \* the terminals launches are started from
          OtherNames,      \* the sets of containers that may exist at first
          Spellings,       \* the spellings of a workspace: [text, path]
          MaxLaunches      \* bound on the launches that are started

\* The daemon gives no name twice; 0 is the number of a name that has none.
ASSUME LaunchAssumption ==
  /\ MaxLaunches \in Nat
  /\ \A others \in OtherNames :
       /\ IsFiniteSet(others) /\ \A o \in others : o.number \in Nat
       /\ \A o, p \in others : o.name = p.name => o = p

VARIABLES launch,          \* what each terminal is doing
          launches,        \* the number of launches so far
          projections,     \* the launches whose projection file exists
          containers,      \* the containers the daemon lists
          cached,          \* the artifacts are in the cache, valid
          abandoned        \* ghost: launches killed, or whose file could not be removed
launchVars == <<launch, launches, projections, containers, cached, abandoned>>

Name(n) == "pi-" \o ToString(n)
PiHome == "/home/dev/.pi"
NoLaunch == [pc |-> "idle"]

----------------------------------------------------------------------------
(* resolve_workspace_selection: absolute paths, no two of them the same *)

NoSelection == <<>>
ResolveWorkspaces(primary, extras) ==
  LET paths == [i \in 1..(1 + Len(extras)) |-> IF i = 1 THEN primary.path ELSE extras[i - 1].path]
  IN IF \E i \in DOMAIN paths : paths[i] = "" THEN NoSelection
     ELSE IF Cardinality(Range(paths)) # Len(paths) THEN NoSelection ELSE paths

\* _validate_run_inputs: a workspace may not be mounted where the Pi home is.
Renderable(paths) == PiHome \notin Range(paths)

----------------------------------------------------------------------------
(* allocate_pi_name *)

\* A possible bug: pi-01 does not reserve pi-1.
TakenAsSpelled(names) == {n \in 1..Cardinality(names) : \E c \in names : c.name = Name(n)}
Taken(names) == {c.number : c \in names} \ {0}

AllocatePiName(names) ==
  LET taken == Taken(names)
  IN IF taken = {} THEN 1
     ELSE CHOOSE n \in 1..(Max(taken) + 1) : n \notin taken /\ \A k \in 1..(n - 1) : k \in taken

----------------------------------------------------------------------------
LaunchInit ==
  /\ launch = [t \in Launchers |-> NoLaunch] /\ launches = 0
  /\ projections = {} /\ abandoned = {}
  /\ containers \in {{[name |-> o.name, number |-> o.number, of |-> 0] : o \in others} : others \in OtherNames}
  /\ cached \in BOOLEAN

LaunchAt(t, place) == launch[t].pc = place
Put(t, record) == launch' = [launch EXCEPT ![t] = record]
Move(t, place) == Put(t, [launch[t] EXCEPT !.pc = place])
Answer(t, exit) == Put(t, [launch[t] EXCEPT !.pc = "ended", !.exit = exit])
daemonVars == <<containers, cached>>

\* Without a primary workspace, or with one named twice, nothing begins.
StartRun(t, dry, paths) ==
  /\ LaunchAt(t, "idle") /\ launches < MaxLaunches
  /\ launches' = launches + 1
  /\ Put(t, [pc |-> IF paths = NoSelection THEN "ended" ELSE "load", dry |-> dry, paths |-> paths,
             serial |-> launches + 1, listed |-> {}, number |-> 0, ran |-> "no",
             exit |-> IF paths = NoSelection THEN "config" ELSE "none"])
  /\ UNCHANGED <<projections, daemonVars, abandoned>>

\* Both documents, the trust bundle, the cache root, the address of the host
\* and the overrides: whatever is wrong with them ends the launch.
LoadConfiguration(t) ==
  /\ LaunchAt(t, "load")
  /\ \/ Answer(t, "config")
     \/ Move(t, IF launch[t].dry THEN "plan" ELSE "state")
  /\ UNCHANGED <<launches, projections, daemonVars, abandoned>>

\* The dry run looks at the cache and renders, and no more.
DryRun(t) ==
  /\ LaunchAt(t, "plan")
  /\ Answer(t, IF Renderable(launch[t].paths) THEN "success" ELSE "config")
  /\ UNCHANGED <<launches, projections, daemonVars, abandoned>>

PrepareState(t) ==
  /\ LaunchAt(t, "state")
  /\ Answer(t, "config") \/ Move(t, "materialize")
  /\ UNCHANGED <<launches, projections, daemonVars, abandoned>>

MaterializeArtifacts(t) ==
  /\ LaunchAt(t, "materialize")
  /\ \/ Answer(t, "operational") /\ UNCHANGED cached
     \/ Move(t, "project") /\ cached' = TRUE
  /\ UNCHANGED <<launches, projections, containers, abandoned>>

\* create_runtime_projection: the whole file under a name of its own, or none.
CreateProjection(t) ==
  /\ LaunchAt(t, "project")
  /\ \/ Answer(t, "config") /\ UNCHANGED projections
     \/ Move(t, "list") /\ projections' = projections \cup {launch[t].serial}
  /\ UNCHANGED <<launches, daemonVars, abandoned>>

\* A possible bug: only a launch that went well removes its projection.
LeaveKept(serial, exit) == IF exit = "success" THEN projections \ {serial} ELSE projections
Leave(serial, exit) == projections \ {serial}

\* The end of the block that owns the projection: whatever happened in it, the
\* file is removed; a removal that fails is the failure of the command.
LeaveBlock(t, record, exit) ==
  \/ /\ projections' = Leave(record.serial, exit)
     /\ Put(t, [record EXCEPT !.pc = "ended", !.exit = exit])
     /\ UNCHANGED abandoned
  \/ /\ abandoned' = abandoned \cup {record.serial}
     /\ Put(t, [record EXCEPT !.pc = "ended", !.exit = "config"])
     /\ UNCHANGED projections

ListNames(t) ==
  /\ LaunchAt(t, "list")
  /\ \/ LeaveBlock(t, launch[t], "operational")
     \/ /\ Put(t, [launch[t] EXCEPT !.pc = "render", !.listed = containers,
                     !.number = AllocatePiName(containers)])
        /\ UNCHANGED <<projections, abandoned>>
  /\ UNCHANGED <<launches, daemonVars>>

\* The sources of the artifacts are looked at once more.
RenderVector(t) ==
  /\ LaunchAt(t, "render")
  /\ IF cached /\ Renderable(launch[t].paths)
     THEN Move(t, "run") /\ UNCHANGED <<projections, abandoned>>
     ELSE LeaveBlock(t, launch[t], "config")
  /\ UNCHANGED <<launches, daemonVars>>

\* docker run: the daemon refuses a name that is taken by now.
DockerRun(t) ==
  LET this == launch[t] IN
  /\ LaunchAt(t, "run")
  /\ \/ LeaveBlock(t, [this EXCEPT !.ran = "refused"], "operational") /\ UNCHANGED containers
     \/ /\ \A c \in containers : c.name # Name(this.number)
        /\ containers' = containers \cup {[name |-> Name(this.number), number |-> this.number, of |-> this.serial]}
        /\ Move(t, "wait") /\ UNCHANGED <<projections, abandoned>>
  /\ UNCHANGED <<launches, cached>>

\* The container ends, and --rm removes it; the client that waits for it says so.
LaunchedContainerEnds(c, code) ==
  /\ c \in containers
  /\ containers' = containers \ {c}
  /\ launch' = [t \in Launchers |->
       IF LaunchAt(t, "wait") /\ launch[t].serial = c.of
       THEN [launch[t] EXCEPT !.pc = "finish", !.ran = code] ELSE launch[t]]
  /\ UNCHANGED <<launches, projections, cached, abandoned>>

Finish(t) ==
  /\ LaunchAt(t, "finish")
  /\ LeaveBlock(t, launch[t], IF launch[t].ran = "zero" THEN "success" ELSE "operational")
  /\ UNCHANGED <<launches, daemonVars>>

\* Interrupted: the block is left, the container may go on.
InterruptLaunch(t) ==
  /\ launch[t].pc \notin {"idle", "ended"}
  /\ IF launch[t].serial \in projections THEN LeaveBlock(t, launch[t], "interrupted")
     ELSE Answer(t, "interrupted") /\ UNCHANGED <<projections, abandoned>>
  /\ UNCHANGED <<launches, daemonVars>>

KillLaunch(t) ==
  /\ launch[t].pc \notin {"idle", "ended"}
  /\ abandoned' = abandoned \cup {launch[t].serial} /\ Put(t, NoLaunch)
  /\ UNCHANGED <<launches, projections, daemonVars>>

LaunchReturns(t) ==
  /\ LaunchAt(t, "ended") /\ Put(t, NoLaunch)
  /\ UNCHANGED <<launches, projections, daemonVars, abandoned>>

\* Another launch finds the blob damaged, or the user clears the cache.
BlobVanishes ==
  /\ cached /\ cached' = FALSE
  /\ UNCHANGED <<launch, launches, projections, containers, abandoned>>

WorkspaceSelections ==
  {ResolveWorkspaces(p, extras) : p \in Spellings, extras \in {<<>>} \cup {<<e>> : e \in Spellings}}
LaunchNext ==
  \/ \E t \in Launchers :
       \/ \E dry \in BOOLEAN, paths \in WorkspaceSelections : StartRun(t, dry, paths)
       \/ LoadConfiguration(t) \/ DryRun(t) \/ PrepareState(t) \/ MaterializeArtifacts(t)
       \/ CreateProjection(t) \/ ListNames(t) \/ RenderVector(t) \/ DockerRun(t) \/ Finish(t)
       \/ InterruptLaunch(t) \/ KillLaunch(t) \/ LaunchReturns(t)
  \/ \E c \in containers, code \in {"zero", "other"} : LaunchedContainerEnds(c, code)
  \/ BlobVanishes
LaunchSpec == LaunchInit /\ [][LaunchNext]_launchVars

----------------------------------------------------------------------------
\* However launches overlap, fail or die: a projection exists exactly while its
\* launch needs it, and stays behind only if the launch was killed or the file
\* could not be removed; no two containers have one name, and a name is the
\* lowest the listing left free; a launch reports success only for a container
\* that ran and exited with zero, or for a dry run, and a configuration error
\* never after its container has run.
LaunchSound ==
  /\ \A c, d \in containers : c.name = d.name => c = d
  /\ \A serial \in projections : serial \in abandoned \/
       \E t \in Launchers : launch[t].pc \in {"list", "render", "run", "wait", "finish"} /\ launch[t].serial = serial
  /\ \A t \in Launchers : LET this == launch[t] IN
       /\ this.pc \in {"list", "render", "run", "wait", "finish"} => this.serial \in projections
       /\ this.pc \in {"run", "wait", "finish"} =>
            /\ \A c \in this.listed : c.number # this.number
            /\ \A k \in 1..(this.number - 1) : \E c \in this.listed : c.number = k
       /\ this.pc = "wait" => \E c \in containers : c.of = this.serial
       /\ this.pc = "ended" =>
            /\ this.exit = "success" => (IF this.dry THEN this.ran = "no" ELSE this.ran = "zero")
            /\ this.exit = "config" /\ this.ran # "no" => this.serial \in abandoned
            /\ Cardinality(Range(this.paths)) = Len(this.paths)
=============================================================================
