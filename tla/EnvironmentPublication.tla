------------------------ MODULE EnvironmentPublication ------------------------
(***************************************************************************)
(* One locked npm environment (npm_environment/publication, storage and    *)
(* execution): assemblies of one input that wait for its identity lock,    *)
(* look for a cached output, build in a staging workspace by a named       *)
(* container and publish the sealed tree under its output identity.        *)
(*                                                                         *)
(* The container is the daemon's and outlives a killed assembly; it writes *)
(* to the workspace it was started on ("here"), even once that is removed  *)
(* ("away").  A sealed workspace has directories without write permission, *)
(* which remove_staging_workspace cannot empty.                            *)
(***************************************************************************)
EXTENDS Integers, Sequences, FiniteSets, SequencesExt

CONSTANTS Assemblies,
          Outputs,       \* the output identities that npm may produce for the input
          MaxTampering   \* bound on changes by others

\* "none" is no assembly: the identity lock tells a holder from no holder.
ASSUME AssembliesAssumption == "none" \notin Assemblies

VARIABLES
  holder,      \* the assembly that has the identity lock, "none"
  epc,
  stage,       \* the workspace: "none", "fresh", "partial", "complete", "sealed"
  builder,     \* ghost: the assembly that made the workspace
  container,   \* "none", "here", "away"
  index,       \* the outputs that the index names
  output,      \* identity -> "absent", "sound", "corrupt", "other"
  durable,     \* the identities whose entry a power loss keeps
  tmp,         \* assembly -> its temporary: "none", "made", "moved", "written", "synced"
  identity,    \* assembly -> output identity of its tree
  again,       \* assembly -> it publishes for the second time
  result,      \* assembly -> the output it is about to return
  aside,       \* identity -> contents that were quarantined
  stood,       \* ghost: identity -> contents that stood there and were not taken by others
  tampered     \* ghost: how often others changed an output

envVars == <<holder, epc, stage, builder, container, index, output, durable, tmp, identity, again,
             result, aside, stood, tampered>>
storeVars == <<output, durable, aside, stood, tampered>>

EnvInit ==
  /\ holder = "none" /\ epc = [c \in Assemblies |-> "idle"]
  /\ stage = "none" /\ builder = "none" /\ container = "none"
  /\ index = {} /\ output = [o \in Outputs |-> "absent"] /\ durable = Outputs
  /\ tmp = [c \in Assemblies |-> "none"] /\ identity = [c \in Assemblies |-> "none"]
  /\ again = [c \in Assemblies |-> FALSE] /\ result = [c \in Assemblies |-> "none"]
  /\ aside = [o \in Outputs |-> {}] /\ stood = [o \in Outputs |-> {}] /\ tampered = 0

EnvAt(c, place) == epc[c] = place
EnvGoes(c, place) == epc' = [epc EXCEPT ![c] = place]
Own(c) == identity[c]

----------------------------------------------------------------------------
(* assemble_environment up to the container *)

Begin(c) ==
  /\ EnvAt(c, "idle")
  /\ EnvGoes(c, "lock_wait")
  /\ UNCHANGED <<holder, stage, builder, container, index, storeVars, tmp, identity, again, result>>

TakeIdentityLock(c) ==
  /\ EnvAt(c, "lock_wait") /\ holder = "none"
  /\ holder' = c /\ EnvGoes(c, "lookup")
  /\ UNCHANGED <<stage, builder, container, index, storeVars, tmp, identity, again, result>>

\* A possible bug: the index is believed.
VerifiesIndexed(o) == output[o] # "absent"

\* verify_output recomputes everything; only a sound output passes.
Verifies(o) == output[o] = "sound"

\* A candidate that cannot be read just now is missed too.
LookUp(c) ==
  /\ EnvAt(c, "lookup")
  /\ \/ \E o \in index : /\ Verifies(o)
                         /\ result' = [result EXCEPT ![c] = o] /\ EnvGoes(c, "release")
     \/ EnvGoes(c, "stale") /\ UNCHANGED result
  /\ UNCHANGED <<holder, stage, builder, container, index, storeVars, tmp, identity, again>>

\* remove_staging_workspace: whole, in part, or not at all.
WorkspaceRemoved ==
  /\ stage # "sealed"
  /\ stage' = "none" /\ builder' = "none"
  /\ container' = IF container = "here" THEN "away" ELSE container
WorkspaceStays ==
  /\ stage # "none"
  /\ stage' = IF stage = "sealed" THEN "sealed" ELSE "partial"
  /\ UNCHANGED <<builder, container>>

RemoveStale(c) ==
  /\ EnvAt(c, "stale")
  /\ \/ WorkspaceRemoved /\ EnvGoes(c, "prepare")
     \/ WorkspaceStays /\ EnvGoes(c, "release")
  /\ UNCHANGED <<holder, index, storeVars, tmp, identity, again, result>>

\* The workspace is made exclusively; one that fails after mkdir stays.
PrepareWorkspace(c) ==
  /\ EnvAt(c, "prepare") /\ stage = "none"
  /\ \/ stage' = "fresh" /\ builder' = c /\ EnvGoes(c, "start")
     \/ stage' = "fresh" /\ builder' = c /\ EnvGoes(c, "release")
     \/ EnvGoes(c, "release") /\ UNCHANGED <<stage, builder>>
  /\ UNCHANGED <<holder, container, index, storeVars, tmp, identity, again, result>>

\* docker run: the name may still be taken.
StartContainer(c) ==
  /\ EnvAt(c, "start")
  /\ \/ container = "none" /\ container' = "here" /\ EnvGoes(c, "running")
     \/ EnvGoes(c, "remove_container") /\ UNCHANGED container
  /\ UNCHANGED <<holder, stage, builder, index, storeVars, tmp, identity, again, result>>

ContainerWorks ==
  /\ container = "here" /\ stage \in {"fresh", "partial"}
  /\ \/ stage' = "partial" /\ container' \in {"here", "none"}
     \/ stage' = "complete" /\ container' = "none"
  /\ UNCHANGED <<holder, epc, builder, index, storeVars, tmp, identity, again, result>>

ContainerEnds ==
  /\ container = "away" /\ container' = "none"
  /\ UNCHANGED <<holder, epc, stage, builder, index, storeVars, tmp, identity, again, result>>

\* Exit status zero means that npm ci is complete.
RunReturns(c) ==
  /\ EnvAt(c, "running")
  /\ \/ container = "none" /\ stage = "complete" /\ EnvGoes(c, "validate")
     \/ EnvGoes(c, "remove_container")
  /\ UNCHANGED <<holder, stage, builder, container, index, storeVars, tmp, identity, again, result>>

\* _cleanup_container, or the removal action of the executor.
RemoveContainer(c) ==
  /\ EnvAt(c, "remove_container")
  /\ container' \in {"none", container} /\ EnvGoes(c, "unstage")
  /\ UNCHANGED <<holder, stage, builder, index, storeVars, tmp, identity, again, result>>

\* _remove_staging_safely: a failure is only noted.
Unstage(c) ==
  /\ EnvAt(c, "unstage")
  /\ WorkspaceRemoved \/ WorkspaceStays
  /\ EnvGoes(c, "release")
  /\ UNCHANGED <<holder, index, storeVars, tmp, identity, again, result>>

----------------------------------------------------------------------------
(* publish_environment *)

ValidateTree(c) ==
  /\ EnvAt(c, "validate")
  /\ EnvGoes(c, "seal") \/ EnvGoes(c, "unstage")
  /\ UNCHANGED <<holder, stage, builder, container, index, storeVars, tmp, identity, again, result>>

\* make_tree_read_only, and the identity of what was sealed.
SealTree(c) ==
  /\ EnvAt(c, "seal")
  /\ stage' = "sealed"
  /\ \/ \E o \in Outputs : identity' = [identity EXCEPT ![c] = o] /\ EnvGoes(c, "exists")
     \/ EnvGoes(c, "unstage") /\ UNCHANGED identity
  /\ UNCHANGED <<holder, builder, container, index, storeVars, tmp, again, result>>

\* A possible bug: the tree is renamed first and synchronised afterwards.
PublicationRenamed == [exists |-> "make", make |-> "move", move |-> "write", write |-> "rename",
                       rename |-> "sync", sync |-> "sync_outputs", sync_outputs |-> "index"]

\* The step that follows a step that has succeeded.
Publication == [exists |-> "make", make |-> "move", move |-> "write", write |-> "sync",
                sync |-> "rename", rename |-> "sync_outputs", sync_outputs |-> "index"]
Step1(c, place) == EnvAt(c, place) /\ EnvGoes(c, Publication[place])

CheckAbsent(c) ==
  /\ \/ Step1(c, "exists") /\ output[Own(c)] = "absent"
     \/ /\ EnvAt(c, "exists") /\ output[Own(c)] # "absent"
        /\ EnvGoes(c, IF again[c] THEN "unstage" ELSE "collision")
  /\ UNCHANGED <<holder, stage, builder, container, index, storeVars, tmp, identity, again, result>>

Temporary(c, state) == tmp' = [tmp EXCEPT ![c] = state]

MakeTmp(c) ==
  /\ Step1(c, "make") /\ Temporary(c, "made")
  /\ UNCHANGED <<holder, stage, builder, container, index, storeVars, identity, again, result>>

\* After a late collision the tree is gone with its first temporary.
MoveTree(c) ==
  /\ Step1(c, "move") /\ stage = "sealed"
  /\ Temporary(c, "moved") /\ stage' = "none" /\ builder' = "none"
  /\ UNCHANGED <<holder, container, index, storeVars, identity, again, result>>

WriteEvidence(c) ==
  /\ Step1(c, "write") /\ Temporary(c, "written")
  /\ UNCHANGED <<holder, stage, builder, container, index, storeVars, identity, again, result>>

SyncTree(c) ==
  /\ Step1(c, "sync") /\ Temporary(c, "synced")
  /\ UNCHANGED <<holder, stage, builder, container, index, storeVars, identity, again, result>>

\* rename, which never replaces an output; "durable" has it once it was synchronised.
RenameTmp(c) ==
  /\ \/ /\ Step1(c, "rename") /\ output[Own(c)] = "absent"
        /\ output' = [output EXCEPT ![Own(c)] = "sound"]
        /\ durable' = durable \ {Own(c)}
        /\ stood' = [stood EXCEPT ![Own(c)] = @ \cup {"sound"}]
        /\ Temporary(c, IF tmp[c] = "synced" THEN "none" ELSE tmp[c])
     \/ /\ EnvAt(c, "rename") /\ output[Own(c)] # "absent"
        /\ EnvGoes(c, IF again[c] THEN "unstage" ELSE "collision")
        /\ Temporary(c, "none") /\ UNCHANGED <<output, durable, stood>>
  /\ UNCHANGED <<holder, stage, builder, container, index, aside, tampered, identity, again, result>>

SyncOutputs(c) ==
  /\ Step1(c, "sync_outputs") /\ durable' = Outputs
  /\ UNCHANGED <<holder, stage, builder, container, index, output, aside, stood, tampered, tmp, identity, again, result>>

\* _append_index is best effort; an index it could not read is written anew.
IndexAppended(o) == index' \in {index \cup {o}, {o}, index}

AppendIndex(c) ==
  /\ EnvAt(c, "index") /\ IndexAppended(Own(c))
  /\ result' = [result EXCEPT ![c] = Own(c)] /\ EnvGoes(c, "release")
  /\ UNCHANGED <<holder, stage, builder, container, storeVars, tmp, identity, again>>

\* What _atomic_publish does when it fails: its temporary is removed, as far as
\* possible, a renamed output stays.
PublicationFails(c) ==
  /\ epc[c] \in {"make", "move", "write", "sync", "rename", "sync_outputs"}
  /\ Temporary(c, "none") /\ EnvGoes(c, "unstage")
  /\ UNCHANGED <<holder, stage, builder, container, index, storeVars, identity, again, result>>

\* An existing output is verified and returned; one that does not verify, or
\* could not be read, is moved aside, never touched otherwise.
VerifyCollision(c) ==
  /\ EnvAt(c, "collision")
  /\ \/ /\ Verifies(Own(c)) /\ IndexAppended(Own(c)) /\ EnvGoes(c, "redundant")
        /\ UNCHANGED <<output, durable, aside, again>>
     \/ /\ output[Own(c)] \in {"sound", "corrupt"}
        /\ aside' = [aside EXCEPT ![Own(c)] = @ \cup {output[Own(c)]}]
        /\ output' = [output EXCEPT ![Own(c)] = "absent"]
        /\ durable' \in {durable, Outputs}
        /\ again' = [again EXCEPT ![c] = TRUE] /\ EnvGoes(c, "exists")
        /\ UNCHANGED index
     \/ EnvGoes(c, "unstage") /\ UNCHANGED <<index, output, durable, aside, again>>
  /\ UNCHANGED <<holder, stage, builder, container, stood, tampered, tmp, identity, result>>

\* _remove_redundant_tree makes the tree writable before it removes it.
DropRedundant(c) ==
  /\ EnvAt(c, "redundant")
  /\ \/ /\ stage' = "none" /\ builder' = "none"
        /\ result' = [result EXCEPT ![c] = Own(c)] /\ EnvGoes(c, "release")
     \/ /\ stage = "sealed" /\ stage' \in {"sealed", "partial"} /\ EnvGoes(c, "unstage")
        /\ UNCHANGED <<builder, result>>
  /\ UNCHANGED <<holder, container, index, storeVars, tmp, identity, again>>

Forgets(c) ==
  /\ identity' = [identity EXCEPT ![c] = "none"] /\ again' = [again EXCEPT ![c] = FALSE]
  /\ result' = [result EXCEPT ![c] = "none"]

ReleaseIdentityLock(c) ==
  /\ EnvAt(c, "release")
  /\ holder' = "none" /\ EnvGoes(c, "idle") /\ Forgets(c)
  /\ UNCHANGED <<stage, builder, container, index, storeVars, tmp>>

----------------------------------------------------------------------------
KillAssembly(c) ==
  /\ ~ EnvAt(c, "idle")
  /\ holder' = IF holder = c THEN "none" ELSE holder
  /\ EnvGoes(c, "idle") /\ Temporary(c, "none") /\ Forgets(c)
  /\ UNCHANGED <<stage, builder, container, index, storeVars>>

\* Other programs damage, remove or replace an output, or the index.
TamperOutput ==
  /\ tampered < MaxTampering /\ tampered' = tampered + 1
  /\ \E o \in Outputs, e \in {"absent", "corrupt", "other"} :
       /\ e # output[o]
       /\ output' = [output EXCEPT ![o] = e]
       /\ stood' = [stood EXCEPT ![o] = (@ \ {output[o]}) \cup (IF e = "corrupt" THEN {e} ELSE {})]
       /\ result' = [c \in Assemblies |-> IF result[c] = o THEN "none" ELSE result[c]]
       /\ index' \in {index, {}, Outputs}
  /\ UNCHANGED <<holder, epc, stage, builder, container, durable, tmp, identity, again, aside>>

\* Entries that were not synchronised may be lost, and so may what stands in
\* an entry that was renamed before its content was synchronised.
PowerLost ==
  /\ \E lost \in SUBSET (Outputs \ durable) :
       LET torn(o) == \E c \in Assemblies : tmp[c] = "written" /\ epc[c] = "sync" /\ identity[c] = o
       IN /\ output' = [o \in Outputs |-> IF o \in lost THEN "absent"
                                          ELSE IF torn(o) /\ output[o] = "sound" THEN "corrupt" ELSE output[o]]
          /\ stood' = [o \in Outputs |-> IF o \in lost THEN stood[o] \ {output[o]} ELSE stood[o]]
  /\ durable' = Outputs /\ holder' = "none" /\ container' = "none"
  /\ epc' = [c \in Assemblies |-> "idle"] /\ tmp' = [c \in Assemblies |-> "none"]
  /\ result' = [c \in Assemblies |-> "none"] /\ identity' = result' /\ again' = [c \in Assemblies |-> FALSE]
  /\ UNCHANGED <<stage, builder, index, aside, tampered>>

Assemble(c) ==
  \/ Begin(c) \/ TakeIdentityLock(c) \/ LookUp(c) \/ RemoveStale(c) \/ PrepareWorkspace(c)
  \/ StartContainer(c) \/ RunReturns(c) \/ RemoveContainer(c) \/ Unstage(c)
  \/ ValidateTree(c) \/ SealTree(c) \/ CheckAbsent(c) \/ MakeTmp(c) \/ MoveTree(c) \/ WriteEvidence(c)
  \/ SyncTree(c) \/ RenameTmp(c) \/ SyncOutputs(c) \/ AppendIndex(c) \/ PublicationFails(c)
  \/ VerifyCollision(c) \/ DropRedundant(c) \/ ReleaseIdentityLock(c) \/ KillAssembly(c)
EnvNext ==
  \/ \E c \in Assemblies : Assemble(c)
  \/ ContainerWorks \/ ContainerEnds \/ TamperOutput \/ PowerLost
EnvSpec == EnvInit /\ [][EnvNext]_envVars

----------------------------------------------------------------------------
\* What is validated and sealed is what this assembly's own container made:
\* nobody writes to it any more, no abandoned workspace is adopted, whatever
\* container outlived whatever assembly.
WorkspaceOwned ==
  \A c \in Assemblies : epc[c] \in {"validate", "seal", "exists", "make", "collision"} /\ stage # "none" =>
     stage \in {"complete", "sealed"} /\ builder = c /\ container # "here"

\* An output is complete whenever it can be seen, after a power loss too, unless
\* others have damaged it, and none is overwritten or deleted: what stood there
\* still does or is in quarantine.
OutputsPreserved ==
  \A o \in Outputs : /\ tampered = 0 => output[o] \in {"absent", "sound"}
                     /\ stood[o] \ {output[o]} \subseteq aside[o]

\* An output that the assembly has not built itself is returned only if it was
\* sound, whatever the index says.
ReturnedSound ==
  \A c \in Assemblies : result[c] # "none" => "sound" \in stood[result[c]] \/ identity[c] = result[c]

EnvironmentSound == WorkspaceOwned /\ OutputsPreserved /\ ReturnedSound
=============================================================================
