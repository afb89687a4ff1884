--------------------------- MODULE StorageProofs ----------------------------
(***************************************************************************)
(* Proofs about what is kept on the disk beside the build store: the       *)
(* publication of npm environments (EnvironmentPublication), the private   *)
(* directories of the constructor (PrivateTree), the lock of a name        *)
(* (FileLock) and the durable file contracts (RegularFile), for any        *)
(* number of assemblies, outputs, commands, projects, directories,         *)
(* processes and inodes.                                                   *)
(***************************************************************************)
EXTENDS EnvironmentPublication, PrivateTree, FileLock, RegularFile, TLAPS


-----------------------------------------------------------------------------
(* The publication of an environment: the inductive invariant.             *)

EnvPlaces ==
  {"idle", "lock_wait", "lookup", "stale", "prepare", "start", "running", "remove_container",
   "unstage", "validate", "seal", "exists", "make", "move", "write", "sync", "rename",
   "sync_outputs", "index", "collision", "redundant", "release"}

\* The places of an assembly that has the identity lock, that has an identity
\* for its tree, and that has not yet renamed it.
Working(c) == epc[c] \notin {"idle", "lock_wait"}
Publishing ==
  {"exists", "make", "move", "write", "sync", "rename", "sync_outputs", "index", "collision",
   "redundant"}
Unrenamed == {"make", "move", "write", "sync", "rename"}

AssembliesTyped ==
  /\ epc \in [Assemblies -> EnvPlaces]
  /\ identity \in [Assemblies -> Outputs \cup {"none"}]
  /\ result \in [Assemblies -> Outputs \cup {"none"}]
  /\ tmp \in [Assemblies -> {"none", "made", "moved", "written", "synced"}]
  /\ again \in [Assemblies -> BOOLEAN]
StoreTyped ==
  /\ output \in [Outputs -> {"absent", "sound", "corrupt", "other"}]
  /\ stood \in [Outputs -> SUBSET {"sound", "corrupt"}]
  /\ aside \in [Outputs -> SUBSET {"sound", "corrupt"}]
  /\ index \subseteq Outputs /\ durable \subseteq Outputs /\ tampered \in Nat
WorkspaceTyped ==
  /\ stage \in {"none", "fresh", "partial", "complete", "sealed"}
  /\ container \in {"none", "here", "away"}
  /\ holder \in Assemblies \cup {"none"} /\ builder \in Assemblies \cup {"none"}
EnvTypeOK == AssembliesTyped /\ StoreTyped /\ WorkspaceTyped

\* Only the holder of the identity lock is past the wait for it.
LockHeld == \A c \in Assemblies : Working(c) => holder = c

\* A container writes only to a workspace that is not yet complete.
ContainerApart == container = "here" => stage \in {"fresh", "partial"}

\* What an assembly knows of the workspace, by its place.
WorkspaceOf(c) ==
  /\ epc[c] = "start" => stage = "fresh" /\ builder = c /\ container # "here"
  /\ epc[c] = "running" => builder = c
  /\ epc[c] \in {"validate", "seal"} => stage = "complete" /\ builder = c
  /\ epc[c] \in Publishing => stage \in {"none", "sealed"} /\ (stage # "none" => builder = c)

\* Its tree has an identity, which names no complete output until the rename.
IdentityOf(c) ==
  /\ epc[c] \in Publishing => identity[c] \in Outputs
  /\ epc[c] \in Unrenamed => output[identity[c]] # "sound"

\* A result is there only on the way out, and it stood or is its own.
ResultOf(c) ==
  result[c] # "none" =>
    epc[c] = "release" /\ ("sound" \in stood[result[c]] \/ identity[c] = result[c])

\* The contents of an output identity.
OutputOf(o) ==
  /\ stood[o] \ {output[o]} \subseteq aside[o]
  /\ output[o] = "sound" => "sound" \in stood[o]
  /\ tampered = 0 => output[o] \in {"absent", "sound"}

EnvInv ==
  /\ EnvTypeOK /\ LockHeld /\ ContainerApart
  /\ \A c \in Assemblies : WorkspaceOf(c) /\ IdentityOf(c) /\ ResultOf(c)
  /\ \A o \in Outputs : OutputOf(o)

\* What a step keeps of one assembly, or of one output.
KeepsWorkspace(c) == WorkspaceOf(c)'
KeepsIdentity(c) == IdentityOf(c)'
KeepsResult(c) == ResultOf(c)'
KeepsOutput(o) == OutputOf(o)'

\* The actions of one assembly that leave the workspace and the store alone.
Waits(c) == Begin(c) \/ TakeIdentityLock(c) \/ (KillAssembly(c) /\ ~ Working(c))

LEMMA EnvInitially == EnvInit => EnvInv
<1> SUFFICES ASSUME EnvInit PROVE EnvInv
  OBVIOUS
<1>1. EnvTypeOK
  BY DEF EnvInit, EnvTypeOK, AssembliesTyped, StoreTyped, WorkspaceTyped, EnvPlaces
<1>2. LockHeld /\ ContainerApart
  BY DEF EnvInit, LockHeld, Working, ContainerApart
<1>3. \A c \in Assemblies : WorkspaceOf(c) /\ IdentityOf(c) /\ ResultOf(c)
  BY DEF EnvInit, WorkspaceOf, IdentityOf, ResultOf, Publishing, Unrenamed
<1>4. \A o \in Outputs : OutputOf(o)
  BY DEF EnvInit, OutputOf
<1> QED
  BY <1>1, <1>2, <1>3, <1>4 DEF EnvInv

\* An assembly that works holds the lock, so that no other one does.
LEMMA WorkerAlone ==
  ASSUME EnvInv, NEW c \in Assemblies, NEW d \in Assemblies, Working(c), Working(d)
  PROVE  c = d
BY DEF EnvInv, LockHeld

\* An action of one assembly leaves the place, the identity and the result of
\* another one alone, and all it works on while that one works.
LEMMA OthersKept ==
  ASSUME EnvInv, NEW c \in Assemblies, NEW d \in Assemblies, c # d, Assemble(c)
  PROVE  /\ epc'[d] = epc[d] /\ identity'[d] = identity[d] /\ result'[d] = result[d]
         /\ Working(d) => UNCHANGED <<holder, stage, builder, container, storeVars>>
<1> USE DEF Working, EnvAt, EnvGoes, Forgets
<1>1. AssembliesTyped
  BY DEF EnvInv, EnvTypeOK
<1>2. Working(c) /\ Working(d) => FALSE
  BY WorkerAlone
<1>3. ASSUME Working(d) PROVE holder = d /\ holder # "none"
  BY <1>3, AssembliesAssumption DEF EnvInv, LockHeld
<1>4. CASE Begin(c)
  BY <1>1, <1>4 DEF Begin, AssembliesTyped
<1>5. CASE TakeIdentityLock(c)
  BY <1>1, <1>3, <1>5 DEF TakeIdentityLock, AssembliesTyped
<1>6. CASE KillAssembly(c)
  BY <1>1, <1>2, <1>3, <1>6 DEF KillAssembly, AssembliesTyped
<1>7. CASE LookUp(c) \/ RemoveStale(c) \/ PrepareWorkspace(c) \/ StartContainer(c) \/ RunReturns(c)
  BY <1>1, <1>2, <1>7 DEF LookUp, RemoveStale, PrepareWorkspace, StartContainer, RunReturns, AssembliesTyped
<1>8. CASE RemoveContainer(c) \/ Unstage(c) \/ ValidateTree(c) \/ SealTree(c) \/ CheckAbsent(c)
  BY <1>1, <1>2, <1>8 DEF RemoveContainer, Unstage, ValidateTree, SealTree, CheckAbsent, Step1, AssembliesTyped
<1>9. CASE MakeTmp(c) \/ MoveTree(c) \/ WriteEvidence(c) \/ SyncTree(c) \/ RenameTmp(c) \/ SyncOutputs(c)
  BY <1>1, <1>2, <1>9 DEF MakeTmp, MoveTree, WriteEvidence, SyncTree, RenameTmp, SyncOutputs, Step1, AssembliesTyped
<1>10. CASE AppendIndex(c) \/ PublicationFails(c) \/ VerifyCollision(c) \/ DropRedundant(c) \/ ReleaseIdentityLock(c)
  BY <1>1, <1>2, <1>10 DEF AppendIndex, PublicationFails, VerifyCollision, DropRedundant,
     ReleaseIdentityLock, AssembliesTyped
<1> QED
  BY <1>4, <1>5, <1>6, <1>7, <1>8, <1>9, <1>10 DEF Assemble

-----------------------------------------------------------------------------
(* Every step preserves it, a part at a time.                              *)

LEMMA AssembliesTypedStep == EnvInv /\ [EnvNext]_envVars => AssembliesTyped'
<1> SUFFICES ASSUME EnvInv, [EnvNext]_envVars PROVE AssembliesTyped'
  OBVIOUS
<1> USE DEF AssembliesTyped, EnvPlaces, EnvAt, EnvGoes, Forgets, Temporary, Publication, Own
<1>1. AssembliesTyped /\ index \subseteq Outputs /\ \A c \in Assemblies : IdentityOf(c)
  BY DEF EnvInv, EnvTypeOK, StoreTyped
<1>2. ASSUME NEW c \in Assemblies, Assemble(c) PROVE AssembliesTyped'
  <2>1. CASE Begin(c) \/ TakeIdentityLock(c) \/ KillAssembly(c) \/ ReleaseIdentityLock(c)
    BY <1>1, <2>1 DEF Begin, TakeIdentityLock, KillAssembly, ReleaseIdentityLock
  <2>2. CASE LookUp(c)
    BY <1>1, <2>2 DEF LookUp
  <2>3. CASE RemoveStale(c) \/ PrepareWorkspace(c) \/ StartContainer(c) \/ RunReturns(c)
    BY <1>1, <2>3 DEF RemoveStale, PrepareWorkspace, StartContainer, RunReturns
  <2>4. CASE RemoveContainer(c) \/ Unstage(c) \/ ValidateTree(c) \/ SealTree(c)
    BY <1>1, <2>4 DEF RemoveContainer, Unstage, ValidateTree, SealTree
  <2>5. CASE CheckAbsent(c) \/ MakeTmp(c) \/ MoveTree(c) \/ WriteEvidence(c) \/ SyncTree(c) \/ SyncOutputs(c)
    BY <1>1, <2>5 DEF CheckAbsent, MakeTmp, MoveTree, WriteEvidence, SyncTree, SyncOutputs, Step1
  <2>6. CASE RenameTmp(c)
    BY <1>1, <2>6 DEF RenameTmp, Step1
  <2>7. CASE AppendIndex(c) \/ PublicationFails(c)
    BY <1>1, <2>7 DEF AppendIndex, PublicationFails, IdentityOf, Publishing
  <2>8. CASE VerifyCollision(c) \/ DropRedundant(c)
    BY <1>1, <2>8 DEF VerifyCollision, DropRedundant, IdentityOf, Publishing
  <2> QED
    BY <1>2, <2>1, <2>2, <2>3, <2>4, <2>5, <2>6, <2>7, <2>8 DEF Assemble
<1>3. CASE ContainerWorks \/ ContainerEnds \/ UNCHANGED envVars
  BY <1>1, <1>3 DEF ContainerWorks, ContainerEnds, envVars
<1>4. CASE TamperOutput
  BY <1>1, <1>4 DEF TamperOutput
<1>5. CASE PowerLost
  BY <1>1, <1>5 DEF PowerLost
<1> QED
  BY <1>2, <1>3, <1>4, <1>5 DEF EnvNext

LEMMA StoreTypedStep == EnvInv /\ [EnvNext]_envVars => StoreTyped'
<1> SUFFICES ASSUME EnvInv, [EnvNext]_envVars PROVE StoreTyped'
  OBVIOUS
<1> USE DEF StoreTyped, EnvAt, storeVars, Own
<1>1. StoreTyped /\ \A c \in Assemblies : IdentityOf(c)
  BY DEF EnvInv, EnvTypeOK
<1>2. ASSUME NEW c \in Assemblies, Assemble(c) PROVE StoreTyped'
  <2>1. CASE RenameTmp(c)
    BY <1>1, <2>1 DEF RenameTmp, Step1, IdentityOf, Publishing
  <2>2. CASE SyncOutputs(c) \/ AppendIndex(c)
    BY <1>1, <2>2 DEF SyncOutputs, AppendIndex, IndexAppended, IdentityOf, Publishing
  <2>3. CASE VerifyCollision(c)
    <3>1. identity[c] \in Outputs
      BY <1>1, <2>3 DEF VerifyCollision, IdentityOf, Publishing
    <3> QED
      BY <1>1, <2>3, <3>1 DEF VerifyCollision, IndexAppended
  <2>4. CASE Begin(c) \/ TakeIdentityLock(c) \/ KillAssembly(c) \/ ReleaseIdentityLock(c) \/ LookUp(c)
    BY <1>1, <2>4 DEF Begin, TakeIdentityLock, KillAssembly, ReleaseIdentityLock, LookUp
  <2>5. CASE RemoveStale(c) \/ PrepareWorkspace(c) \/ StartContainer(c) \/ RunReturns(c)
             \/ RemoveContainer(c) \/ Unstage(c) \/ ValidateTree(c) \/ SealTree(c)
    BY <1>1, <2>5 DEF RemoveStale, PrepareWorkspace, StartContainer, RunReturns, RemoveContainer,
       Unstage, ValidateTree, SealTree
  <2>6. CASE CheckAbsent(c) \/ MakeTmp(c) \/ MoveTree(c) \/ WriteEvidence(c) \/ SyncTree(c)
             \/ PublicationFails(c) \/ DropRedundant(c)
    BY <1>1, <2>6 DEF CheckAbsent, MakeTmp, MoveTree, WriteEvidence, SyncTree, PublicationFails, DropRedundant
  <2> QED
    BY <1>2, <2>1, <2>2, <2>3, <2>4, <2>5, <2>6 DEF Assemble
<1>3. CASE ContainerWorks \/ ContainerEnds \/ UNCHANGED envVars
  BY <1>1, <1>3 DEF ContainerWorks, ContainerEnds, envVars
<1>4. CASE TamperOutput
  BY <1>1, <1>4 DEF TamperOutput
<1>5. CASE PowerLost
  <2>1. PICK lost \in SUBSET (Outputs \ durable) :
          LET torn(o) == \E c \in Assemblies : tmp[c] = "written" /\ epc[c] = "sync" /\ identity[c] = o
          IN  /\ output' = [o \in Outputs |-> IF o \in lost THEN "absent"
                             ELSE IF torn(o) /\ output[o] = "sound" THEN "corrupt" ELSE output[o]]
              /\ stood' = [o \in Outputs |-> IF o \in lost THEN stood[o] \ {output[o]} ELSE stood[o]]
    BY <1>5 DEF PowerLost
  <2> QED
    BY <1>1, <1>5, <2>1 DEF PowerLost
<1> QED
  BY <1>2, <1>3, <1>4, <1>5 DEF EnvNext

LEMMA WorkspaceTypedStep == EnvInv /\ [EnvNext]_envVars => WorkspaceTyped'
<1> SUFFICES ASSUME EnvInv, [EnvNext]_envVars PROVE WorkspaceTyped'
  OBVIOUS
<1> USE DEF WorkspaceTyped, WorkspaceRemoved, WorkspaceStays
<1>1. WorkspaceTyped
  BY DEF EnvInv, EnvTypeOK
<1>2. ASSUME NEW c \in Assemblies, Assemble(c) PROVE WorkspaceTyped'
  <2>1. CASE Begin(c) \/ TakeIdentityLock(c) \/ KillAssembly(c) \/ ReleaseIdentityLock(c) \/ LookUp(c)
    BY <1>1, <2>1 DEF Begin, TakeIdentityLock, KillAssembly, ReleaseIdentityLock, LookUp
  <2>2. CASE RemoveStale(c) \/ PrepareWorkspace(c) \/ StartContainer(c) \/ RunReturns(c)
    BY <1>1, <2>2 DEF RemoveStale, PrepareWorkspace, StartContainer, RunReturns
  <2>3. CASE RemoveContainer(c) \/ Unstage(c) \/ ValidateTree(c) \/ SealTree(c)
    BY <1>1, <2>3 DEF RemoveContainer, Unstage, ValidateTree, SealTree
  <2>4. CASE CheckAbsent(c) \/ MakeTmp(c) \/ MoveTree(c) \/ WriteEvidence(c) \/ SyncTree(c) \/ RenameTmp(c)
    BY <1>1, <2>4 DEF CheckAbsent, MakeTmp, MoveTree, WriteEvidence, SyncTree, RenameTmp
  <2>5. CASE SyncOutputs(c) \/ AppendIndex(c) \/ PublicationFails(c) \/ VerifyCollision(c) \/ DropRedundant(c)
    BY <1>1, <2>5 DEF SyncOutputs, AppendIndex, PublicationFails, VerifyCollision, DropRedundant
  <2> QED
    BY <1>2, <2>1, <2>2, <2>3, <2>4, <2>5 DEF Assemble
<1>3. CASE ContainerWorks \/ ContainerEnds \/ UNCHANGED envVars \/ TamperOutput \/ PowerLost
  BY <1>1, <1>3 DEF ContainerWorks, ContainerEnds, envVars, TamperOutput, PowerLost
<1> QED
  BY <1>2, <1>3 DEF EnvNext

\* Who works holds the lock: it is taken only when it is free.
LEMMA LockHeldStep == EnvInv /\ [EnvNext]_envVars => LockHeld'
<1> SUFFICES ASSUME EnvInv, [EnvNext]_envVars PROVE LockHeld'
  OBVIOUS
<1> USE DEF Working, EnvAt, EnvGoes
<1>1. AssembliesTyped /\ LockHeld
  BY DEF EnvInv, EnvTypeOK
<1>2. ASSUME NEW c \in Assemblies, Assemble(c), NEW d \in Assemblies, epc'[d] \notin {"idle", "lock_wait"}
      PROVE  holder' = d
  <2>1. CASE d # c
    BY <1>1, <1>2, <2>1, OthersKept DEF LockHeld
  <2>2. CASE d = c /\ Waits(c)
    BY <1>1, <1>2, <2>2 DEF Waits, Begin, TakeIdentityLock, KillAssembly, AssembliesTyped
  <2>3. CASE d = c /\ (KillAssembly(c) \/ ReleaseIdentityLock(c))
    BY <1>1, <1>2, <2>3 DEF KillAssembly, ReleaseIdentityLock, AssembliesTyped
  <2>4. ASSUME d = c,
               \/ LookUp(c) \/ RemoveStale(c) \/ PrepareWorkspace(c) \/ StartContainer(c)
               \/ RunReturns(c) \/ RemoveContainer(c) \/ Unstage(c) \/ ValidateTree(c) \/ SealTree(c)
        PROVE  holder' = d
    BY <1>1, <2>4 DEF LockHeld, LookUp, RemoveStale, PrepareWorkspace, StartContainer, RunReturns,
       RemoveContainer, Unstage, ValidateTree, SealTree
  <2>5. ASSUME d = c,
               \/ CheckAbsent(c) \/ MakeTmp(c) \/ MoveTree(c) \/ WriteEvidence(c) \/ SyncTree(c)
               \/ RenameTmp(c) \/ SyncOutputs(c) \/ AppendIndex(c) \/ PublicationFails(c)
               \/ VerifyCollision(c) \/ DropRedundant(c)
        PROVE  holder' = d
    BY <1>1, <2>5 DEF LockHeld, CheckAbsent, MakeTmp, MoveTree, WriteEvidence, SyncTree, RenameTmp,
       SyncOutputs, AppendIndex, PublicationFails, VerifyCollision, DropRedundant, Step1
  <2> QED
    BY <1>2, <2>1, <2>2, <2>3, <2>4, <2>5 DEF Assemble, Waits
<1>3. CASE \E c \in Assemblies : Assemble(c)
  BY <1>2, <1>3 DEF LockHeld
<1>4. CASE ContainerWorks \/ ContainerEnds \/ UNCHANGED envVars \/ TamperOutput
  BY <1>1, <1>4 DEF ContainerWorks, ContainerEnds, envVars, TamperOutput, LockHeld
<1>5. CASE PowerLost
  BY <1>5 DEF PowerLost, LockHeld
<1> QED
  BY <1>3, <1>4, <1>5 DEF EnvNext

\* No workspace is completed, sealed or removed with a container left in it.
LEMMA ContainerApartStep == EnvInv /\ [EnvNext]_envVars => ContainerApart'
<1> SUFFICES ASSUME EnvInv, [EnvNext]_envVars PROVE ContainerApart'
  OBVIOUS
<1> USE DEF ContainerApart, WorkspaceRemoved, WorkspaceStays, EnvAt
<1>1. WorkspaceTyped /\ ContainerApart /\ \A c \in Assemblies : WorkspaceOf(c)
  BY DEF EnvInv, EnvTypeOK
<1>2. ASSUME NEW c \in Assemblies, Assemble(c) PROVE ContainerApart'
  <2>1. CASE Begin(c) \/ TakeIdentityLock(c) \/ KillAssembly(c) \/ ReleaseIdentityLock(c) \/ LookUp(c)
    BY <1>1, <2>1 DEF Begin, TakeIdentityLock, KillAssembly, ReleaseIdentityLock, LookUp
  <2>2. CASE RemoveStale(c) \/ PrepareWorkspace(c) \/ RunReturns(c) \/ RemoveContainer(c) \/ Unstage(c)
    BY <1>1, <2>2 DEF RemoveStale, PrepareWorkspace, RunReturns, RemoveContainer, Unstage, WorkspaceTyped
  <2>3. CASE StartContainer(c) \/ ValidateTree(c) \/ SealTree(c)
    BY <1>1, <2>3 DEF StartContainer, ValidateTree, SealTree, WorkspaceOf
  <2>4. CASE CheckAbsent(c) \/ MakeTmp(c) \/ WriteEvidence(c) \/ SyncTree(c) \/ RenameTmp(c)
    BY <1>1, <2>4 DEF CheckAbsent, MakeTmp, WriteEvidence, SyncTree, RenameTmp
  <2>5. CASE SyncOutputs(c) \/ AppendIndex(c) \/ PublicationFails(c) \/ VerifyCollision(c)
    BY <1>1, <2>5 DEF SyncOutputs, AppendIndex, PublicationFails, VerifyCollision
  <2>6. CASE MoveTree(c) \/ DropRedundant(c)
    BY <1>1, <2>6 DEF MoveTree, DropRedundant, WorkspaceOf, Publishing
  <2> QED
    BY <1>2, <2>1, <2>2, <2>3, <2>4, <2>5, <2>6 DEF Assemble
<1>3. CASE ContainerWorks \/ ContainerEnds \/ UNCHANGED envVars \/ TamperOutput \/ PowerLost
  BY <1>1, <1>3 DEF ContainerWorks, ContainerEnds, envVars, TamperOutput, PowerLost
<1> QED
  BY <1>2, <1>3 DEF EnvNext

\* An assembly meets the workspace that it made itself.
LEMMA WorkspaceStep ==
  ASSUME EnvInv, [EnvNext]_envVars, NEW d \in Assemblies PROVE KeepsWorkspace(d)
<1> USE DEF KeepsWorkspace, WorkspaceOf, Publishing, EnvAt, EnvGoes
<1>1. AssembliesTyped /\ WorkspaceTyped /\ ContainerApart /\ WorkspaceOf(d)
  BY DEF EnvInv, EnvTypeOK
<1>2. ASSUME NEW c \in Assemblies, Assemble(c), c # d PROVE KeepsWorkspace(d)
  <2>1. epc'[d] = epc[d] /\ (Working(d) => UNCHANGED <<stage, builder, container>>)
    BY <1>2, OthersKept
  <2> QED
    BY <1>1, <2>1 DEF Working
<1>3. ASSUME Assemble(d) PROVE KeepsWorkspace(d)
  <2> USE DEF AssembliesTyped
  <2>1. CASE Begin(d) \/ TakeIdentityLock(d) \/ KillAssembly(d) \/ ReleaseIdentityLock(d) \/ LookUp(d)
    BY <1>1, <2>1 DEF Begin, TakeIdentityLock, KillAssembly, ReleaseIdentityLock, LookUp
  <2>2. CASE RemoveStale(d) \/ RemoveContainer(d) \/ Unstage(d)
    BY <1>1, <2>2 DEF RemoveStale, RemoveContainer, Unstage
  <2>3. CASE PrepareWorkspace(d)
    BY <1>1, <2>3 DEF PrepareWorkspace, ContainerApart
  <2>4. CASE StartContainer(d) \/ RunReturns(d) \/ ValidateTree(d) \/ SealTree(d)
    BY <1>1, <2>4 DEF StartContainer, RunReturns, ValidateTree, SealTree
  <2>5. CASE CheckAbsent(d) \/ MakeTmp(d) \/ MoveTree(d) \/ WriteEvidence(d) \/ SyncTree(d)
    BY <1>1, <2>5 DEF CheckAbsent, MakeTmp, MoveTree, WriteEvidence, SyncTree, Step1, Publication
  <2>6. CASE RenameTmp(d) \/ SyncOutputs(d) \/ AppendIndex(d) \/ PublicationFails(d)
    BY <1>1, <2>6 DEF RenameTmp, SyncOutputs, AppendIndex, PublicationFails, Step1, Publication
  <2>7. CASE VerifyCollision(d) \/ DropRedundant(d)
    BY <1>1, <2>7 DEF VerifyCollision, DropRedundant
  <2> QED
    BY <1>3, <2>1, <2>2, <2>3, <2>4, <2>5, <2>6, <2>7 DEF Assemble
<1>4. CASE ContainerWorks
  BY <1>1, <1>4 DEF ContainerWorks
<1>5. CASE ContainerEnds \/ UNCHANGED envVars \/ TamperOutput
  BY <1>1, <1>5 DEF ContainerEnds, envVars, TamperOutput
<1>6. CASE PowerLost
  BY <1>6 DEF PowerLost
<1> QED
  BY <1>2, <1>3, <1>4, <1>5, <1>6 DEF EnvNext

\* Its identity is absent, or damaged, until it renames its tree itself.
LEMMA IdentityStep ==
  ASSUME EnvInv, [EnvNext]_envVars, NEW d \in Assemblies PROVE KeepsIdentity(d)
<1> USE DEF KeepsIdentity, IdentityOf, Publishing, Unrenamed, EnvAt, EnvGoes, Own, storeVars
<1>1. AssembliesTyped /\ StoreTyped /\ IdentityOf(d)
  BY DEF EnvInv, EnvTypeOK
<1>2. ASSUME NEW c \in Assemblies, Assemble(c), c # d PROVE KeepsIdentity(d)
  <2>1. /\ epc'[d] = epc[d] /\ identity'[d] = identity[d]
        /\ Working(d) => output' = output
    BY <1>2, OthersKept
  <2> QED
    BY <1>1, <2>1 DEF Working
<1>3. ASSUME Assemble(d) PROVE KeepsIdentity(d)
  <2> USE DEF AssembliesTyped
  <2>1. CASE Begin(d) \/ TakeIdentityLock(d) \/ KillAssembly(d) \/ ReleaseIdentityLock(d) \/ LookUp(d)
    BY <1>1, <2>1 DEF Begin, TakeIdentityLock, KillAssembly, ReleaseIdentityLock, LookUp
  <2>2. CASE RemoveStale(d) \/ RemoveContainer(d) \/ Unstage(d) \/ PrepareWorkspace(d)
    BY <1>1, <2>2 DEF RemoveStale, RemoveContainer, Unstage, PrepareWorkspace
  <2>3. CASE StartContainer(d) \/ RunReturns(d) \/ ValidateTree(d) \/ SealTree(d)
    BY <1>1, <2>3 DEF StartContainer, RunReturns, ValidateTree, SealTree
  <2>4. CASE CheckAbsent(d) \/ MakeTmp(d) \/ MoveTree(d) \/ WriteEvidence(d) \/ SyncTree(d)
    BY <1>1, <2>4 DEF CheckAbsent, MakeTmp, MoveTree, WriteEvidence, SyncTree, Step1, Publication
  <2>5. CASE RenameTmp(d) \/ SyncOutputs(d) \/ AppendIndex(d) \/ PublicationFails(d)
    BY <1>1, <2>5 DEF RenameTmp, SyncOutputs, AppendIndex, PublicationFails, Step1, Publication
  <2>6. CASE VerifyCollision(d) \/ DropRedundant(d)
    BY <1>1, <2>6 DEF VerifyCollision, DropRedundant
  <2> QED
    BY <1>3, <2>1, <2>2, <2>3, <2>4, <2>5, <2>6 DEF Assemble
<1>4. CASE ContainerWorks \/ ContainerEnds \/ UNCHANGED envVars
  BY <1>1, <1>4 DEF ContainerWorks, ContainerEnds, envVars
<1>5. CASE TamperOutput
  BY <1>1, <1>5 DEF TamperOutput, StoreTyped
<1>6. CASE PowerLost
  BY <1>6 DEF PowerLost
<1> QED
  BY <1>2, <1>3, <1>4, <1>5, <1>6 DEF EnvNext

\* What an assembly returns was verified, or is what it has built.
LEMMA ResultStep ==
  ASSUME EnvInv, [EnvNext]_envVars, NEW d \in Assemblies PROVE KeepsResult(d)
<1> USE DEF KeepsResult, ResultOf, EnvAt, EnvGoes, Own, Forgets, storeVars
<1>1. /\ AssembliesTyped /\ StoreTyped /\ ResultOf(d)
      /\ \A o \in Outputs : output[o] = "sound" => "sound" \in stood[o]
  BY DEF EnvInv, EnvTypeOK, OutputOf
<1>2. ASSUME NEW c \in Assemblies, Assemble(c), c # d PROVE KeepsResult(d)
  <2>1. /\ epc'[d] = epc[d] /\ identity'[d] = identity[d] /\ result'[d] = result[d]
        /\ Working(d) => stood' = stood
    BY <1>2, OthersKept
  <2> QED
    BY <1>1, <2>1 DEF Working
<1>3. ASSUME Assemble(d) PROVE KeepsResult(d)
  <2> USE DEF AssembliesTyped
  <2>1. CASE Begin(d) \/ TakeIdentityLock(d) \/ KillAssembly(d) \/ ReleaseIdentityLock(d)
    BY <1>1, <2>1 DEF Begin, TakeIdentityLock, KillAssembly, ReleaseIdentityLock
  <2>2. CASE LookUp(d)
    BY <1>1, <2>2 DEF LookUp, Verifies, EnvInv, EnvTypeOK, StoreTyped
  <2>3. CASE RemoveStale(d) \/ RemoveContainer(d) \/ Unstage(d) \/ PrepareWorkspace(d)
    BY <1>1, <2>3 DEF RemoveStale, RemoveContainer, Unstage, PrepareWorkspace
  <2>4. CASE StartContainer(d) \/ RunReturns(d) \/ ValidateTree(d) \/ SealTree(d)
    BY <1>1, <2>4 DEF StartContainer, RunReturns, ValidateTree, SealTree
  <2>5. CASE CheckAbsent(d) \/ MakeTmp(d) \/ MoveTree(d) \/ WriteEvidence(d) \/ SyncTree(d)
    BY <1>1, <2>5 DEF CheckAbsent, MakeTmp, MoveTree, WriteEvidence, SyncTree, Step1
  <2>6. CASE RenameTmp(d) \/ SyncOutputs(d) \/ PublicationFails(d)
    BY <1>1, <2>6 DEF RenameTmp, SyncOutputs, PublicationFails, Step1
  <2>7. CASE AppendIndex(d) \/ VerifyCollision(d) \/ DropRedundant(d)
    BY <1>1, <2>7 DEF AppendIndex, VerifyCollision, DropRedundant
  <2> QED
    BY <1>3, <2>1, <2>2, <2>3, <2>4, <2>5, <2>6, <2>7 DEF Assemble
<1>4. CASE ContainerWorks \/ ContainerEnds \/ UNCHANGED envVars
  BY <1>1, <1>4 DEF ContainerWorks, ContainerEnds, envVars
<1>5. CASE TamperOutput
  <2>1. PICK o \in Outputs, e \in {"absent", "corrupt", "other"} :
          /\ stood' = [stood EXCEPT ![o] = (@ \ {output[o]}) \cup (IF e = "corrupt" THEN {e} ELSE {})]
          /\ result' = [c \in Assemblies |-> IF result[c] = o THEN "none" ELSE result[c]]
    BY <1>5 DEF TamperOutput
  <2>2. result'[d] # "none" => result'[d] = result[d] /\ result[d] # o /\ result[d] \in Outputs
    BY <1>1, <2>1 DEF AssembliesTyped
  <2>3. result'[d] # "none" => stood'[result[d]] = stood[result[d]]
    BY <1>1, <2>1, <2>2 DEF StoreTyped
  <2> QED
    BY <1>1, <1>5, <2>2, <2>3 DEF TamperOutput
<1>6. CASE PowerLost
  BY <1>6 DEF PowerLost
<1> QED
  BY <1>2, <1>3, <1>4, <1>5, <1>6 DEF EnvNext

\* Nothing that stood under an identity is lost, and a complete output is seen
\* only once it is synchronised.
LEMMA OutputStep ==
  ASSUME EnvInv, [EnvNext]_envVars, NEW o \in Outputs PROVE KeepsOutput(o)
<1> USE DEF KeepsOutput, OutputOf, EnvAt, Own, storeVars
<1>1. StoreTyped /\ OutputOf(o)
  BY DEF EnvInv, EnvTypeOK
<1>2. ASSUME NEW c \in Assemblies, Assemble(c) PROVE KeepsOutput(o)
  <2>1. CASE RenameTmp(c)
    <3>1. identity[c] \in Outputs
      BY <2>1 DEF RenameTmp, Step1, EnvInv, IdentityOf, Publishing
    <3>2. CASE output[identity[c]] = "absent"
      BY <1>1, <2>1, <3>1, <3>2 DEF RenameTmp, StoreTyped
    <3>3. CASE output[identity[c]] # "absent"
      BY <1>1, <2>1, <3>3 DEF RenameTmp
    <3> QED
      BY <3>2, <3>3
  <2>2. CASE VerifyCollision(c)
    <3>1. identity[c] \in Outputs
      BY <2>2 DEF VerifyCollision, EnvInv, IdentityOf, Publishing
    <3>2. \/ UNCHANGED <<output, aside>>
          \/ /\ output' = [output EXCEPT ![identity[c]] = "absent"]
             /\ aside' = [aside EXCEPT ![identity[c]] = @ \cup {output[identity[c]]}]
      BY <2>2 DEF VerifyCollision
    <3>3. stood' = stood /\ tampered' = tampered
      BY <2>2 DEF VerifyCollision
    <3> QED
      BY <1>1, <3>1, <3>2, <3>3 DEF StoreTyped
  <2>3. CASE SyncOutputs(c) \/ AppendIndex(c) \/ PublicationFails(c)
    BY <1>1, <2>3 DEF SyncOutputs, AppendIndex, PublicationFails
  <2>4. CASE Begin(c) \/ TakeIdentityLock(c) \/ KillAssembly(c) \/ ReleaseIdentityLock(c) \/ LookUp(c)
    BY <1>1, <2>4 DEF Begin, TakeIdentityLock, KillAssembly, ReleaseIdentityLock, LookUp
  <2>5. CASE RemoveStale(c) \/ PrepareWorkspace(c) \/ StartContainer(c) \/ RunReturns(c)
             \/ RemoveContainer(c) \/ Unstage(c) \/ ValidateTree(c) \/ SealTree(c)
    BY <1>1, <2>5 DEF RemoveStale, PrepareWorkspace, StartContainer, RunReturns, RemoveContainer,
       Unstage, ValidateTree, SealTree
  <2>6. CASE CheckAbsent(c) \/ MakeTmp(c) \/ MoveTree(c) \/ WriteEvidence(c) \/ SyncTree(c) \/ DropRedundant(c)
    BY <1>1, <2>6 DEF CheckAbsent, MakeTmp, MoveTree, WriteEvidence, SyncTree, DropRedundant
  <2> QED
    BY <1>2, <2>1, <2>2, <2>3, <2>4, <2>5, <2>6 DEF Assemble
<1>3. CASE ContainerWorks \/ ContainerEnds \/ UNCHANGED envVars
  BY <1>1, <1>3 DEF ContainerWorks, ContainerEnds, envVars
<1>4. CASE TamperOutput
  <2>1. PICK p \in Outputs, e \in {"absent", "corrupt", "other"} :
          /\ output' = [output EXCEPT ![p] = e]
          /\ stood' = [stood EXCEPT ![p] = (@ \ {output[p]}) \cup (IF e = "corrupt" THEN {e} ELSE {})]
    BY <1>4 DEF TamperOutput
  <2>2. tampered' # 0 /\ aside' = aside
    BY <1>1, <1>4 DEF TamperOutput, StoreTyped
  <2>3. CASE p = o
    BY <1>1, <2>1, <2>2, <2>3 DEF StoreTyped
  <2>4. CASE p # o
    BY <1>1, <2>1, <2>2, <2>4 DEF StoreTyped
  <2> QED
    BY <2>3, <2>4
<1>5. CASE PowerLost
  <2>1. PICK lost \in SUBSET (Outputs \ durable) :
          LET torn(q) == \E c \in Assemblies : tmp[c] = "written" /\ epc[c] = "sync" /\ identity[c] = q
          IN  /\ output' = [q \in Outputs |-> IF q \in lost THEN "absent"
                             ELSE IF torn(q) /\ output[q] = "sound" THEN "corrupt" ELSE output[q]]
              /\ stood' = [q \in Outputs |-> IF q \in lost THEN stood[q] \ {output[q]} ELSE stood[q]]
    BY <1>5 DEF PowerLost
  <2>2. ASSUME NEW c \in Assemblies, epc[c] = "sync", identity[c] = o PROVE output[o] # "sound"
    BY <2>2 DEF EnvInv, IdentityOf, Unrenamed
  <2>3. aside' = aside /\ tampered' = tampered
    BY <1>5 DEF PowerLost
  <2>4. \/ output'[o] = "absent" /\ stood'[o] = stood[o] \ {output[o]}
        \/ output'[o] = output[o] /\ stood'[o] = stood[o]
    BY <2>1, <2>2
  <2> QED
    BY <1>1, <2>3, <2>4
<1> QED
  BY <1>2, <1>3, <1>4, <1>5 DEF EnvNext

LEMMA EnvStep == EnvInv /\ [EnvNext]_envVars => EnvInv'
<1> SUFFICES ASSUME EnvInv, [EnvNext]_envVars PROVE EnvInv'
  OBVIOUS
<1>1. EnvTypeOK'
  BY AssembliesTypedStep, StoreTypedStep, WorkspaceTypedStep DEF EnvTypeOK
<1>2. LockHeld' /\ ContainerApart'
  BY LockHeldStep, ContainerApartStep
<1>3. \A c \in Assemblies : KeepsWorkspace(c) /\ KeepsIdentity(c) /\ KeepsResult(c)
  BY WorkspaceStep, IdentityStep, ResultStep
<1>4. \A o \in Outputs : KeepsOutput(o)
  BY OutputStep
<1> QED
  BY <1>1, <1>2, <1>3, <1>4 DEF EnvInv, KeepsWorkspace, KeepsIdentity, KeepsResult, KeepsOutput

LEMMA EnvInvGivesSound == EnvInv => EnvironmentSound
<1> SUFFICES ASSUME EnvInv PROVE EnvironmentSound
  OBVIOUS
<1>1. WorkspaceOwned
  BY DEF EnvInv, WorkspaceOwned, WorkspaceOf, ContainerApart, Publishing
<1>2. OutputsPreserved
  BY DEF EnvInv, OutputsPreserved, OutputOf
<1>3. ReturnedSound
  BY DEF EnvInv, ReturnedSound, ResultOf
<1> QED
  BY <1>1, <1>2, <1>3 DEF EnvironmentSound

LEMMA EnvInvariant == EnvSpec => []EnvInv
<1>1. EnvInit => EnvInv
  BY EnvInitially
<1>2. EnvInv /\ [EnvNext]_envVars => EnvInv'
  BY EnvStep
<1> QED
  BY <1>1, <1>2, PTL DEF EnvSpec

\* The places, identities, results, contents and the workspace of a publication
\* stay within their domains: an index entry, for one, always names an output.
THEOREM EnvironmentTypeCorrect == EnvSpec => []EnvTypeOK
<1>1. EnvInv => EnvTypeOK
  BY DEF EnvInv
<1> QED
  BY <1>1, EnvInvariant, PTL

\* However many assemblies of one input are killed at whatever step, whatever
\* containers outlive them and whenever the power fails: an assembly validates
\* and publishes only what its own container made, an output is complete when
\* it can be seen and is never overwritten or deleted, and one that is returned
\* was verified or is the assembly's own (publish_environment, _atomic_publish,
\* find_cached_result).
THEOREM EnvironmentsSound == EnvSpec => []EnvironmentSound
<1>1. EnvInv => EnvironmentSound
  BY EnvInvGivesSound
<1> QED
  BY <1>1, EnvInvariant, PTL

-----------------------------------------------------------------------------
(* The private directories: the inductive invariant.                       *)

TreePlaces ==
  {"idle", "inspect", "secure", "make", "find", "mkdir", "pin", "reopen", "publish", "read",
   "children", "ensure", "done"}

TreeTyped ==
  /\ tree \in [Directories -> Entries] /\ firstTree \in [Directories -> Entries]
  /\ metadata \in Projects \cup {"none"}
  /\ maker \in [ToSet(Children) -> Projects \cup {"none"}]
CommandsTyped ==
  /\ tpc \in [TreeCommands -> TreePlaces]
  /\ tpurpose \in [TreeCommands -> Purposes \cup {"none"}]
  /\ tproject \in [TreeCommands -> Projects \cup {"none"}]
QueuesTyped ==
  /\ tqueue \in [TreeCommands -> Seq(Directories)]
  /\ tcreated \in [TreeCommands -> BOOLEAN]
  /\ tmissing \in [TreeCommands -> Seq(ToSet(Children))]
TreeTypeOK == TreeTyped /\ CommandsTyped /\ QueuesTyped

\* What is still to be visited: of the way to the namespace, or in it.
OnStem(q) == q # <<>> /\ ToSet(q) \subseteq ToSet(Stem) /\ q[Len(q)] = "namespace"
InNamespace(q) == q # <<>> /\ ToSet(q) \subseteq ToSet(Children)

\* The namespace is the project's of the command.
Owned(c) ==
  /\ metadata = tproject[c] /\ tproject[c] \in Projects
  /\ tree["namespace"] = "private"

\* A command has a project and a purpose; nothing is missing for it unless it
\* resolves.
Purposeful(c) ==
  /\ tpc[c] # "idle" => tproject[c] \in Projects /\ tpurpose[c] \in Purposes
  /\ tpc[c] = "idle" => tpurpose[c] = "none"
  /\ tpurpose[c] # "resolve" => tmissing[c] = <<>>

\* Everything is inspected before anything is secured.
Hardening(c) ==
  /\ tpc[c] \in {"inspect", "secure", "make"} =>
       /\ tpurpose[c] \in {"prepare", "resolve"} /\ tqueue[c] # <<>>
       /\ ToSet(tqueue[c]) \subseteq ToSet(Prepared(tpurpose[c]))
  /\ tpc[c] = "inspect" =>
       \A d \in ToSet(Prepared(tpurpose[c])) : d \in ToSet(tqueue[c]) \/ firstTree[d] # "unsafe"
  /\ tpc[c] \notin {"idle", "inspect"} /\ tpurpose[c] \in {"prepare", "resolve"} =>
       \A d \in ToSet(Prepared(tpurpose[c])) : firstTree[d] # "unsafe"

\* Directories are found from the root to the namespace, and only a resolution
\* makes one; the entry it pins is the one it has made.
Finding(c) ==
  /\ tpc[c] = "find" => OnStem(tqueue[c]) /\ tpurpose[c] # "prepare"
  /\ tpc[c] \in {"mkdir", "pin", "reopen"} =>
       /\ tpurpose[c] = "resolve" /\ Visited(c) # "root"
       /\ OnStem(tqueue[c]) \/ (InNamespace(tqueue[c]) /\ Owned(c))
  /\ tpc[c] = "pin" => Found(c) \in {"new", "private"}
  /\ tpc[c] \in {"publish", "read"} => tree["namespace"] = "private" /\ tpurpose[c] # "prepare"

\* The children of a namespace are looked at once its metadata is verified.
Populating(c) ==
  /\ tpc[c] \in {"children", "ensure"} => Owned(c) /\ ToSet(tqueue[c]) \subseteq ToSet(Children)
  /\ tpc[c] = "ensure" /\ tpurpose[c] # "resolve" => tqueue[c] = <<>>
  /\ tpc[c] = "done" /\ tpurpose[c] \in {"resolve", "validate"} => Owned(c)

MakersRecorded == \A d \in ToSet(Children) : maker[d] # "none" => maker[d] = metadata
UnsafeStays == \A d \in Directories : firstTree[d] = "unsafe" => tree[d] = "unsafe"

CommandOK(c) == Purposeful(c) /\ Hardening(c) /\ Finding(c) /\ Populating(c)
KeepsCommand(c) == CommandOK(c)'

TreeInv ==
  /\ TreeTypeOK /\ MakersRecorded /\ UnsafeStays /\ RejectedUntouched
  /\ \A c \in TreeCommands : CommandOK(c)

-----------------------------------------------------------------------------
(* The sequences of directories.                                           *)

LEMMA QueueTail ==
  ASSUME NEW S, NEW q \in Seq(S), q # <<>>
  PROVE  /\ Head(q) \in S /\ Tail(q) \in Seq(S)
         /\ ToSet(q) = {Head(q)} \cup ToSet(Tail(q))
         /\ Len(q) > 1 => Tail(q) # <<>> /\ Tail(q)[Len(Tail(q))] = q[Len(q)]
         /\ ~ Len(q) > 1 => Head(q) = q[Len(q)] /\ ToSet(q) = {Head(q)}
<1>1. /\ Len(q) \in Nat /\ Len(q) > 0 /\ DOMAIN q = 1..Len(q) /\ Head(q) = q[1]
      /\ Tail(q) \in Seq(S) /\ Len(Tail(q)) = Len(q) - 1 /\ DOMAIN Tail(q) = 1..(Len(q) - 1)
      /\ \A i \in 1..(Len(q) - 1) : Tail(q)[i] = q[i + 1]
  OBVIOUS
<1>2. ToSet(q) \subseteq {Head(q)} \cup ToSet(Tail(q))
  <2>1. ASSUME NEW i \in 1..Len(q), i # 1 PROVE q[i] \in ToSet(Tail(q))
    <3>1. i - 1 \in 1..(Len(q) - 1) /\ Tail(q)[i - 1] = q[i]
      BY <1>1, <2>1
    <3> QED
      BY <1>1, <3>1 DEF ToSet
  <2> QED
    BY <1>1, <2>1 DEF ToSet
<1>3. {Head(q)} \cup ToSet(Tail(q)) \subseteq ToSet(q)
  <2>1. ASSUME NEW i \in 1..(Len(q) - 1) PROVE Tail(q)[i] \in ToSet(q)
    <3>1. i + 1 \in 1..Len(q) /\ Tail(q)[i] = q[i + 1]
      BY <1>1, <2>1
    <3> QED
      BY <1>1, <3>1 DEF ToSet
  <2> QED
    BY <1>1, <2>1 DEF ToSet
<1>4. Head(q) \in S
  BY <1>1
<1>5. ASSUME Len(q) > 1 PROVE Tail(q) # <<>> /\ Tail(q)[Len(Tail(q))] = q[Len(q)]
  <2>1. /\ Len(q) - 1 \in 1..(Len(q) - 1) /\ (Len(q) - 1) + 1 = Len(q)
        /\ Len(Tail(q)) = Len(q) - 1 /\ Len(Tail(q)) # 0
    BY <1>1, <1>5
  <2>2. Tail(q)[Len(q) - 1] = q[(Len(q) - 1) + 1]
    BY <1>1, <2>1
  <2>3. \A t : t = <<>> => Len(t) = 0
    OBVIOUS
  <2>4. Tail(q) # <<>>
    BY <2>1, <2>3
  <2> QED
    BY <2>1, <2>2, <2>4
<1>6. ASSUME ~ Len(q) > 1 PROVE Head(q) = q[Len(q)] /\ ToSet(q) = {Head(q)}
  <2>1. Len(q) = 1
    BY <1>1, <1>6
  <2> QED
    BY <1>1, <2>1 DEF ToSet
<1> QED
  BY <1>1, <1>2, <1>3, <1>4, <1>5, <1>6

LEMMA StemQueue ==
  /\ ToSet(Stem) = {"root", "projects", "namespace"}
  /\ Stem \in Seq(Directories) /\ OnStem(Stem)
<1>1. DOMAIN Stem = 1..3 /\ Stem[1] = "root" /\ Stem[2] = "projects" /\ Stem[3] = "namespace"
  BY DEF Stem
<1>2. ToSet(Stem) = {"root", "projects", "namespace"}
  BY <1>1 DEF ToSet
<1>3. Stem \in Seq(Directories)
  <2>1. {"root", "projects", "namespace"} \subseteq Directories
    BY <1>2 DEF Directories
  <2> QED
    BY <2>1 DEF Stem
<1>4. Stem # <<>> /\ Stem[Len(Stem)] = "namespace"
  BY DEF Stem
<1> QED
  BY <1>2, <1>3, <1>4 DEF OnStem

LEMMA PreparedQueue ==
  ASSUME NEW purpose
  PROVE  /\ Prepared(purpose) \in Seq(Directories) /\ Prepared(purpose) # <<>>
         /\ "root" \in ToSet(Prepared(purpose))
         /\ ToSet(Prepared(purpose)) \subseteq ToSet(Descendants) \cup {"root"}
         /\ purpose = "prepare" => ToSet(Descendants) \subseteq ToSet(Prepared(purpose))
         /\ purpose # "prepare" => ToSet(Prepared(purpose)) = {"root"}
<1>1. Descendants \in Seq(ToSet(Descendants)) /\ "root" \in Directories
  <2>1. Descendants \in Seq(ToSet(Descendants))
    BY TreeAssumption DEF ToSet
  <2>2. "root" \in Directories
    BY StemQueue DEF Directories
  <2> QED
    BY <2>1, <2>2
<1>2. CASE purpose = "prepare"
  <2> DEFINE q == <<"root">> \o Descendants
  <2>1. Prepared(purpose) = q
    BY <1>2 DEF Prepared
  <2>2. /\ Len(Descendants) \in Nat /\ Len(q) = Len(Descendants) + 1 /\ DOMAIN q = 1..Len(q)
        /\ q[1] = "root" /\ \A i \in 1..Len(Descendants) : q[i + 1] = Descendants[i]
        /\ DOMAIN Descendants = 1..Len(Descendants)
    BY <1>1
  <2>3. \A i \in 2..Len(q) : i - 1 \in 1..Len(Descendants) /\ q[i] = Descendants[i - 1]
    BY <2>2
  <2>4. ToSet(q) = ToSet(Descendants) \cup {"root"}
    <3>1. \A i \in 1..Len(q) : q[i] \in ToSet(Descendants) \cup {"root"}
      BY <2>2, <2>3 DEF ToSet
    <3>2. \A i \in 1..Len(Descendants) : Descendants[i] \in ToSet(q)
      <4>1. ASSUME NEW i \in 1..Len(Descendants)
            PROVE  i + 1 \in DOMAIN q /\ Descendants[i] = q[i + 1]
        BY <2>2
      <4> QED
        BY <4>1 DEF ToSet
    <3>3. "root" \in ToSet(q)
      BY <2>2 DEF ToSet
    <3> HIDE DEF q
    <3> QED
      BY <2>2, <3>1, <3>2, <3>3 DEF ToSet
  <2>5. ToSet(Descendants) \cup {"root"} \subseteq Directories
    BY <1>1 DEF Directories
  <2>6. q \in Seq(Directories) /\ q # <<>>
    <3>1. Descendants \in Seq(Directories)
      BY <1>1, <2>5
    <3> QED
      BY <1>1, <3>1
  <2> HIDE DEF q
  <2> QED
    BY <1>2, <2>1, <2>4, <2>6
<1>3. CASE purpose # "prepare"
  <2>1. Prepared(purpose) = <<"root">>
    BY <1>3 DEF Prepared
  <2>2. ToSet(<<"root">>) = {"root"}
    BY DEF ToSet
  <2> QED
    BY <1>1, <1>3, <2>1, <2>2
<1> QED
  BY <1>2, <1>3

\* The children are apart from what is prepared and from the way to a namespace.
LEMMA Apart ==
  /\ Children \in Seq(ToSet(Children)) /\ Children \in Seq(Directories)
  /\ ToSet(Children) \subseteq Directories
  /\ ToSet(Children) \cap {"root", "projects", "namespace"} = {}
  /\ ToSet(Descendants) \cap {"root", "projects", "namespace"} = {}
  /\ ToSet(Descendants) \cap ToSet(Children) = {}
<1>1. Children \in Seq(ToSet(Children)) /\ ToSet(Children) \subseteq Directories
  BY TreeAssumption DEF ToSet, Directories
<1>2. Children \in Seq(Directories)
  BY <1>1
<1> QED
  BY <1>1, <1>2, TreeAssumption, StemQueue

-----------------------------------------------------------------------------
(* Steps.                                                                  *)

LEMMA TreeInitially == TreeInit => TreeInv
<1> SUFFICES ASSUME TreeInit PROVE TreeInv
  OBVIOUS
<1>1. /\ tree \in [Directories -> Entries] /\ firstTree = tree
  BY DEF TreeInit, Entries
<1>2. metadata \in Projects \cup {"none"} /\ maker \in [ToSet(Children) -> Projects \cup {"none"}]
  BY DEF TreeInit
<1>3. \A c \in TreeCommands : /\ tpc[c] = "idle" /\ tpurpose[c] = "none" /\ tproject[c] = "none"
                              /\ tqueue[c] = <<>> /\ tmissing[c] = <<>>
  BY DEF TreeInit
<1>4. CommandsTyped
  BY DEF TreeInit, CommandsTyped, TreePlaces
<1>5. QueuesTyped
  BY DEF TreeInit, QueuesTyped
<1>6. MakersRecorded /\ UnsafeStays /\ RejectedUntouched
  BY <1>1 DEF TreeInit, MakersRecorded, UnsafeStays, RejectedUntouched
<1>7. \A c \in TreeCommands : CommandOK(c)
  BY <1>3 DEF CommandOK, Purposeful, Hardening, Finding, Populating
<1> QED
  BY <1>1, <1>2, <1>4, <1>5, <1>6, <1>7 DEF TreeInv, TreeTypeOK, TreeTyped

LEMMA VisitedKnown ==
  ASSUME TreeInv, NEW c \in TreeCommands, tqueue[c] # <<>>
  PROVE  /\ Visited(c) \in Directories /\ Visited(c) \in ToSet(tqueue[c])
         /\ Tail(tqueue[c]) \in Seq(Directories) /\ tqueue[c] \in Seq(Directories)
BY QueueTail DEF TreeInv, TreeTypeOK, QueuesTyped, Visited

\* A directory that is there never ceases to be, a private one stays private,
\* and a project that is recorded stays so.
Monotone ==
  /\ firstTree' = firstTree
  /\ \A d \in Directories : /\ tree[d] = "private" => tree'[d] = "private"
                            /\ tree[d] \in {"new", "private"} => tree'[d] \in {"new", "private"}
                            /\ tree[d] = "unsafe" => tree'[d] = "unsafe"
  /\ metadata # "none" => metadata' = metadata
OthersLeft(c) ==
  \A d \in TreeCommands \ {c} :
    /\ tpc'[d] = tpc[d] /\ tpurpose'[d] = tpurpose[d] /\ tproject'[d] = tproject[d]
    /\ tqueue'[d] = tqueue[d] /\ tmissing'[d] = tmissing[d]

\* The places where a command touches the directory it visits, and all it can
\* do to the tree: make an absent directory, or make one private.
Writing(c) == tpc[c] \in {"secure", "make", "mkdir", "pin"}
TreeTouched(c) ==
  \/ tree' = tree
  \/ /\ Writing(c) /\ tqueue[c] # <<>> /\ tree[Visited(c)] # "unsafe"
     /\ \E e \in {"new", "private"} :
          /\ tree' = [tree EXCEPT ![Visited(c)] = e]
          /\ e = "new" => tree[Visited(c)] = "absent"

LEMMA StepShape ==
  ASSUME TreeInv, NEW c \in TreeCommands, TreeStep(c)
  PROVE  /\ TreeTouched(c) /\ OthersLeft(c) /\ firstTree' = firstTree
         /\ metadata' = metadata \/ (metadata = "none" /\ metadata' = tproject[c] /\ tpc[c] = "publish")
         /\ maker' = maker \/ (tpc[c] = "mkdir" /\ metadata' = metadata
              /\ maker' = [d \in DOMAIN maker |-> IF d = Visited(c) THEN tproject[c] ELSE maker[d]])
<1> USE DEF TreeAt, TreeGoes, Visits, OthersLeft, Found, Becomes, localVars
<1>1. CommandsTyped /\ QueuesTyped /\ CommandOK(c)
  BY DEF TreeInv, TreeTypeOK
<1>2. CASE StartCommand(c)
  BY <1>1, <1>2 DEF StartCommand, TreeTouched, CommandsTyped, QueuesTyped
<1>3. CASE InspectEntry(c)
  BY <1>1, <1>3 DEF InspectEntry, AfterInspection, TreeTouched, CommandsTyped, QueuesTyped
<1>4. CASE SecureEntry(c)
  <2>1. OthersLeft(c)
    BY <1>1, <1>4 DEF SecureEntry, AfterSecuring, CommandsTyped, QueuesTyped
  <2>2. TreeTouched(c)
    BY <1>1, <1>4 DEF SecureEntry, TreeTouched, Writing, CommandOK, Hardening
  <2> QED
    BY <1>4, <2>1, <2>2 DEF SecureEntry
<1>5. CASE MakeEntry(c)
  <2>1. OthersLeft(c)
    BY <1>1, <1>5 DEF MakeEntry, CommandsTyped, QueuesTyped
  <2>2. TreeTouched(c)
    BY <1>1, <1>5 DEF MakeEntry, TreeTouched, Writing, CommandOK, Hardening
  <2> QED
    BY <1>5, <2>1, <2>2 DEF MakeEntry
<1>6. CASE FindDirectory(c)
  BY <1>1, <1>6 DEF FindDirectory, AfterFinding, TreeTouched, CommandsTyped, QueuesTyped
<1>7. CASE EnsureDirectory(c)
  <2>1. OthersLeft(c)
    BY <1>1, <1>7 DEF EnsureDirectory, CommandsTyped, QueuesTyped
  <2>2. tqueue[c] # <<>>
    BY <1>1, <1>7 DEF EnsureDirectory, CommandOK, Finding, OnStem, InNamespace
  <2>3. TreeTouched(c)
    BY <1>7, <2>2 DEF EnsureDirectory, TreeTouched, Writing
  <2> QED
    BY <1>7, <2>1, <2>3 DEF EnsureDirectory
<1>8. CASE PinMode(c)
  <2>1. OthersLeft(c)
    BY <1>1, <1>8 DEF PinMode, CommandsTyped, QueuesTyped
  <2>2. tqueue[c] # <<>> /\ tree[Visited(c)] # "unsafe"
    BY <1>1, <1>8 DEF PinMode, CommandOK, Finding, OnStem, InNamespace
  <2>3. TreeTouched(c)
    BY <1>8, <2>2 DEF PinMode, TreeTouched, Writing
  <2> QED
    BY <1>8, <2>1, <2>3 DEF PinMode
<1>9. CASE Reopen(c)
  BY <1>1, <1>9 DEF Reopen, AfterFinding, TreeTouched, CommandsTyped, QueuesTyped
<1>10. CASE PublishMetadata(c)
  BY <1>1, <1>10 DEF PublishMetadata, TreeTouched, CommandsTyped, QueuesTyped
<1>11. CASE ReadMetadata(c) \/ InspectChild(c) \/ EnsureChild(c)
  BY <1>1, <1>11 DEF ReadMetadata, InspectChild, EnsureChild, TreeTouched, CommandsTyped, QueuesTyped
<1>12. CASE CommandOver(c)
  BY <1>1, <1>12 DEF CommandOver, TreeTouched, CommandsTyped, QueuesTyped
<1> QED
  BY <1>2, <1>3, <1>4, <1>5, <1>6, <1>7, <1>8, <1>9, <1>10, <1>11, <1>12 DEF TreeStep

LEMMA StepMonotone ==
  ASSUME TreeInv, NEW c \in TreeCommands, TreeStep(c)
  PROVE  Monotone
<1>1. tree \in [Directories -> Entries]
  BY DEF TreeInv, TreeTypeOK, TreeTyped
<1>2. tqueue[c] # <<>> => Visited(c) \in Directories
  BY VisitedKnown
<1> QED
  BY <1>1, <1>2, StepShape DEF Monotone, TreeTouched

\* A command is left as it was by the steps of the others.
LEMMA OtherCommands ==
  ASSUME TreeInv, NEW c \in TreeCommands, TreeStep(c), NEW d \in TreeCommands \ {c}
  PROVE  KeepsCommand(d)
<1>1. /\ tpc'[d] = tpc[d] /\ tpurpose'[d] = tpurpose[d] /\ tproject'[d] = tproject[d]
      /\ tqueue'[d] = tqueue[d] /\ tmissing'[d] = tmissing[d] /\ firstTree' = firstTree
  BY StepShape DEF OthersLeft
<1>2. Monotone /\ "namespace" \in Directories
  BY StepMonotone, StemQueue DEF Directories
<1>3. CommandOK(d)
  BY DEF TreeInv
<1>4. Owned(d) => Owned(d)'
  <2>1. "none" \notin Projects
    BY TreeAssumption
  <2> QED
    BY <1>1, <1>2, <2>1 DEF Owned, Monotone
<1>5. Purposeful(d)'
  BY <1>1, <1>3 DEF CommandOK, Purposeful
<1>6. Hardening(d)'
  BY <1>1, <1>3 DEF CommandOK, Hardening, Prepared
<1>7. Finding(d)'
  <2>1. tpc[d] = "pin" => Visited(d) \in Directories
    BY <1>3, VisitedKnown DEF CommandOK, Finding, OnStem, InNamespace
  <2>2. tpc[d] = "pin" => Found(d)' \in {"new", "private"}
    BY <1>1, <1>2, <1>3, <2>1 DEF CommandOK, Finding, Found, Visited, Monotone
  <2>3. Visited(d)' = Visited(d)
    BY <1>1 DEF Visited
  <2> QED
    BY <1>1, <1>2, <1>3, <1>4, <2>2, <2>3 DEF CommandOK, Finding, Monotone, OnStem, InNamespace
<1>8. Populating(d)'
  BY <1>1, <1>3, <1>4 DEF CommandOK, Populating
<1> QED
  BY <1>5, <1>6, <1>7, <1>8 DEF KeepsCommand, CommandOK

\* What a step of the command itself leaves of it.
LEMMA OwnCommand ==
  ASSUME TreeInv, NEW c \in TreeCommands, TreeStep(c)
  PROVE  KeepsCommand(c)
<1> USE DEF TreeAt, TreeGoes, Visits, Found, localVars
<1>1. CommandsTyped /\ QueuesTyped /\ Purposeful(c) /\ Hardening(c) /\ Finding(c) /\ Populating(c)
  BY DEF TreeInv, TreeTypeOK, CommandOK
<1>2. "none" \notin Projects
  BY TreeAssumption
<1>3. firstTree' = firstTree
  BY StepShape
<1>4. UnsafeStays
  BY DEF TreeInv
<1>5. tqueue[c] # <<>> =>
        /\ Visited(c) = Head(tqueue[c]) /\ Visited(c) \in ToSet(tqueue[c]) /\ Visited(c) \in Directories
        /\ ToSet(tqueue[c]) = {Visited(c)} \cup ToSet(Tail(tqueue[c]))
        /\ Len(tqueue[c]) > 1 => Tail(tqueue[c]) # <<>>
             /\ Tail(tqueue[c])[Len(Tail(tqueue[c]))] = tqueue[c][Len(tqueue[c])]
        /\ ~ Len(tqueue[c]) > 1 => Visited(c) = tqueue[c][Len(tqueue[c])] /\ ToSet(tqueue[c]) = {Visited(c)}
  BY <1>1, VisitedKnown, QueueTail DEF QueuesTyped, Visited
<1>6. CASE StartCommand(c)
  <2>1. PICK purpose \in Purposes :
          /\ tpurpose' = [tpurpose EXCEPT ![c] = purpose]
          /\ IF purpose \in {"prepare", "resolve"}
             THEN TreeGoes(c, "inspect") /\ Visits(c, Prepared(purpose))
             ELSE TreeGoes(c, "find") /\ Visits(c, Stem)
    BY <1>6 DEF StartCommand
  <2>2. tpurpose'[c] = purpose /\ tproject'[c] \in Projects /\ tmissing'[c] = <<>>
    BY <1>1, <1>6, <2>1 DEF StartCommand, CommandsTyped, Purposeful
  <2>3. Purposeful(c)'
    BY <1>1, <2>1, <2>2 DEF Purposeful, CommandsTyped
  <2>4. CASE purpose \in {"prepare", "resolve"}
    <3>1. tpc'[c] = "inspect" /\ tqueue'[c] = Prepared(purpose)
      BY <1>1, <2>1, <2>4 DEF CommandsTyped, QueuesTyped
    <3>2. Prepared(purpose) # <<>>
      BY PreparedQueue
    <3>3. Hardening(c)'
      BY <2>2, <2>4, <3>1, <3>2 DEF Hardening, Prepared
    <3> QED
      BY <2>3, <3>1, <3>3 DEF KeepsCommand, CommandOK, Finding, Populating
  <2>5. CASE purpose \notin {"prepare", "resolve"}
    <3>1. tpc'[c] = "find" /\ tqueue'[c] = Stem
      BY <1>1, <2>1, <2>5 DEF CommandsTyped, QueuesTyped
    <3>2. Finding(c)'
      BY <2>2, <2>5, <3>1, StemQueue DEF Finding, OnStem
    <3> QED
      BY <2>2, <2>3, <2>5, <3>1, <3>2 DEF KeepsCommand, CommandOK, Hardening, Populating
  <2> QED
    BY <2>4, <2>5
<1>7. CASE InspectEntry(c)
  <2>1. /\ tpurpose'[c] = tpurpose[c] /\ tproject'[c] = tproject[c] /\ tmissing'[c] = tmissing[c]
        /\ tpc[c] = "inspect" /\ tqueue[c] # <<>> /\ tpurpose[c] \in {"prepare", "resolve"}
    BY <1>1, <1>7 DEF InspectEntry, Hardening
  <2>2. firstTree[Visited(c)] # "unsafe"
    BY <1>4, <1>5, <1>7, <2>1 DEF InspectEntry, UnsafeStays
  <2>3. Purposeful(c)'
    <3>1. tpc'[c] # "idle"
      BY <1>1, <1>7 DEF InspectEntry, AfterInspection, CommandsTyped
    <3> QED
      BY <1>1, <2>1, <3>1 DEF Purposeful
  <2>4. CASE Len(tqueue[c]) > 1
    <3>1. tpc'[c] = "inspect" /\ tqueue'[c] = Tail(tqueue[c])
      BY <1>1, <1>7, <2>4 DEF InspectEntry, AfterInspection, CommandsTyped, QueuesTyped
    <3>2. Hardening(c)'
      BY <1>1, <1>3, <1>5, <2>1, <2>2, <2>4, <3>1 DEF Hardening, Prepared
    <3> QED
      BY <2>3, <3>1, <3>2 DEF KeepsCommand, CommandOK, Finding, Populating
  <2>5. CASE ~ Len(tqueue[c]) > 1
    <3>1. tpc'[c] = "secure" /\ tqueue'[c] = Prepared(tpurpose[c])
      BY <1>1, <1>7, <2>5 DEF InspectEntry, AfterInspection, CommandsTyped, QueuesTyped
    <3>2. Prepared(tpurpose[c]) # <<>>
      BY PreparedQueue
    <3>3. \A d \in ToSet(Prepared(tpurpose[c])) : firstTree[d] # "unsafe"
      BY <1>1, <1>5, <2>1, <2>2, <2>5 DEF Hardening
    <3>4. Hardening(c)'
      BY <1>3, <2>1, <3>1, <3>2, <3>3 DEF Hardening, Prepared
    <3> QED
      BY <2>3, <3>1, <3>4 DEF KeepsCommand, CommandOK, Finding, Populating
  <2> QED
    BY <2>4, <2>5
<1>8. CASE SecureEntry(c)
  <2>1. /\ tpurpose'[c] = tpurpose[c] /\ tproject'[c] = tproject[c] /\ tmissing'[c] = tmissing[c]
        /\ tpc[c] = "secure" /\ tqueue[c] # <<>> /\ tpurpose[c] \in {"prepare", "resolve"}
    BY <1>1, <1>8 DEF SecureEntry, Hardening
  <2>2. \/ tpc'[c] = "make" /\ tqueue'[c] = tqueue[c]
        \/ tpc'[c] = "secure" /\ tqueue'[c] = Tail(tqueue[c]) /\ Len(tqueue[c]) > 1
        \/ tpc'[c] = "done" /\ tpurpose[c] = "prepare"
        \/ tpc'[c] = "find" /\ tpurpose[c] = "resolve" /\ tqueue'[c] = Stem
    BY <1>1, <1>8, <2>1 DEF SecureEntry, AfterSecuring, CommandsTyped, QueuesTyped
  <2>3. Purposeful(c)'
    BY <1>1, <2>1, <2>2 DEF Purposeful
  <2>4. Hardening(c)'
    BY <1>1, <1>3, <1>5, <2>1, <2>2 DEF Hardening, Prepared
  <2>5. Finding(c)'
    BY <2>1, <2>2, StemQueue DEF Finding, OnStem
  <2>6. Populating(c)'
    BY <2>1, <2>2 DEF Populating
  <2> QED
    BY <2>3, <2>4, <2>5, <2>6 DEF KeepsCommand, CommandOK
<1>9. CASE MakeEntry(c)
  <2>1. /\ tpurpose'[c] = tpurpose[c] /\ tproject'[c] = tproject[c] /\ tmissing'[c] = tmissing[c]
        /\ tpc[c] = "make" /\ tpc'[c] = "secure" /\ tqueue'[c] = tqueue[c]
    BY <1>1, <1>9 DEF MakeEntry, CommandsTyped
  <2> QED
    BY <1>1, <1>3, <2>1 DEF KeepsCommand, CommandOK, Purposeful, Hardening, Finding, Populating, Prepared
<1>10. CASE FindDirectory(c)
  <2>1. /\ tpurpose'[c] = tpurpose[c] /\ tproject'[c] = tproject[c] /\ tmissing'[c] = tmissing[c]
        /\ tpc[c] = "find" /\ OnStem(tqueue[c]) /\ tqueue[c] # <<>> /\ tpurpose[c] # "prepare"
        /\ tree' = tree /\ metadata' = metadata
    BY <1>1, <1>10 DEF FindDirectory, Finding, OnStem
  <2>2. \/ tpc'[c] = "find" /\ tqueue'[c] = Tail(tqueue[c]) /\ Len(tqueue[c]) > 1
        \/ tpc'[c] \in {"publish", "read"} /\ tree["namespace"] = "private"
        \/ tpc'[c] = "mkdir" /\ tpurpose[c] = "resolve" /\ Visited(c) # "root" /\ tqueue'[c] = tqueue[c]
        \/ tpc'[c] = "done" /\ tpurpose[c] = "dry_run"
    <3>1. CASE Found(c) = "private" /\ AfterFinding(c)
      BY <1>1, <1>5, <2>1, <3>1 DEF AfterFinding, CommandsTyped, QueuesTyped, OnStem
    <3>2. CASE Found(c) = "absent"
      BY <1>1, <1>10, <3>2 DEF FindDirectory, CommandsTyped
    <3> QED
      BY <1>10, <3>1, <3>2 DEF FindDirectory
  <2>3. Purposeful(c)'
    BY <1>1, <2>1, <2>2 DEF Purposeful
  <2>4. Hardening(c)'
    BY <1>1, <1>3, <2>1, <2>2 DEF Hardening, Prepared
  <2>5. Finding(c)'
    <3>1. Visited(c)' = Head(tqueue'[c])
      BY DEF Visited
    <3> QED
      BY <1>5, <2>1, <2>2, <3>1 DEF Finding, OnStem, Visited
  <2>6. Populating(c)'
    BY <2>1, <2>2 DEF Populating
  <2> QED
    BY <2>3, <2>4, <2>5, <2>6 DEF KeepsCommand, CommandOK
<1>11. CASE EnsureDirectory(c)
  <2>1. /\ tpurpose'[c] = tpurpose[c] /\ tproject'[c] = tproject[c] /\ tmissing'[c] = tmissing[c]
        /\ tpc[c] = "mkdir" /\ tpurpose[c] = "resolve" /\ Visited(c) # "root"
        /\ tqueue'[c] = tqueue[c] /\ metadata' = metadata /\ Visited(c)' = Visited(c)
        /\ tqueue[c] # <<>> /\ (OnStem(tqueue[c]) \/ (InNamespace(tqueue[c]) /\ Owned(c)))
    BY <1>1, <1>11 DEF EnsureDirectory, Finding, Visited, OnStem, InNamespace
  <2>2. /\ tpc'[c] \in {"pin", "reopen"}
        /\ tpc'[c] = "pin" => \E e \in {"new", "private"} : Becomes(Visited(c), e)
    BY <1>1, <1>11 DEF EnsureDirectory, CommandsTyped
  <2>3. Owned(c) => Owned(c)'
    <3>1. "namespace" \in Directories /\ Monotone
      BY StepMonotone, StemQueue DEF Directories
    <3> QED
      BY <2>1, <3>1 DEF Owned, Monotone
  <2>4. tpc'[c] = "pin" => Found(c)' \in {"new", "private"}
    <3>1. tree \in [Directories -> Entries] /\ Visited(c) \in Directories
      BY <1>5, <2>1 DEF TreeInv, TreeTypeOK, TreeTyped
    <3>2. Found(c)' = tree'[Visited(c)]
      BY <2>1
    <3> QED
      BY <2>2, <3>1, <3>2 DEF Becomes
  <2>5. Finding(c)'
    BY <2>1, <2>2, <2>3, <2>4 DEF Finding, OnStem, InNamespace
  <2> QED
    BY <1>1, <1>3, <2>1, <2>2, <2>5 DEF KeepsCommand, CommandOK, Purposeful, Hardening, Populating, Prepared
<1>12. CASE PinMode(c)
  <2>1. /\ tpurpose'[c] = tpurpose[c] /\ tproject'[c] = tproject[c] /\ tmissing'[c] = tmissing[c]
        /\ tpc[c] = "pin" /\ tpc'[c] = "reopen" /\ tpurpose[c] = "resolve" /\ Visited(c) # "root"
        /\ tqueue'[c] = tqueue[c] /\ metadata' = metadata /\ Visited(c)' = Visited(c)
        /\ (OnStem(tqueue[c]) \/ (InNamespace(tqueue[c]) /\ Owned(c)))
    BY <1>1, <1>12 DEF PinMode, Finding, Visited, CommandsTyped
  <2>2. Owned(c) => Owned(c)'
    <3>1. "namespace" \in Directories /\ Monotone
      BY StepMonotone, StemQueue DEF Directories
    <3> QED
      BY <2>1, <3>1 DEF Owned, Monotone
  <2>3. Finding(c)'
    BY <2>1, <2>2 DEF Finding, OnStem, InNamespace
  <2> QED
    BY <1>1, <1>3, <2>1, <2>3 DEF KeepsCommand, CommandOK, Purposeful, Hardening, Populating, Prepared
<1>13. CASE Reopen(c)
  <2>1. /\ tpurpose'[c] = tpurpose[c] /\ tproject'[c] = tproject[c] /\ tmissing'[c] = tmissing[c]
        /\ tpc[c] = "reopen" /\ tpurpose[c] = "resolve" /\ tree' = tree /\ metadata' = metadata
        /\ tqueue[c] # <<>> /\ (OnStem(tqueue[c]) \/ (InNamespace(tqueue[c]) /\ Owned(c)))
        /\ Found(c) = "private"
    BY <1>1, <1>13 DEF Reopen, Finding, OnStem, InNamespace
  <2>2. \/ tpc'[c] = "ensure" /\ tqueue'[c] = Tail(tqueue[c]) /\ Visited(c) \in ToSet(Children)
        \/ tpc'[c] = "find" /\ tqueue'[c] = Tail(tqueue[c]) /\ Len(tqueue[c]) > 1
             /\ Visited(c) \notin ToSet(Children)
        \/ tpc'[c] \in {"publish", "read"} /\ ~ Len(tqueue[c]) > 1 /\ Visited(c) \notin ToSet(Children)
    BY <1>1, <1>13 DEF Reopen, AfterFinding, CommandsTyped, QueuesTyped
  <2>3. Visited(c) \in ToSet(tqueue[c])
    BY <1>5, <2>1
  <2>4. CASE Visited(c) \in ToSet(Children)
    <3>1. ~ OnStem(tqueue[c])
      BY <2>3, <2>4, Apart, StemQueue DEF OnStem
    <3>2. Owned(c)' /\ ToSet(tqueue'[c]) \subseteq ToSet(Children) /\ tpc'[c] = "ensure"
      BY <1>5, <2>1, <2>2, <2>4, <3>1 DEF Owned, InNamespace
    <3> QED
      BY <1>1, <1>3, <2>1, <3>2 DEF KeepsCommand, CommandOK, Purposeful, Hardening, Finding, Populating, Prepared
  <2>5. CASE Visited(c) \notin ToSet(Children)
    <3>1. OnStem(tqueue[c])
      BY <2>1, <2>3, <2>5 DEF InNamespace
    <3>2. Finding(c)'
      BY <1>5, <2>1, <2>2, <2>5, <3>1 DEF Finding, OnStem
    <3> QED
      BY <1>1, <1>3, <2>1, <2>2, <2>5, <3>2 DEF KeepsCommand, CommandOK, Purposeful, Hardening, Populating, Prepared
  <2> QED
    BY <2>4, <2>5
<1>14. CASE PublishMetadata(c)
  <2>1. /\ tpurpose'[c] = tpurpose[c] /\ tproject'[c] = tproject[c] /\ tmissing'[c] = tmissing[c]
        /\ tpc[c] = "publish" /\ tpc'[c] = "read" /\ tree' = tree
    BY <1>1, <1>14 DEF PublishMetadata, CommandsTyped
  <2> QED
    BY <1>1, <1>3, <2>1 DEF KeepsCommand, CommandOK, Purposeful, Hardening, Finding, Populating, Prepared
<1>15. CASE ReadMetadata(c)
  <2>1. /\ tpurpose'[c] = tpurpose[c] /\ tproject'[c] = tproject[c] /\ tmissing'[c] = tmissing[c]
        /\ tpc[c] = "read" /\ tree' = tree /\ metadata' = metadata /\ metadata = tproject[c]
    BY <1>1, <1>15 DEF ReadMetadata, Accepted
  <2>2. \/ tpc'[c] = "done" /\ tpurpose[c] = "validate"
        \/ tpc'[c] = "children" /\ tqueue'[c] = Children
    BY <1>1, <1>15 DEF ReadMetadata, CommandsTyped, QueuesTyped
  <2>3. Owned(c)'
    BY <1>1, <2>1 DEF Purposeful, Finding, Owned
  <2> QED
    BY <1>1, <1>3, <2>1, <2>2, <2>3 DEF KeepsCommand, CommandOK, Purposeful, Hardening, Finding, Populating, Prepared
<1>16. CASE InspectChild(c)
  <2>1. /\ tpurpose'[c] = tpurpose[c] /\ tproject'[c] = tproject[c]
        /\ tpc[c] = "children" /\ tree' = tree /\ metadata' = metadata
        /\ Owned(c) /\ ToSet(tqueue[c]) \subseteq ToSet(Children)
    BY <1>1, <1>16 DEF InspectChild, Populating
  <2>2. Owned(c)'
    BY <2>1 DEF Owned
  <2>3. CASE tqueue[c] = <<>>
    <3>1. tpc'[c] = "ensure" /\ tqueue'[c] = tmissing[c] /\ tmissing'[c] = tmissing[c]
      BY <1>1, <1>16, <2>3 DEF InspectChild, CommandsTyped, QueuesTyped
    <3>2. ToSet(tmissing[c]) \subseteq ToSet(Children)
      <4>1. tmissing[c] \in Seq(ToSet(Children))
        BY <1>1 DEF QueuesTyped
      <4>2. \A i \in DOMAIN tmissing[c] : tmissing[c][i] \in ToSet(Children)
        BY <4>1
      <4> QED
        BY <4>2 DEF ToSet
    <3> QED
      BY <1>1, <1>3, <2>1, <2>2, <3>1, <3>2
         DEF KeepsCommand, CommandOK, Purposeful, Hardening, Finding, Populating, Prepared
  <2>4. CASE tqueue[c] # <<>>
    <3>1. /\ tpc'[c] = "children" /\ tqueue'[c] = Tail(tqueue[c])
          /\ tpurpose[c] # "resolve" => tmissing'[c] = tmissing[c]
      BY <1>1, <1>16, <2>4 DEF InspectChild, CommandsTyped, QueuesTyped
    <3> QED
      BY <1>1, <1>3, <1>5, <2>1, <2>2, <2>4, <3>1
         DEF KeepsCommand, CommandOK, Purposeful, Hardening, Finding, Populating, Prepared
  <2> QED
    BY <2>3, <2>4
<1>17. CASE EnsureChild(c)
  <2>1. /\ tpurpose'[c] = tpurpose[c] /\ tproject'[c] = tproject[c] /\ tmissing'[c] = tmissing[c]
        /\ tpc[c] = "ensure" /\ tree' = tree /\ metadata' = metadata
        /\ Owned(c) /\ ToSet(tqueue[c]) \subseteq ToSet(Children)
    BY <1>1, <1>17 DEF EnsureChild, Populating
  <2>2. Owned(c)' /\ Owned(c)
    BY <2>1 DEF Owned
  <2>3. \/ tpc'[c] = "done"
        \/ tpc'[c] = "ensure" /\ tqueue'[c] = Tail(tqueue[c]) /\ tqueue[c] # <<>>
        \/ tpc'[c] = "mkdir" /\ tqueue'[c] = tqueue[c] /\ tqueue[c] # <<>>
    BY <1>1, <1>17 DEF EnsureChild, CommandsTyped, QueuesTyped
  <2>4. tqueue[c] # <<>> => tpurpose[c] = "resolve" /\ InNamespace(tqueue[c]) /\ Visited(c) # "root"
    BY <1>1, <1>5, <2>1, Apart DEF Populating, InNamespace
  <2>5. tqueue'[c] = tqueue[c] => Visited(c)' = Visited(c)
    BY DEF Visited
  <2>6. Finding(c)'
    BY <2>2, <2>3, <2>4, <2>1, <2>5 DEF Finding, InNamespace
  <2> QED
    BY <1>1, <1>3, <1>5, <2>1, <2>2, <2>3, <2>4, <2>6
       DEF KeepsCommand, CommandOK, Purposeful, Hardening, Populating, Prepared
<1>18. CASE CommandOver(c)
  <2>1. tpc'[c] = "idle" /\ tpurpose'[c] = "none" /\ tmissing'[c] = <<>>
    BY <1>1, <1>18 DEF CommandOver, CommandsTyped, QueuesTyped
  <2> QED
    BY <2>1 DEF KeepsCommand, CommandOK, Purposeful, Hardening, Finding, Populating
<1> QED
  BY <1>6, <1>7, <1>8, <1>9, <1>10, <1>11, <1>12, <1>13, <1>14, <1>15, <1>16, <1>17, <1>18 DEF TreeStep

LEMMA TreeTypedStep ==
  ASSUME TreeInv, NEW c \in TreeCommands, TreeStep(c)
  PROVE  TreeTyped'
<1>1. TreeTyped /\ CommandsTyped
  BY DEF TreeInv, TreeTypeOK
<1>2. tree' \in [Directories -> Entries]
  BY <1>1, StepShape DEF TreeTouched, TreeTyped, Entries
<1>3. tpc[c] \in {"publish", "mkdir"} => tproject[c] \in Projects
  BY DEF TreeInv, CommandOK, Purposeful
<1> QED
  BY <1>1, <1>2, <1>3, StepShape DEF TreeTyped

LEMMA CommandsTypedStep ==
  ASSUME TreeInv, NEW c \in TreeCommands, TreeStep(c)
  PROVE  CommandsTyped'
<1> USE DEF CommandsTyped, TreePlaces, TreeAt, TreeGoes, localVars
<1>1. CommandsTyped
  BY DEF TreeInv, TreeTypeOK
<1>2. CASE StartCommand(c)
  BY <1>1, <1>2 DEF StartCommand
<1>3. CASE InspectEntry(c) \/ SecureEntry(c) \/ MakeEntry(c)
  BY <1>1, <1>3 DEF InspectEntry, AfterInspection, SecureEntry, AfterSecuring, MakeEntry
<1>4. CASE FindDirectory(c) \/ EnsureDirectory(c) \/ PinMode(c) \/ Reopen(c)
  BY <1>1, <1>4 DEF FindDirectory, AfterFinding, EnsureDirectory, PinMode, Reopen
<1>5. CASE PublishMetadata(c) \/ ReadMetadata(c) \/ InspectChild(c) \/ EnsureChild(c) \/ CommandOver(c)
  BY <1>1, <1>5 DEF PublishMetadata, ReadMetadata, InspectChild, EnsureChild, CommandOver
<1> QED
  BY <1>2, <1>3, <1>4, <1>5 DEF TreeStep

LEMMA QueuesTypedStep ==
  ASSUME TreeInv, NEW c \in TreeCommands, TreeStep(c)
  PROVE  QueuesTyped'
<1> USE DEF QueuesTyped, Visits, localVars
<1>1. QueuesTyped /\ CommandOK(c)
  BY DEF TreeInv, TreeTypeOK
<1>2. \A purpose : Prepared(purpose) \in Seq(Directories)
  BY PreparedQueue
<1>3. tqueue[c] # <<>> => Tail(tqueue[c]) \in Seq(Directories)
  BY VisitedKnown
<1>4. CASE StartCommand(c)
  <2>1. Visits(c, Stem) \/ \E purpose \in Purposes : Visits(c, Prepared(purpose))
    BY <1>4 DEF StartCommand
  <2>2. tqueue' \in [TreeCommands -> Seq(Directories)]
    BY <1>1, <1>2, <2>1, StemQueue
  <2> QED
    BY <1>1, <1>4, <2>2 DEF StartCommand
<1>5. CASE InspectEntry(c) \/ SecureEntry(c) \/ MakeEntry(c)
  <2>1. tqueue[c] # <<>>
    BY <1>1, <1>5 DEF CommandOK, Hardening, InspectEntry, SecureEntry, MakeEntry, TreeAt
  <2>2. \/ tqueue' = tqueue \/ Visits(c, Tail(tqueue[c])) \/ Visits(c, Stem)
        \/ Visits(c, Prepared(tpurpose[c]))
    BY <1>5 DEF InspectEntry, AfterInspection, SecureEntry, AfterSecuring, MakeEntry
  <2>3. tqueue' \in [TreeCommands -> Seq(Directories)]
    BY <1>1, <1>2, <1>3, <2>1, <2>2, StemQueue
  <2> QED
    BY <1>1, <1>5, <2>3 DEF InspectEntry, SecureEntry, MakeEntry
<1>6. CASE FindDirectory(c) \/ Reopen(c)
  <2>1. tqueue[c] # <<>>
    BY <1>1, <1>6 DEF CommandOK, Finding, OnStem, InNamespace, FindDirectory, Reopen, TreeAt
  <2> QED
    BY <1>1, <1>3, <1>6, <2>1 DEF FindDirectory, AfterFinding, Reopen
<1>7. CASE EnsureDirectory(c) \/ PinMode(c) \/ PublishMetadata(c)
  BY <1>1, <1>7 DEF EnsureDirectory, PinMode, PublishMetadata
<1>8. CASE ReadMetadata(c) \/ EnsureChild(c)
  BY <1>1, <1>3, <1>8, Apart DEF ReadMetadata, EnsureChild
<1>9. CASE InspectChild(c)
  <2>1. CASE tqueue[c] = <<>>
    <3>1. tmissing[c] \in Seq(Directories)
      BY <1>1, Apart
    <3> QED
      BY <1>1, <1>9, <2>1, <3>1 DEF InspectChild
  <2>2. CASE tqueue[c] # <<>>
    <3>1. Visited(c) \in ToSet(Children)
      BY <1>1, <1>9, <2>2, VisitedKnown DEF InspectChild, TreeAt, CommandOK, Populating
    <3>2. Append(tmissing[c], Visited(c)) \in Seq(ToSet(Children))
      BY <1>1, <3>1
    <3> QED
      BY <1>1, <1>3, <1>9, <2>2, <3>2 DEF InspectChild
  <2> QED
    BY <2>1, <2>2
<1>10. CASE CommandOver(c)
  BY <1>1, <1>10 DEF CommandOver
<1> QED
  BY <1>4, <1>5, <1>6, <1>7, <1>8, <1>9, <1>10 DEF TreeStep

\* A child has the project that the metadata records as its maker.
LEMMA MakersStep ==
  ASSUME TreeInv, NEW c \in TreeCommands, TreeStep(c)
  PROVE  MakersRecorded'
<1>1. MakersRecorded /\ CommandOK(c) /\ TreeTyped
  BY DEF TreeInv, TreeTypeOK
<1>2. CASE maker' = maker
  BY <1>1, <1>2, StepMonotone DEF MakersRecorded, Monotone
<1>3. CASE maker' # maker
  <2>1. /\ tpc[c] = "mkdir" /\ metadata' = metadata
        /\ maker' = [d \in DOMAIN maker |-> IF d = Visited(c) THEN tproject[c] ELSE maker[d]]
    BY <1>3, StepShape
  <2>2. Visited(c) \in ToSet(Children) => tproject[c] = metadata
    <3>1. tqueue[c] # <<>> /\ (OnStem(tqueue[c]) \/ Owned(c))
      BY <1>1, <2>1 DEF CommandOK, Finding, OnStem, InNamespace
    <3>2. OnStem(tqueue[c]) => Visited(c) \notin ToSet(Children)
      BY <3>1, VisitedKnown, StemQueue, Apart DEF OnStem
    <3> QED
      BY <3>1, <3>2 DEF Owned
  <2> QED
    BY <1>1, <2>1, <2>2 DEF MakersRecorded, TreeTyped
<1> QED
  BY <1>2, <1>3

LEMMA UnsafeStep ==
  ASSUME TreeInv, NEW c \in TreeCommands, TreeStep(c)
  PROVE  UnsafeStays'
BY StepMonotone DEF TreeInv, UnsafeStays, Monotone

\* A command touches a prepared directory only when none was unsafe, and any
\* other one only when the root was not.
LEMMA RejectedStep ==
  ASSUME TreeInv, NEW c \in TreeCommands, TreeStep(c)
  PROVE  RejectedUntouched'
<1>1. RejectedUntouched /\ CommandOK(c) /\ TreeTyped /\ firstTree' = firstTree
  BY StepShape DEF TreeInv, TreeTypeOK
<1>2. CASE tree' = tree
  BY <1>1, <1>2 DEF RejectedUntouched
<1>3. CASE tree' # tree
  <2>1. /\ Writing(c) /\ tqueue[c] # <<>>
        /\ \E e \in {"new", "private"} : tree' = [tree EXCEPT ![Visited(c)] = e]
    BY <1>3, StepShape DEF TreeTouched
  <2>2. Visited(c) \in ToSet(tqueue[c]) /\ Visited(c) \in Directories
    BY <2>1, VisitedKnown
  <2>3. /\ tpurpose[c] \in {"prepare", "resolve"}
        /\ \A d \in ToSet(Prepared(tpurpose[c])) : firstTree[d] # "unsafe"
    BY <1>1, <2>1 DEF CommandOK, Hardening, Finding, Writing
  <2>4. firstTree["root"] # "unsafe"
    BY <2>3, PreparedQueue
  <2>5. CASE tpurpose[c] = "prepare"
    <3>1. \A d \in ToSet(Descendants) \cup {"root"} : firstTree[d] # "unsafe"
      BY <2>3, <2>4, <2>5, PreparedQueue
    <3> QED
      BY <1>1, <3>1 DEF RejectedUntouched
  <2>6. CASE tpurpose[c] = "resolve"
    <3>1. ToSet(tqueue[c]) \cap ToSet(Descendants) = {}
      <4>1. ToSet(Prepared(tpurpose[c])) = {"root"}
        BY <2>6, PreparedQueue
      <4>2. \/ ToSet(tqueue[c]) \subseteq {"root"} \/ ToSet(tqueue[c]) \subseteq ToSet(Stem)
            \/ ToSet(tqueue[c]) \subseteq ToSet(Children)
        BY <1>1, <2>1, <4>1 DEF CommandOK, Hardening, Finding, Writing, OnStem, InNamespace
      <4> QED
        BY <4>2, Apart, StemQueue
    <3>2. \A d \in ToSet(Descendants) : tree'[d] = tree[d]
      <4>1. ToSet(Descendants) \subseteq Directories
        BY DEF Directories
      <4> QED
        BY <1>1, <2>1, <2>2, <3>1, <4>1 DEF TreeTyped
    <3> QED
      BY <1>1, <2>4, <3>2 DEF RejectedUntouched
  <2> QED
    BY <2>3, <2>5, <2>6
<1> QED
  BY <1>2, <1>3

LEMMA TreeStepInv == TreeInv /\ [TreeNext]_treeVars => TreeInv'
<1> SUFFICES ASSUME TreeInv, [TreeNext]_treeVars PROVE TreeInv'
  OBVIOUS
<1>1. ASSUME NEW c \in TreeCommands, TreeStep(c) PROVE TreeInv'
  <2>1. TreeTypeOK'
    BY <1>1, TreeTypedStep, CommandsTypedStep, QueuesTypedStep DEF TreeTypeOK
  <2>2. \A d \in TreeCommands : KeepsCommand(d)
    BY <1>1, OwnCommand, OtherCommands
  <2> QED
    BY <1>1, <2>1, <2>2, MakersStep, UnsafeStep, RejectedStep DEF TreeInv, KeepsCommand
<1>2. CASE UNCHANGED treeVars
  <2>1. TreeTypeOK' /\ MakersRecorded' /\ UnsafeStays' /\ RejectedUntouched'
    BY <1>2 DEF treeVars, TreeInv, TreeTypeOK, TreeTyped, CommandsTyped, QueuesTyped,
       MakersRecorded, UnsafeStays, RejectedUntouched
  <2>2. \A c \in TreeCommands : KeepsCommand(c)
    BY <1>2 DEF treeVars, TreeInv, KeepsCommand, CommandOK, Purposeful, Hardening, Finding,
       Populating, Found, Visited, Owned, OnStem, InNamespace, Prepared
  <2> QED
    BY <2>1, <2>2 DEF TreeInv, KeepsCommand
<1> QED
  BY <1>1, <1>2 DEF TreeNext

LEMMA TreeInvariant == TreeSpec => []TreeInv
<1>1. TreeInit => TreeInv
  BY TreeInitially
<1>2. TreeInv /\ [TreeNext]_treeVars => TreeInv'
  BY TreeStepInv
<1> QED
  BY <1>1, <1>2, PTL DEF TreeSpec

\* The entries, the commands and the directories they still have to visit stay
\* within their domains.
THEOREM TreeTypeCorrect == TreeSpec => []TreeTypeOK
<1>1. TreeInv => TreeTypeOK
  BY DEF TreeInv
<1> QED
  BY <1>1, TreeInvariant, PTL

\* For any commands, projects and directories, however the commands interleave
\* and wherever they fail: a tree that has an unsafe entry is rejected before
\* anything in it is changed, and a namespace is used, and gets children, only
\* by the project that its metadata records (_harden_tree,
\* resolve_project_state, validate_project_state).
THEOREM DirectoriesSound == TreeSpec => []TreeSound
<1>1. TreeInv => TreeSound
  <2> SUFFICES ASSUME TreeInv PROVE TreeSound
    OBVIOUS
  <2>1. NamespaceOwned
    BY DEF TreeInv, TreeTypeOK, TreeTyped, CommandOK, Populating, Owned, MakersRecorded, UnsafeStays,
       NamespaceOwned
  <2> QED
    BY <2>1 DEF TreeInv, TreeSound
<1> QED
  BY <1>1, TreeInvariant, PTL


-----------------------------------------------------------------------------
(* The lock of a name.                                                     *)

\* The places where a locker has an inode open.
Opened == {"lock", "validate", "probe", "repair", "held", "unlock", "close"}

\* The inodes, the flocks, and the lockers; what is opened exists.
EntryOK ==
  /\ lockEntry \in 0..MaxInode /\ (lockEntry # 0 => lockEntry \in Made)
  /\ Made \subseteq Inodes /\ \A i \in Made : lockFiles[i] \in LockFile
FlocksOK == flocked \in [Inodes -> Lockers \cup {Nobody}]
LockersOK ==
  /\ lpc \in [Lockers -> LockPlaces] /\ lfd \in [Lockers -> 0..MaxInode]
  /\ lockCreated \in [Lockers -> BOOLEAN]
  /\ \A p \in Lockers : lpc[p] \in Opened => lfd[p] \in Made

LockTypeInv == EntryOK /\ FlocksOK /\ LockersOK

\* A step that changes neither the entry nor the inodes.
LEMMA EntryKept ==
  ASSUME EntryOK, UNCHANGED <<lockEntry, lockFiles>> PROVE EntryOK' /\ Made' = Made
BY DEF EntryOK, Made

\* Every step leaves a name that stands for an inode or for none.
LEMMA EntryStep == LockTypeInv /\ [LockNext]_lockVars => EntryOK' /\ Made \subseteq Made'
<1> SUFFICES ASSUME LockTypeInv, [LockNext]_lockVars PROVE EntryOK' /\ Made \subseteq Made'
  OBVIOUS
<1> USE DEF LockTypeInv
<1>1. ASSUME NEW p \in Lockers, CreateLock(p) PROVE EntryOK' /\ Made \subseteq Made'
  <2>1. ASSUME lockEntry = 0 PROVE EntryOK' /\ Made \subseteq Made'
    <3>1. PICK a \in Access :
            lockFiles' = [i \in Made \cup {FreshInode} |->
                            IF i \in Made THEN lockFiles[i]
                            ELSE [kind |-> "regular", access |-> a, links |-> 1]]
      BY <1>1, <2>1 DEF CreateLock
    <3>2. FreshInode \in Inodes /\ lockEntry' = FreshInode
      BY <1>1, <2>1 DEF CreateLock
    <3>3. Made' = Made \cup {FreshInode}
      BY <3>1 DEF Made
    <3>4. \A i \in Made' : lockFiles'[i] \in LockFile
      BY <3>1, <3>3 DEF LockFile, Access, EntryOK
    <3>5. FreshInode \in 0..MaxInode
      BY <3>2, LockAssumption DEF Inodes
    <3> QED
      BY <3>2, <3>3, <3>4, <3>5 DEF EntryOK
  <2>2. ASSUME lockEntry # 0 PROVE EntryOK' /\ Made \subseteq Made'
    BY <1>1, <2>2, EntryKept DEF CreateLock
  <2> QED
    BY <2>1, <2>2
<1>2. ASSUME NEW p \in Lockers, Repair(p) PROVE EntryOK' /\ Made \subseteq Made'
  <2>1. lockFiles' = [lockFiles EXCEPT ![lfd[p]].access = "exact"] /\ lfd[p] \in Made
    BY <1>2 DEF Repair, LockersOK, Opened
  <2>2. Made' = Made /\ \A i \in Made : lockFiles'[i] \in LockFile
    BY <2>1 DEF LockFile, Access, Made, EntryOK
  <2> QED
    BY <1>2, <2>2 DEF Repair, EntryOK
<1>3. ASSUME NEW p \in Lockers, Retire(p) PROVE EntryOK' /\ Made \subseteq Made'
  BY <1>3, LockAssumption DEF Retire, EntryOK, Made
<1>4. ASSUME EntryChanges PROVE EntryOK' /\ Made \subseteq Made'
  <2>1. PICK a \in Access, n \in {1, 2} :
          lockFiles' = [lockFiles EXCEPT ![lockEntry].access = a, ![lockEntry].links = n]
    BY <1>4 DEF EntryChanges
  <2>2. Made' = Made /\ \A i \in Made : lockFiles'[i] \in LockFile
    BY <2>1 DEF LockFile, Made, EntryOK
  <2> QED
    BY <1>4, <2>2 DEF EntryChanges, EntryOK
<1>5. ASSUME NEW p \in Lockers,
             \/ DeniedCreation(p) \/ OpenLock(p) \/ Flock(p) \/ InterruptLock(p)
             \/ ValidateLock(p) \/ Probe(p) \/ StartRelease(p) \/ Unlock(p)
             \/ CloseLock(p) \/ TryAgain(p) \/ LockerDies(p)
      PROVE  UNCHANGED <<lockEntry, lockFiles>>
  BY <1>5 DEF DeniedCreation, OpenLock, Flock, InterruptLock, ValidateLock, Probe,
     StartRelease, Unlock, CloseLock, TryAgain, LockerDies
<1>6. ASSUME UNCHANGED lockVars PROVE UNCHANGED <<lockEntry, lockFiles>>
  BY <1>6 DEF lockVars
<1> QED
  BY <1>1, <1>2, <1>3, <1>4, <1>5, <1>6, EntryKept DEF LockNext, LockerStep

\* Every step leaves each inode with one holder at most.
LEMMA FlocksStep == LockTypeInv /\ [LockNext]_lockVars => FlocksOK'
<1> SUFFICES ASSUME LockTypeInv, [LockNext]_lockVars PROVE FlocksOK'
  OBVIOUS
<1> USE DEF FlocksOK, LockTypeInv
<1>1. ASSUME NEW p \in Lockers, Flock(p) \/ Unlock(p) \/ CloseLock(p) \/ LockerDies(p)
      PROVE  FlocksOK'
  BY <1>1 DEF Flock, Unlock, CloseLock, LockerDies
<1>2. ASSUME NEW p \in Lockers,
             \/ CreateLock(p) \/ DeniedCreation(p) \/ OpenLock(p) \/ InterruptLock(p)
             \/ ValidateLock(p) \/ Probe(p) \/ Repair(p) \/ StartRelease(p) \/ Retire(p)
             \/ TryAgain(p)
      PROVE  flocked' = flocked
  BY <1>2 DEF CreateLock, DeniedCreation, OpenLock, InterruptLock, ValidateLock, Probe,
     Repair, StartRelease, Retire, TryAgain
<1>3. ASSUME EntryChanges \/ UNCHANGED lockVars PROVE flocked' = flocked
  BY <1>3 DEF EntryChanges, lockVars
<1> QED
  BY <1>1, <1>2, <1>3 DEF LockNext, LockerStep

\* Every step leaves the lockers at a place of theirs, with what they opened.
LEMMA LockersStep == LockTypeInv /\ [LockNext]_lockVars => LockersOK'
<1> SUFFICES ASSUME LockTypeInv, [LockNext]_lockVars PROVE LockersOK'
  OBVIOUS
<1> USE DEF LockTypeInv
<1>1. EntryOK' /\ Made \subseteq Made'
  BY EntryStep
<1>2. ASSUME NEW p \in Lockers, NEW place \in LockPlaces, LockGoes(p, place),
             place \in Opened => lfd[p] \in Made, UNCHANGED <<lfd, lockCreated>>
      PROVE  LockersOK'
  BY <1>1, <1>2 DEF LockersOK, LockGoes
<1>3. ASSUME NEW p \in Lockers, NEW place \in LockPlaces, LockGoes(p, place),
             NEW i \in 0..MaxInode, lfd' = [lfd EXCEPT ![p] = i],
             place \in Opened => i \in Made',
             NEW b \in BOOLEAN, lockCreated' \in {lockCreated, [lockCreated EXCEPT ![p] = b]}
      PROVE  LockersOK'
  BY <1>1, <1>3 DEF LockersOK, LockGoes
<1>4. ASSUME NEW p \in Lockers, lpc[p] \in Opened PROVE lfd[p] \in Made
  BY <1>4 DEF LockersOK
<1> USE DEF LockPlaces, Opened
<1>5. ASSUME NEW p \in Lockers, CreateLock(p) PROVE LockersOK'
  <2>1. ASSUME lockEntry = 0 PROVE LockersOK'
    <3>1. /\ lockEntry' = FreshInode /\ FreshInode \in Made'
          /\ LockGoes(p, "lock") /\ lfd' = [lfd EXCEPT ![p] = FreshInode]
          /\ lockCreated' = [lockCreated EXCEPT ![p] = TRUE]
      BY <1>5, <2>1 DEF CreateLock, Made
    <3>2. FreshInode \in 0..MaxInode
      BY <1>1, <3>1 DEF EntryOK
    <3> QED
      BY <1>3, <3>1, <3>2
  <2>2. ASSUME lockEntry # 0 PROVE LockersOK'
    BY <1>2, <1>5, <2>2 DEF CreateLock
  <2> QED
    BY <2>1, <2>2
<1>6. ASSUME NEW p \in Lockers, DeniedCreation(p) PROVE LockersOK'
  BY <1>2, <1>6 DEF DeniedCreation
<1>7. ASSUME NEW p \in Lockers, OpenLock(p) PROVE LockersOK'
  <2>1. ASSUME LockGoes(p, "lock"), lfd' = [lfd EXCEPT ![p] = lockEntry], lockEntry # 0
        PROVE  LockersOK'
    <3>1. lockEntry \in 0..MaxInode /\ lockEntry \in Made'
      BY <1>1, <2>1 DEF EntryOK
    <3>2. lockCreated' = lockCreated
      BY <1>7 DEF OpenLock
    <3> QED
      BY <1>3, <2>1, <3>1, <3>2
  <2>2. ASSUME NEW place \in {"refused", "open read", "open write"}, LockGoes(p, place),
               lfd' = lfd
        PROVE  LockersOK'
    BY <1>2, <1>7, <2>2 DEF OpenLock
  <2>3. NextAttempt(lpc[p]) \in {"refused", "open read", "open write"}
    BY <1>7 DEF OpenLock, NextAttempt
  <2> QED
    BY <1>7, <2>1, <2>2, <2>3 DEF OpenLock
<1>8. ASSUME NEW p \in Lockers, Flock(p) PROVE LockersOK'
  BY <1>2, <1>4, <1>8 DEF Flock
<1>9. ASSUME NEW p \in Lockers,
             InterruptLock(p) \/ ValidateLock(p) \/ Probe(p) \/ Repair(p)
      PROVE  LockersOK'
  BY <1>2, <1>4, <1>9 DEF InterruptLock, ValidateLock, Probe, Repair
<1>10. ASSUME NEW p \in Lockers, StartRelease(p) \/ Retire(p) \/ Unlock(p) \/ TryAgain(p)
      PROVE  LockersOK'
  BY <1>2, <1>4, <1>10 DEF StartRelease, Retire, Unlock, TryAgain
<1>11. ASSUME NEW p \in Lockers, CloseLock(p) \/ LockerDies(p) PROVE LockersOK'
  <2>1. 0 \in 0..MaxInode
    BY LockAssumption
  <2> QED
    BY <1>3, <1>11, <2>1 DEF CloseLock, LockerDies
<1>12. ASSUME EntryChanges \/ UNCHANGED lockVars PROVE LockersOK'
  BY <1>1, <1>12 DEF EntryChanges, lockVars, LockersOK
<1> QED
  BY <1>5, <1>6, <1>7, <1>8, <1>9, <1>10, <1>11, <1>12 DEF LockNext, LockerStep

\* LockTypeInv holds in every state.
LEMMA LockTypeHolds == LockSpec => []LockTypeInv
<1>1. LockInit => LockTypeInv
  BY LockAssumption DEF LockInit, LockTypeInv, EntryOK, FlocksOK, LockersOK, Inodes,
     LockPlaces, Opened, Made
<1>2. LockTypeInv /\ [LockNext]_lockVars => LockTypeInv'
  BY EntryStep, FlocksStep, LockersStep DEF LockTypeInv
<1> QED
  BY <1>1, <1>2, PTL DEF LockSpec

\* Inodes, places and descriptors of the lockers keep their types, however many
\* there are and whoever dies.
THEOREM LockTypeCorrect == LockSpec => []LockTypeOK
<1>1. LockTypeInv => LockTypeOK
  BY DEF LockTypeInv, EntryOK, FlocksOK, LockersOK, LockTypeOK
<1> QED
  BY <1>1, LockTypeHolds, PTL

\* Whoever is past flock holds the flock of the inode it has open, and whoever
\* is past the second look has open what the name stands for: only a holder
\* takes an entry away, and it is then on its way out.
HoldersInv ==
  \A p \in Lockers :
    /\ lpc[p] \in {"validate", "probe", "repair", "held"} => flocked[lfd[p]] = p
    /\ lpc[p] \in {"repair", "held"} => lockEntry = lfd[p]

\* Two lockers past the second look are one.
LEMMA HoldersAlone ==
  ASSUME HoldersInv, NEW p \in Lockers, NEW q \in Lockers,
         lpc[p] \in {"repair", "held"}, lpc[q] \in {"repair", "held"}
  PROVE  p = q
BY DEF HoldersInv

\* Every step keeps HoldersInv.
LEMMA HoldersStep == LockTypeInv /\ HoldersInv /\ [LockNext]_lockVars => HoldersInv'
<1> SUFFICES ASSUME LockTypeInv, HoldersInv, [LockNext]_lockVars,
                    NEW q \in Lockers
             PROVE  /\ lpc'[q] \in {"validate", "probe", "repair", "held"}
                         => flocked'[lfd'[q]] = q
                    /\ lpc'[q] \in {"repair", "held"} => lockEntry' = lfd'[q]
  BY DEF HoldersInv
<1> DEFINE G == /\ lpc'[q] \in {"validate", "probe", "repair", "held"}
                     => flocked'[lfd'[q]] = q
                /\ lpc'[q] \in {"repair", "held"} => lockEntry' = lfd'[q]
<1>1. /\ lpc \in [Lockers -> LockPlaces] /\ lfd \in [Lockers -> 0..MaxInode]
      /\ flocked \in [Inodes -> Lockers \cup {Nobody}] /\ Nobody \notin Lockers
  BY LockAssumption DEF LockTypeInv, LockersOK, FlocksOK
<1>2. lpc[q] \in Opened => lfd[q] \in Inodes /\ lfd[q] # 0
  BY LockAssumption DEF LockTypeInv, LockersOK, EntryOK, Inodes
<1>3. /\ lpc[q] \in {"validate", "probe", "repair", "held"} => flocked[lfd[q]] = q
      /\ lpc[q] \in {"repair", "held"} => lockEntry = lfd[q]
  BY DEF HoldersInv
<1> USE DEF LockGoes, Opened
<1>4. ASSUME NEW p \in Lockers, CreateLock(p) PROVE G
  BY <1>1, <1>2, <1>3, <1>4 DEF CreateLock
<1>5. ASSUME NEW p \in Lockers, DeniedCreation(p) \/ StartRelease(p) \/ TryAgain(p) PROVE G
  BY <1>1, <1>3, <1>5 DEF DeniedCreation, StartRelease, TryAgain
<1>6. ASSUME NEW p \in Lockers, OpenLock(p) PROVE G
  <2>1. NextAttempt(lpc[p]) \in {"refused", "open read", "open write"}
    BY <1>6 DEF OpenLock, NextAttempt
  <2> QED
    BY <1>1, <1>3, <1>6, <2>1 DEF OpenLock
<1>7. ASSUME NEW p \in Lockers, Flock(p) PROVE G
  <2>1. lfd[p] \in Inodes
    BY <1>7, LockAssumption DEF Flock, LockTypeInv, LockersOK, EntryOK
  <2> QED
    BY <1>1, <1>2, <1>3, <1>7, <2>1 DEF Flock
<1>8. ASSUME NEW p \in Lockers, InterruptLock(p) \/ ValidateLock(p) \/ Probe(p) \/ Repair(p)
      PROVE  G
  BY <1>1, <1>3, <1>8 DEF InterruptLock, ValidateLock, Probe, Repair
<1>9. ASSUME NEW p \in Lockers, Retire(p) PROVE G
  <2>1. q # p => lpc[q] \notin {"repair", "held"}
    BY <1>9, HoldersAlone DEF Retire
  <2> QED
    BY <1>1, <1>3, <1>9, <2>1 DEF Retire
<1>10. ASSUME NEW p \in Lockers, Unlock(p) \/ CloseLock(p) PROVE G
  <2>1. lpc'[p] \in {"close", "idle"} /\ lockEntry' = lockEntry
    BY <1>1, <1>10 DEF Unlock, CloseLock
  <2>2. ASSUME q # p
        PROVE  /\ lpc'[q] = lpc[q] /\ lfd'[q] = lfd[q]
               /\ \A i \in Inodes : flocked[i] = q => flocked'[i] = q
    BY <1>1, <1>10, <2>2 DEF Unlock, CloseLock
  <2> QED
    BY <1>2, <1>3, <2>1, <2>2
<1>11. ASSUME NEW p \in Lockers, LockerDies(p) PROVE G
  BY <1>1, <1>2, <1>3, <1>11 DEF LockerDies
<1>12. ASSUME EntryChanges \/ UNCHANGED lockVars PROVE G
  BY <1>3, <1>12 DEF EntryChanges, lockVars
<1> QED
  BY <1>4, <1>5, <1>6, <1>7, <1>8, <1>9, <1>10, <1>11, <1>12 DEF LockNext, LockerStep

\* Two capabilities for one name never coexist, however many processes ask for
\* it and however often the name changes hands between an open and a lock.
THEOREM HoldersAreAlone == LockSpec => []HoldersExclude
<1>1. LockInit => HoldersInv
  BY DEF LockInit, HoldersInv
<1>2. HoldersInv => HoldersExclude
  BY HoldersAlone DEF HoldersExclude
<1> QED
  BY <1>1, <1>2, LockTypeHolds, HoldersStep, PTL DEF LockSpec

-----------------------------------------------------------------------------
(* The places of a contract.                                               *)

\* Where a process can be in its contract.
OnRoute(op, place) ==
  \/ op = "none" /\ place = "idle"
  \/ op # "none" /\ place = "discard"
  \/ op = "atomic" /\ place \in {"allocate", "write", "close", "link", "drop", "return"}
  \/ /\ op = "no_clobber"
     /\ place \in {"allocate", "write", "flush", "close", "link", "drop", "sync", "return"}
  \/ /\ op = "replace"
     /\ place \in {"allocate", "write", "flush", "close", "check", "rename", "sync", "return"}
  \/ op = "read" /\ place \in {"open", "stat", "read", "close", "return"}
  \/ /\ op = "unlink"
     /\ place \in {"open", "stat", "remove", "sync", "sync absent", "close", "return"}

RegPlaces == {"idle", "discard", "allocate", "write", "flush", "close", "link", "check",
              "rename", "drop", "sync", "sync absent", "open", "stat", "read", "remove",
              "return"}
Operations == {"atomic", "no_clobber", "replace", "read", "unlink"}
Creating   == {"atomic", "no_clobber", "replace"}
Durable    == {"no_clobber", "replace", "unlink"}

AnyFile == [contents : Contents, safe : BOOLEAN, links : Int, atomic : BOOLEAN]

\* Each process is on the route of its contract.
RegProcsOK ==
  /\ rop \in [Writers -> Operations \cup {"none"}] /\ rpc \in [Writers -> RegPlaces]
  /\ rfd \in [Writers -> Nat] /\ rtemp \in [Writers -> Nat] /\ rindex \in [Writers -> Nat]
  /\ \A p \in Writers : OnRoute(rop[p], rpc[p])

RegFilesOK == /\ regFiles \in Seq(AnyFile) /\ history \in Seq(Nat) /\ history # <<>>
              /\ onDisk \in Nat /\ promised \in Nat

RegTypeOK == RegProcsOK /\ RegFilesOK

\* The step after the present one of a process.
Onward(p, place) ==
  /\ rpc' = [rpc EXCEPT ![p] = place]
  /\ rpc[p] = "allocate" => place = "write"
  /\ rpc[p] = "write" => place = IF rop[p] = "atomic" THEN "close" ELSE "flush"
  /\ rpc[p] = "flush" => place = "close"
  /\ rpc[p] = "close" => place = CASE rop[p] \in {"atomic", "no_clobber"} -> "link"
                                   [] rop[p] = "replace" -> "check"
                                   [] rop[p] \in {"read", "unlink"} -> "return"
  /\ rpc[p] = "link" => place = "drop"
  /\ rpc[p] = "drop" => place = IF rop[p] = "atomic" THEN "return" ELSE "sync"
  /\ rpc[p] = "check" => place = "rename"
  /\ rpc[p] = "rename" => place = "sync"
  /\ rpc[p] = "sync" => place = IF rop[p] = "unlink" THEN "close" ELSE "return"
  /\ rpc[p] = "open" => place = "stat"
  /\ rpc[p] = "stat" => place = IF rop[p] = "read" THEN "read" ELSE "remove"
  /\ rpc[p] = "read" => place = "close"
  /\ rpc[p] = "remove" => place = "sync"
  /\ OnRoute(rop[p], place)

\* The steps of each contract, spelled out.
LEMMA AtomicSteps ==
  /\ PathOf["atomic"]["allocate"] = "write" /\ PathOf["atomic"]["write"] = "close"
  /\ PathOf["atomic"]["close"] = "link" /\ PathOf["atomic"]["link"] = "drop"
  /\ PathOf["atomic"]["drop"] = "return"
BY DEF PathOf, AtomicPath

LEMMA NoClobberSteps ==
  /\ PathOf["no_clobber"]["allocate"] = "write" /\ PathOf["no_clobber"]["write"] = "flush"
  /\ PathOf["no_clobber"]["flush"] = "close" /\ PathOf["no_clobber"]["close"] = "link"
  /\ PathOf["no_clobber"]["link"] = "drop" /\ PathOf["no_clobber"]["drop"] = "sync"
  /\ PathOf["no_clobber"]["sync"] = "return"
BY DEF PathOf, NoClobberPath

LEMMA ReplaceSteps ==
  /\ PathOf["replace"]["allocate"] = "write" /\ PathOf["replace"]["write"] = "flush"
  /\ PathOf["replace"]["flush"] = "close" /\ PathOf["replace"]["close"] = "check"
  /\ PathOf["replace"]["check"] = "rename" /\ PathOf["replace"]["rename"] = "sync"
  /\ PathOf["replace"]["sync"] = "return"
BY DEF PathOf, ReplacePath

LEMMA ReadSteps ==
  /\ PathOf["read"]["open"] = "stat" /\ PathOf["read"]["stat"] = "read"
  /\ PathOf["read"]["read"] = "close" /\ PathOf["read"]["close"] = "return"
BY DEF PathOf, ReadPath

LEMMA UnlinkSteps ==
  /\ PathOf["unlink"]["open"] = "stat" /\ PathOf["unlink"]["stat"] = "remove"
  /\ PathOf["unlink"]["remove"] = "sync" /\ PathOf["unlink"]["sync"] = "close"
  /\ PathOf["unlink"]["close"] = "return"
BY DEF PathOf, UnlinkPath

LEMMA Starts ==
  /\ \A op \in Creating : PathOf[op].start = "allocate"
  /\ \A op \in {"read", "unlink"} : PathOf[op].start = "open"
BY DEF PathOf, AtomicPath, NoClobberPath, ReplacePath, ReadPath, UnlinkPath, Creating

\* To advance is to take the step that follows on the route.
LEMMA Advancing ==
  ASSUME RegProcsOK, NEW p \in Writers, Advance(p),
         rpc[p] \notin {"idle", "discard", "return", "sync absent"}
  PROVE  Onward(p, PathOf[rop[p]][rpc[p]])
<1>1. rop[p] \in Operations /\ OnRoute(rop[p], rpc[p])
  BY DEF RegProcsOK, OnRoute
<1>2. rpc' = [rpc EXCEPT ![p] = PathOf[rop[p]][rpc[p]]]
  BY DEF Advance, RegGoes
<1>3. CASE rop[p] = "atomic"
  <2>1. rpc[p] \in {"allocate", "write", "close", "link", "drop", "return"}
    BY <1>1, <1>3 DEF OnRoute
  <2> QED
    BY <1>2, <1>3, <2>1, AtomicSteps DEF Onward, OnRoute
<1>4. CASE rop[p] = "no_clobber"
  <2>1. rpc[p] \in {"allocate", "write", "flush", "close", "link", "drop", "sync", "return"}
    BY <1>1, <1>4 DEF OnRoute
  <2> QED
    BY <1>2, <1>4, <2>1, NoClobberSteps DEF Onward, OnRoute
<1>5. CASE rop[p] = "replace"
  <2>1. rpc[p] \in {"allocate", "write", "flush", "close", "check", "rename", "sync", "return"}
    BY <1>1, <1>5 DEF OnRoute
  <2> QED
    BY <1>2, <1>5, <2>1, ReplaceSteps DEF Onward, OnRoute
<1>6. CASE rop[p] = "read"
  <2>1. rpc[p] \in {"open", "stat", "read", "close", "return"}
    BY <1>1, <1>6 DEF OnRoute
  <2> QED
    BY <1>2, <1>6, <2>1, ReadSteps DEF Onward, OnRoute
<1>7. CASE rop[p] = "unlink"
  <2>1. rpc[p] \in {"open", "stat", "remove", "sync", "sync absent", "close", "return"}
    BY <1>1, <1>7 DEF OnRoute
  <2> QED
    BY <1>2, <1>7, <2>1, UnlinkSteps DEF Onward, OnRoute
<1> QED
  BY <1>1, <1>3, <1>4, <1>5, <1>6, <1>7 DEF Operations

-----------------------------------------------------------------------------
(* What the steps do to the files and to the name.                         *)

\* Nothing is known of the links; the rest of the files is as before.
SameFiles ==
  /\ regFiles' \in Seq(AnyFile) /\ Len(regFiles') = Len(regFiles)
  /\ \A i \in 1..Len(regFiles) : /\ regFiles'[i].contents = regFiles[i].contents
                                 /\ regFiles'[i].atomic = regFiles[i].atomic

\* A change of the links alone.
LEMMA LinksOnly ==
  ASSUME RegFilesOK, NEW i \in Nat, NEW n, i \in 1..Len(regFiles) => n \in Int,
         regFiles' = [regFiles EXCEPT ![i].links = n]
  PROVE  SameFiles
<1>0. regFiles \in Seq(AnyFile)
  BY DEF RegFilesOK
<1>1. regFiles \in Seq(AnyFile) /\ DOMAIN regFiles = 1..Len(regFiles) /\ Len(regFiles) \in Nat
  BY <1>0
<1>2. CASE i \notin 1..Len(regFiles)
  <2>1. regFiles' = regFiles
    BY <1>1, <1>2
  <2> QED
    BY <1>1, <2>1 DEF SameFiles
<1>3. CASE i \in 1..Len(regFiles)
  <2>1. regFiles[i] \in AnyFile
    BY <1>1, <1>3
  <2> DEFINE f == [regFiles[i] EXCEPT !.links = n]
  <2> HIDE DEF f
  <2>2. f \in AnyFile /\ f.contents = regFiles[i].contents /\ f.atomic = regFiles[i].atomic
    <3>1. n \in Int
      BY <1>3
    <3> QED
      BY <2>1, <3>1 DEF AnyFile, f
  <2>3. regFiles' = [regFiles EXCEPT ![i] = f]
    BY DEF f
  <2> QED
    BY <1>1, <1>3, <2>2, <2>3 DEF SameFiles
<1> QED
  BY <1>2, <1>3

LEMMA UnlinkedSame ==
  ASSUME RegFilesOK, NEW i \in Nat, regFiles' = Unlinked(i)
  PROVE  SameFiles
<1>1. regFiles \in Seq(AnyFile)
  BY DEF RegFilesOK
<1>2. CASE i = 0
  BY <1>1, <1>2 DEF Unlinked, SameFiles
<1>3. CASE i # 0
  <2>1. ASSUME i \in 1..Len(regFiles)
        PROVE  regFiles[i].links - 1 \in Int
    <3>1. regFiles[i] \in AnyFile
      BY <1>1, <2>1
    <3> QED
      BY <3>1 DEF AnyFile
  <2>2. regFiles' = [regFiles EXCEPT ![i].links = regFiles[i].links - 1]
    BY <1>3 DEF Unlinked
  <2> QED
    BY <2>1, <2>2, LinksOnly
<1> QED
  BY <1>2, <1>3

\* What is written or flushed is the file of a process, and no other.
LEMMA FileWritten ==
  ASSUME RegFilesOK, NEW i \in 1..Len(regFiles), NEW c \in Contents,
         regFiles' = [regFiles EXCEPT ![i].contents = c]
  PROVE  /\ regFiles' \in Seq(AnyFile) /\ Len(regFiles') = Len(regFiles)
         /\ regFiles'[i].contents = c /\ regFiles'[i].atomic = regFiles[i].atomic
         /\ \A j \in 1..Len(regFiles) : j # i => regFiles'[j] = regFiles[j]
<1>1. regFiles \in Seq(AnyFile) /\ regFiles[i] \in AnyFile
  BY DEF RegFilesOK
<1> DEFINE f == [regFiles[i] EXCEPT !.contents = c]
<1>2. f \in AnyFile /\ f.contents = c /\ f.atomic = regFiles[i].atomic
  BY <1>1 DEF AnyFile
<1>3. regFiles' = [regFiles EXCEPT ![i] = f]
  OBVIOUS
<1> HIDE DEF f
<1> QED
  BY <1>1, <1>2, <1>3

\* A file is made.
LEMMA FileMade ==
  ASSUME RegFilesOK, NEW p, regFiles' = Append(regFiles, [contents |-> "empty", safe |-> TRUE,
                                             links |-> 1, atomic |-> rop[p] = "atomic"])
  PROVE  /\ regFiles' \in Seq(AnyFile) /\ Len(regFiles') = Len(regFiles) + 1
         /\ regFiles'[Len(regFiles) + 1].atomic <=> rop[p] = "atomic"
         /\ \A j \in 1..Len(regFiles) : regFiles'[j] = regFiles[j]
<1> DEFINE f == [contents |-> "empty", safe |-> TRUE, links |-> 1, atomic |-> rop[p] = "atomic"]
<1>1. regFiles \in Seq(AnyFile)
  BY DEF RegFilesOK
<1>2. f \in AnyFile
  BY DEF AnyFile, Contents
<1>3. f.atomic <=> rop[p] = "atomic"
  OBVIOUS
<1>4. regFiles' = Append(regFiles, f)
  OBVIOUS
<1> HIDE DEF f
<1> QED
  BY <1>1, <1>2, <1>3, <1>4

-----------------------------------------------------------------------------
(* The types hold. *)

\* A process takes a place on the route of its contract.
LEMMA Placed ==
  ASSUME RegProcsOK, NEW p \in Writers, NEW op \in Operations \cup {"none"}, NEW place,
         OnRoute(op, place),
         rop' = [rop EXCEPT ![p] = op], rpc' = [rpc EXCEPT ![p] = place],
         rfd' \in [Writers -> Nat], rtemp' \in [Writers -> Nat], rindex' \in [Writers -> Nat]
  PROVE  RegProcsOK'
<1>1. place \in RegPlaces
  BY DEF OnRoute, RegPlaces
<1> QED
  BY <1>1 DEF RegProcsOK

LEMMA AdvanceOK ==
  ASSUME RegProcsOK, NEW p \in Writers, Advance(p), UNCHANGED rop,
         rpc[p] \notin {"idle", "discard", "return", "sync absent"},
         rfd' \in [Writers -> Nat], rtemp' \in [Writers -> Nat], rindex' \in [Writers -> Nat]
  PROVE  RegProcsOK'
<1>1. Onward(p, PathOf[rop[p]][rpc[p]])
  BY Advancing
<1>2. rop[p] \in Operations \cup {"none"} /\ rop' = [rop EXCEPT ![p] = rop[p]]
  BY DEF RegProcsOK
<1> QED
  BY <1>1, <1>2, Placed DEF Onward

LEMMA DiscardOK ==
  ASSUME RegProcsOK, NEW p \in Writers, RegGoes(p, "discard"), UNCHANGED rop, rpc[p] # "idle",
         rfd' \in [Writers -> Nat], rtemp' \in [Writers -> Nat], rindex' \in [Writers -> Nat]
  PROVE  RegProcsOK'
<1>1. rop[p] \in Operations \cup {"none"} /\ rop' = [rop EXCEPT ![p] = rop[p]]
  BY DEF RegProcsOK
<1>2. OnRoute(rop[p], "discard")
  BY DEF RegProcsOK, OnRoute
<1> QED
  BY <1>1, <1>2, Placed DEF RegGoes

LEMMA OverOK ==
  ASSUME RegProcsOK, NEW p \in Writers, Over(p)
  PROVE  RegProcsOK'
<1>1. OnRoute("none", "idle")
  BY DEF OnRoute
<1>2. rfd' \in [Writers -> Nat] /\ rtemp' \in [Writers -> Nat] /\ rindex' \in [Writers -> Nat]
  BY DEF RegProcsOK, Over
<1> QED
  BY <1>1, <1>2, Placed DEF Over

LEMMA RegProcsStep ==
  ASSUME RegTypeOK, RegularAssumption, RegNext
  PROVE  RegProcsOK'
<1> USE DEF RegTypeOK
<1>1. /\ rfd \in [Writers -> Nat] /\ rtemp \in [Writers -> Nat] /\ rindex \in [Writers -> Nat]
      /\ Len(history) \in Nat /\ Len(regFiles) \in Nat
  BY DEF RegProcsOK, RegFilesOK
<1>2. Standing \in Nat
  BY DEF Standing, Last, RegFilesOK
<1>3. ASSUME NEW p \in Writers, RegStart(p)
      PROVE  RegProcsOK'
  <2>1. PICK op \in Contracts : rop' = [rop EXCEPT ![p] = op] /\ RegGoes(p, PathOf[op].start)
    BY <1>3 DEF RegStart
  <2>2. op \in Operations
    BY <2>1 DEF RegularAssumption, PathOf, Operations
  <2>3. OnRoute(op, PathOf[op].start)
    BY <2>2, Starts DEF OnRoute, Operations, Creating
  <2> QED
    BY <1>1, <1>3, <2>1, <2>2, <2>3, Placed DEF RegStart, RegGoes
<1>4. ASSUME NEW p \in Writers, Allocate(p)
      PROVE  RegProcsOK'
  <2>1. rfd' \in [Writers -> Nat] /\ rtemp' \in [Writers -> Nat] /\ rindex' \in [Writers -> Nat]
    BY <1>1, <1>4 DEF Allocate
  <2> QED
    BY <1>4, <2>1, AdvanceOK DEF Allocate, At
<1>5. ASSUME NEW p \in Writers, WriteAll(p) \/ FsyncFile(p) \/ ReadAll(p) \/ FsyncDirectory(p)
      PROVE  RegProcsOK'
  BY <1>1, <1>5, AdvanceOK DEF WriteAll, FsyncFile, ReadAll, FsyncDirectory, At
<1>6. ASSUME NEW p \in Writers, CloseFile(p)
      PROVE  RegProcsOK'
  BY <1>1, <1>6, AdvanceOK, DiscardOK DEF CloseFile, At
<1>7. ASSUME NEW p \in Writers, ValidateDestination(p)
      PROVE  RegProcsOK'
  BY <1>1, <1>7, AdvanceOK, DiscardOK DEF ValidateDestination, At
<1>8. ASSUME NEW p \in Writers, LinkNoClobber(p) \/ RenameBasename(p) \/ UnlinkBasename(p)
      PROVE  RegProcsOK'
  <2>1. /\ rfd' = rfd /\ (rtemp' = rtemp \/ rtemp' = [rtemp EXCEPT ![p] = 0])
        /\ rindex' = [rindex EXCEPT ![p] = Len(history) + 1]
    BY <1>8 DEF LinkNoClobber, RenameBasename, UnlinkBasename, Renamed
  <2>2. /\ Advance(p) /\ UNCHANGED rop /\ rpc[p] \in {"link", "rename", "remove"}
    BY <1>8 DEF LinkNoClobber, RenameBasename, UnlinkBasename, At
  <2>3. rfd' \in [Writers -> Nat] /\ rtemp' \in [Writers -> Nat]
    BY <1>1, <2>1
  <2>4. rindex' \in [Writers -> Nat]
    BY <1>1, <2>1
  <2> QED
    BY <2>2, <2>3, <2>4, AdvanceOK
<1>9. ASSUME NEW p \in Writers, UnlinkTemporary(p)
      PROVE  RegProcsOK'
  BY <1>1, <1>9, AdvanceOK DEF UnlinkTemporary, At
<1>10. ASSUME NEW p \in Writers, OpenEntry(p)
       PROVE  RegProcsOK'
  <2>1. /\ At(p, "open") /\ UNCHANGED <<rop, rtemp>>
        /\ rfd' \in [Writers -> Nat] /\ rindex' \in [Writers -> Nat]
    BY <1>1, <1>2, <1>10 DEF OpenEntry
  <2>2. CASE Advance(p)
    BY <1>1, <2>1, <2>2, AdvanceOK DEF At
  <2>3. CASE RegGoes(p, "discard")
    BY <1>1, <2>1, <2>3, DiscardOK DEF At
  <2>4. CASE rop[p] = "unlink" /\ AbsentEntry(p)
    <3>1. OnRoute("unlink", "sync absent") /\ "unlink" \in Operations
      BY DEF OnRoute, Operations
    <3>2. rop' = [rop EXCEPT ![p] = "unlink"]
      BY <2>1, <2>4 DEF RegProcsOK
    <3> QED
      BY <1>1, <2>1, <2>4, <3>1, <3>2, Placed DEF AbsentEntry, RegGoes
  <2> QED
    BY <1>10, <2>2, <2>3, <2>4 DEF OpenEntry
<1>11. ASSUME NEW p \in Writers, SyncAbsent(p)
       PROVE  RegProcsOK'
  <2>1. rop[p] = "unlink" /\ OnRoute("unlink", "return") /\ "unlink" \in Operations
    BY <1>11 DEF SyncAbsent, At, RegProcsOK, OnRoute, Operations
  <2>2. rop' = [rop EXCEPT ![p] = "unlink"]
    BY <1>11, <2>1 DEF SyncAbsent, RegProcsOK
  <2> QED
    BY <1>1, <1>11, <2>1, <2>2, Placed DEF SyncAbsent, RegGoes
<1>12. ASSUME NEW p \in Writers, StatEntry(p)
       PROVE  RegProcsOK'
  BY <1>1, <1>12, AdvanceOK, DiscardOK DEF StatEntry, At
<1>13. ASSUME NEW p \in Writers, RegReturn(p) \/ Discard(p) \/ RegKilled(p)
       PROVE  RegProcsOK'
  BY <1>13, OverOK DEF RegReturn, Discard, RegKilled
<1>14. ASSUME NEW p \in Writers, RegFails(p) \/ AllocationLost(p)
       PROVE  RegProcsOK'
  BY <1>1, <1>14, DiscardOK DEF RegFails, AllocationLost, At
<1>15. CASE PowerLoss
  <2>1. OnRoute("none", "idle") /\ "idle" \in RegPlaces
    BY DEF OnRoute, RegPlaces
  <2> QED
    BY <1>15, <2>1 DEF PowerLoss, None, RegProcsOK
<1> QED
  BY <1>3, <1>4, <1>5, <1>6, <1>7, <1>8, <1>9, <1>10, <1>11, <1>12, <1>13, <1>14, <1>15
  DEF RegNext, RegStep

-----------------------------------------------------------------------------
(* The name and the private files. *)

\* Every inode the name may stand for, and 0 when it may be absent.
Names == {history[k] : k \in 1..Len(history)}

\* Inode i was written to the end, and flushed unless it is an atomic file.
Ready(i) == /\ regFiles[i].contents # "empty"
            /\ ~ regFiles[i].atomic => regFiles[i].contents = "flushed"

\* p is at work on a file that only its private name gives.
Private(p) == \/ rpc[p] \in {"write", "flush", "link", "check", "rename"}
              \/ rpc[p] = "close" /\ rop[p] \in Creating

PrivateOK(p) == /\ rtemp[p] \in 1..Len(regFiles) /\ rtemp[p] \notin Names
                /\ regFiles[rtemp[p]].atomic <=> rop[p] = "atomic"
                /\ rpc[p] \in {"write", "flush"} => rfd[p] = rtemp[p]
                /\ rpc[p] \in {"close", "link", "check", "rename"} => Ready(rtemp[p])

NamesReady     == \A i \in Names : i <= Len(regFiles) /\ (i # 0 => Ready(i))
PrivatesOK     == \A p \in Writers : Private(p) => PrivateOK(p)
PrivatesApart  == \A p, q \in Writers : Private(p) /\ Private(q) /\ p # q => rtemp[p] # rtemp[q]

CompleteInv == NamesReady /\ PrivatesOK /\ PrivatesApart

\* The files after a step of p: those of others and those that have the name
\* are as ready as they were.
Preserved(p) ==
  /\ Len(regFiles') >= Len(regFiles)
  /\ \A i \in 1..Len(regFiles) :
       /\ regFiles'[i].atomic <=> regFiles[i].atomic
       /\ (~ Private(p) \/ i # rtemp[p]) /\ Ready(i) => Ready(i)'

OthersStay(p) == \A q \in Writers \ {p} : /\ rpc'[q] = rpc[q] /\ rop'[q] = rop[q]
                                          /\ rfd'[q] = rfd[q] /\ rtemp'[q] = rtemp[q]

\* p has no private file after the step, or a sound one of its own.
Leaves(p) == ~ Private(p)'
Keeps(p)  == /\ PrivateOK(p)'
             /\ \A q \in Writers \ {p} : Private(q) => rtemp'[p] # rtemp[q]

\* The name comes to stand for nothing, or for the file p leaves, when it is ready.
Named(p) == \A i \in Names' : \/ i \in Names \/ i = 0
                              \/ Private(p) /\ i = rtemp[p] /\ Leaves(p) /\ Ready(i)'

LEMMA CompleteKept ==
  ASSUME RegTypeOK, CompleteInv, NEW p \in Writers, Len(regFiles') \in Nat,
         Preserved(p), OthersStay(p), Named(p), Leaves(p) \/ Keeps(p)
  PROVE  CompleteInv'
<1> USE DEF Leaves, Keeps, Named
<1>1. Len(regFiles) \in Nat /\ \A i \in Names : i \in Nat
  BY DEF RegTypeOK, RegFilesOK, Names
<1>2. NamesReady'
  <2> SUFFICES ASSUME NEW i \in Names'
               PROVE  i <= Len(regFiles') /\ (i # 0 => Ready(i)')
    BY DEF NamesReady
  <2>1. CASE i \in Names
    <3>1. i <= Len(regFiles) /\ (i # 0 => i \in 1..Len(regFiles) /\ Ready(i))
      BY <1>1, <2>1 DEF CompleteInv, NamesReady
    <3>2. ~ Private(p) \/ i # rtemp[p]
      BY <2>1 DEF CompleteInv, PrivatesOK, PrivateOK
    <3> QED
      BY <1>1, <3>1, <3>2 DEF Preserved
  <2>2. CASE i = 0
    BY <1>1, <2>2 DEF Preserved
  <2>3. CASE Private(p) /\ i = rtemp[p] /\ ~ Private(p)' /\ Ready(i)'
    <3>1. i \in 1..Len(regFiles)
      BY <2>3 DEF CompleteInv, PrivatesOK, PrivateOK
    <3> QED
      BY <1>1, <2>3, <3>1 DEF Preserved
  <2> QED
    BY <2>1, <2>2, <2>3
<1>3. ASSUME NEW q \in Writers \ {p}, Private(q)'
      PROVE  Private(q) /\ PrivateOK(q)'
  <2>1. Private(q) /\ PrivateOK(q)
    BY <1>3 DEF CompleteInv, PrivatesOK, Private, OthersStay
  <2>2. rtemp'[q] = rtemp[q] /\ rfd'[q] = rfd[q] /\ rpc'[q] = rpc[q] /\ rop'[q] = rop[q]
    BY DEF OthersStay
  <2>3. Private(p) => rtemp[p] # rtemp[q]
    BY <2>1 DEF CompleteInv, PrivatesApart
  <2>4. rtemp[q] \in 1..Len(regFiles')
    BY <1>1, <2>1 DEF PrivateOK, Preserved
  <2>5. rtemp[q] \notin Names'
    BY <2>1, <2>3, <2>4 DEF PrivateOK
  <2>6. regFiles'[rtemp[q]].atomic <=> rop[q] = "atomic"
    BY <2>1 DEF PrivateOK, Preserved
  <2>7. Ready(rtemp[q]) => Ready(rtemp[q])'
    BY <2>1, <2>2, <2>3 DEF PrivateOK, Preserved, Ready
  <2> QED
    BY <2>1, <2>2, <2>4, <2>5, <2>6, <2>7 DEF PrivateOK
<1>4. PrivatesOK'
  BY <1>3 DEF PrivatesOK
<1>5. PrivatesApart'
  BY <1>3 DEF PrivatesApart, CompleteInv, OthersStay
<1> QED
  BY <1>2, <1>4, <1>5 DEF CompleteInv

\* A change of the links alone preserves every file.
LEMMA SamePreserved ==
  ASSUME RegFilesOK, SameFiles, NEW p \in Writers
  PROVE  /\ Preserved(p) /\ Len(regFiles') \in Nat
         /\ \A i \in 1..Len(regFiles) : Ready(i) => Ready(i)'
BY DEF RegFilesOK, SameFiles, Preserved, Ready

\* A power loss may tear what was written and not flushed, and no more.
LEMMA PowerFiles ==
  ASSUME RegFilesOK, PowerLoss
  PROVE  /\ regFiles' \in Seq(AnyFile) /\ Len(regFiles') = Len(regFiles)
         /\ \A i \in 1..Len(regFiles) : Ready(i) => Ready(i)'
<1>1. PICK links \in {1, 2}, torn \in BOOLEAN :
        regFiles' = [i \in DOMAIN regFiles |->
          [regFiles[i] EXCEPT !.links = links,
             !.contents = IF torn /\ @ = "written" THEN "torn" ELSE @]]
  BY DEF PowerLoss
<1>2. /\ regFiles \in Seq(AnyFile) /\ DOMAIN regFiles = 1..Len(regFiles) /\ Len(regFiles) \in Nat
      /\ \A i \in 1..Len(regFiles) : regFiles[i] \in AnyFile
  BY DEF RegFilesOK
<1> DEFINE lost(f) == [f EXCEPT !.links = links,
                         !.contents = IF torn /\ @ = "written" THEN "torn" ELSE @]
<1>3. ASSUME NEW f \in AnyFile
      PROVE  /\ lost(f) \in AnyFile /\ lost(f).atomic = f.atomic
             /\ lost(f).contents = f.contents
                \/ (f.contents = "written" /\ lost(f).contents = "torn")
  <2>1. /\ f.contents \in Contents /\ f.safe \in BOOLEAN /\ f.atomic \in BOOLEAN
        /\ DOMAIN f = {"contents", "safe", "links", "atomic"}
        /\ f = [x \in DOMAIN f |-> f[x]]
    BY DEF AnyFile
  <2>2. /\ lost(f).contents = IF torn /\ f.contents = "written" THEN "torn" ELSE f.contents
    BY <2>1
  <2>3. lost(f).safe = f.safe /\ lost(f).links = links /\ lost(f).atomic = f.atomic
    BY <2>1
  <2>4. /\ DOMAIN lost(f) = {"contents", "safe", "links", "atomic"}
        /\ lost(f) = [x \in DOMAIN lost(f) |-> lost(f)[x]]
    BY <2>1
  <2> HIDE DEF lost
  <2>5. lost(f).contents \in Contents
    BY <2>1, <2>2 DEF Contents
  <2>6. lost(f) \in AnyFile
    <3>1. lost(f) = [contents |-> lost(f).contents, safe |-> lost(f).safe,
                     links |-> lost(f).links, atomic |-> lost(f).atomic]
      BY <2>4
    <3>2. lost(f).safe \in BOOLEAN /\ lost(f).links \in Int /\ lost(f).atomic \in BOOLEAN
      BY <2>1, <2>3
    <3>3. \A c \in Contents, w \in BOOLEAN, n \in Int, a \in BOOLEAN :
            [contents |-> c, safe |-> w, links |-> n, atomic |-> a] \in AnyFile
      BY DEF AnyFile
    <3>4. [contents |-> lost(f).contents, safe |-> lost(f).safe, links |-> lost(f).links,
           atomic |-> lost(f).atomic] \in AnyFile
      BY <2>5, <3>2, <3>3
    <3> QED
      BY <3>1, <3>4
  <2> QED
    BY <2>2, <2>3, <2>6
<1>4. regFiles' = [i \in 1..Len(regFiles) |-> lost(regFiles[i])]
  BY <1>1, <1>2
<1> HIDE DEF lost
<1>5. regFiles' \in Seq(AnyFile) /\ Len(regFiles') = Len(regFiles)
  BY <1>2, <1>3, <1>4
<1>6. \A i \in 1..Len(regFiles) : Ready(i) => Ready(i)'
  BY <1>2, <1>3, <1>4 DEF Ready
<1> QED
  BY <1>5, <1>6

\* What is left of a process after a step that is not one of a file.
LEMMA GoneOK ==
  ASSUME NEW p \in Writers, rpc'[p] \notin {"write", "flush", "link", "check", "rename", "close"}
  PROVE  Leaves(p)
BY DEF Private, Leaves

\* A change of the name adds what it stands for now.
LEMMA NamesGrow ==
  ASSUME NEW i \in Nat, history \in Seq(Nat), history' = Append(history, i)
  PROVE  Names' = Names \cup {i}
<1>1. /\ Len(history) \in Nat /\ Len(history') = Len(history) + 1 /\ history'[Len(history) + 1] = i
      /\ \A k \in 1..Len(history) : history'[k] = history[k]
  OBVIOUS
<1>2. ASSUME NEW j \in Names'
      PROVE  j \in Names \cup {i}
  BY <1>1, <1>2 DEF Names
<1>3. ASSUME NEW j \in Names
      PROVE  j \in Names'
  BY <1>1, <1>3 DEF Names
<1>4. i \in Names'
  BY <1>1 DEF Names
<1> QED
  BY <1>2, <1>3, <1>4

LEMMA CompleteStep ==
  ASSUME RegTypeOK, RegTypeOK', CompleteInv, RegNext
  PROVE  CompleteInv'
<1>1. /\ Len(history) \in Nat /\ Len(history) > 0 /\ Len(regFiles) \in Nat /\ Standing \in Nat
      /\ Standing \in Names /\ history \in Seq(Nat)
      /\ rpc \in [Writers -> RegPlaces] /\ rfd \in [Writers -> Nat] /\ rtemp \in [Writers -> Nat]
      /\ Len(regFiles') \in Nat
  BY DEF RegTypeOK, RegFilesOK, RegProcsOK, Standing, Last, Names
<1>2. ASSUME NEW p \in Writers, UNCHANGED <<regFiles, history>>, OthersStay(p), Leaves(p)
      PROVE  CompleteInv'
  <2>1. Preserved(p) /\ Named(p)
    BY <1>1, <1>2 DEF Preserved, Names, Named, Ready
  <2> QED
    BY <1>1, <1>2, <2>1, CompleteKept
<1>3. ASSUME NEW p \in Writers, RegStart(p)
      PROVE  CompleteInv'
  <2>1. PICK op \in Contracts : rop' = [rop EXCEPT ![p] = op] /\ RegGoes(p, PathOf[op].start)
    BY <1>3 DEF RegStart
  <2>2. rpc'[p] \in {"allocate", "open"}
    <3>1. op \in Creating \cup {"read", "unlink"}
      BY <2>1, RegularAssumption DEF RegularAssumption, PathOf, Creating
    <3> QED
      BY <1>1, <2>1, <3>1, Starts DEF RegGoes
  <2> QED
    <3>1. UNCHANGED <<regFiles, history>> /\ OthersStay(p)
      BY <1>1, <1>3, <2>1 DEF RegStart, fileVars, RegGoes, OthersStay, RegTypeOK, RegProcsOK
    <3>2. Leaves(p)
      BY <2>2, GoneOK
    <3> QED
      BY <1>2, <3>1, <3>2
<1>4. ASSUME NEW p \in Writers, Allocate(p)
      PROVE  CompleteInv'
  <2> DEFINE n == Len(regFiles) + 1
  <2>1. /\ rpc[p] = "allocate" /\ rpc' = [rpc EXCEPT ![p] = "write"] /\ UNCHANGED <<history, rop>>
        /\ rfd' = [rfd EXCEPT ![p] = n] /\ rtemp' = [rtemp EXCEPT ![p] = n]
    BY <1>4, Advancing DEF Allocate, At, RegTypeOK, Onward
  <2>2. /\ Len(regFiles') = n /\ (regFiles'[n].atomic <=> rop[p] = "atomic")
        /\ \A j \in 1..Len(regFiles) : regFiles'[j] = regFiles[j]
    BY <1>4, FileMade DEF Allocate, RegTypeOK
  <2>3. Preserved(p) /\ OthersStay(p) /\ Names' = Names
    <3>1. Names' = Names
      BY <2>1 DEF Names
    <3>2. OthersStay(p)
      BY <1>1, <2>1 DEF OthersStay
    <3>3. Len(regFiles') >= Len(regFiles)
      BY <1>1, <2>2
    <3>4. Preserved(p)
      BY <2>2, <3>3 DEF Preserved, Ready
    <3> QED
      BY <3>1, <3>2, <3>4
  <2>4. n \notin Names
    BY <1>1 DEF CompleteInv, NamesReady
  <2>5. PrivateOK(p)'
    BY <1>1, <2>1, <2>2, <2>3, <2>4 DEF PrivateOK
  <2>6. \A q \in Writers \ {p} : Private(q) => rtemp[q] # n
    BY <1>1 DEF CompleteInv, PrivatesOK, PrivateOK
  <2>7. Named(p) /\ Keeps(p)
    BY <1>1, <2>1, <2>3, <2>5, <2>6 DEF Named, Keeps
  <2> QED
    BY <1>1, <2>3, <2>7, CompleteKept
<1>5. ASSUME NEW p \in Writers, WriteAll(p)
      PROVE  CompleteInv'
  <2> DEFINE i == rtemp[p]
  <2>1. /\ rpc[p] = "write" /\ UNCHANGED <<history, rop, rfd, rtemp>>
        /\ rpc' = [rpc EXCEPT ![p] = IF rop[p] = "atomic" THEN "close" ELSE "flush"]
    BY <1>5, Advancing DEF WriteAll, At, RegTypeOK, Onward
  <2>2. Private(p) /\ PrivateOK(p)
    BY <2>1 DEF CompleteInv, PrivatesOK, Private
  <2>3. i \in 1..Len(regFiles) /\ regFiles' = [regFiles EXCEPT ![i].contents = "written"]
    BY <1>5, <2>1, <2>2 DEF WriteAll, PrivateOK
  <2>4. /\ Len(regFiles') = Len(regFiles)
        /\ regFiles'[i].contents = "written" /\ regFiles'[i].atomic = regFiles[i].atomic
        /\ \A j \in 1..Len(regFiles) : j # i => regFiles'[j] = regFiles[j]
    BY <2>3, FileWritten DEF RegTypeOK, Contents
  <2>5. Preserved(p) /\ OthersStay(p) /\ Names' = Names
    BY <1>1, <2>1, <2>2, <2>4 DEF Preserved, OthersStay, Names, Ready
  <2>6. PrivateOK(p)'
    BY <1>1, <2>1, <2>2, <2>4, <2>5 DEF PrivateOK, Ready
  <2>7. \A q \in Writers \ {p} : Private(q) => rtemp'[p] # rtemp[q]
    BY <2>1, <2>2 DEF CompleteInv, PrivatesApart
  <2>8. Named(p) /\ Keeps(p)
    BY <2>5, <2>6, <2>7 DEF Named, Keeps
  <2> QED
    BY <1>1, <2>5, <2>8, CompleteKept
<1>6. ASSUME NEW p \in Writers, FsyncFile(p)
      PROVE  CompleteInv'
  <2> DEFINE i == rtemp[p]
  <2>1. /\ rpc[p] = "flush" /\ UNCHANGED <<history, rop, rfd, rtemp>>
        /\ rpc' = [rpc EXCEPT ![p] = "close"]
    BY <1>6, Advancing DEF FsyncFile, At, RegTypeOK, Onward
  <2>2. Private(p) /\ PrivateOK(p)
    BY <2>1 DEF CompleteInv, PrivatesOK, Private
  <2>3. i \in 1..Len(regFiles) /\ regFiles' = [regFiles EXCEPT ![i].contents = "flushed"]
    BY <1>6, <2>1, <2>2 DEF FsyncFile, PrivateOK
  <2>4. /\ Len(regFiles') = Len(regFiles)
        /\ regFiles'[i].contents = "flushed" /\ regFiles'[i].atomic = regFiles[i].atomic
        /\ \A j \in 1..Len(regFiles) : j # i => regFiles'[j] = regFiles[j]
    BY <2>3, FileWritten DEF RegTypeOK, Contents
  <2>5. Preserved(p) /\ OthersStay(p) /\ Names' = Names
    BY <1>1, <2>1, <2>2, <2>4 DEF Preserved, OthersStay, Names, Ready
  <2>6. PrivateOK(p)'
    BY <1>1, <2>1, <2>2, <2>4, <2>5 DEF PrivateOK, Ready
  <2>7. \A q \in Writers \ {p} : Private(q) => rtemp'[p] # rtemp[q]
    BY <2>1, <2>2 DEF CompleteInv, PrivatesApart
  <2>8. Named(p) /\ Keeps(p)
    BY <2>5, <2>6, <2>7 DEF Named, Keeps
  <2> QED
    BY <1>1, <2>5, <2>8, CompleteKept
<1>7. ASSUME NEW p \in Writers, CloseFile(p) \/ ValidateDestination(p)
      PROVE  CompleteInv'
  <2>1. /\ UNCHANGED <<regFiles, history, rop, rtemp>>
        /\ rpc[p] \in {"close", "check"} /\ (RegGoes(p, "discard") \/ Advance(p))
        /\ \A q \in Writers \ {p} : rfd'[q] = rfd[q]
    BY <1>1, <1>7 DEF CloseFile, ValidateDestination, At, fileVars
  <2>2. \E place : rpc' = [rpc EXCEPT ![p] = place]
    BY <2>1 DEF RegGoes, Advance
  <2>3. CASE Leaves(p)
    BY <1>1, <1>2, <2>1, <2>2, <2>3 DEF OthersStay
  <2>4. CASE ~ Leaves(p)
    <3>1. /\ Advance(p) /\ rpc'[p] \in {"link", "check", "rename"}
          /\ (rpc[p] = "close" => rop[p] \in Creating)
      <4>1. Advance(p)
        BY <1>1, <2>1, <2>4, GoneOK DEF RegGoes
      <4>2. Onward(p, PathOf[rop[p]][rpc[p]]) /\ rop[p] \in Operations
        BY <2>1, <4>1, Advancing DEF RegTypeOK, RegProcsOK, OnRoute
      <4> QED
        BY <1>1, <2>1, <2>4, <4>1, <4>2 DEF Onward, Leaves, Private, Creating, Operations
    <3>2. Private(p) /\ PrivateOK(p) /\ Ready(rtemp[p])
      BY <2>1, <3>1 DEF CompleteInv, PrivatesOK, Private, PrivateOK
    <3>3. Preserved(p) /\ OthersStay(p) /\ Names' = Names
      BY <1>1, <2>1, <2>2 DEF Preserved, OthersStay, Names, Ready
    <3>4. PrivateOK(p)'
      BY <1>1, <2>1, <3>1, <3>2, <3>3 DEF PrivateOK, Ready
    <3>5. \A q \in Writers \ {p} : Private(q) => rtemp'[p] # rtemp[q]
      BY <2>1, <3>2 DEF CompleteInv, PrivatesApart
    <3>6. Named(p) /\ Keeps(p)
      BY <3>3, <3>4, <3>5 DEF Named, Keeps
    <3> QED
      BY <1>1, <3>3, <3>6, CompleteKept
  <2> QED
    BY <2>3, <2>4
<1>8. ASSUME NEW p \in Writers, LinkNoClobber(p) \/ RenameBasename(p)
      PROVE  CompleteInv'
  <2>1. /\ rpc[p] \in {"link", "rename"} /\ history' = Append(history, rtemp[p])
        /\ UNCHANGED <<rop, rfd>> /\ Advance(p)
        /\ rtemp' = rtemp \/ rtemp' = [rtemp EXCEPT ![p] = 0]
    BY <1>8 DEF LinkNoClobber, RenameBasename, At, Renamed
  <2>2. rpc' = [rpc EXCEPT ![p] = IF rpc[p] = "link" THEN "drop" ELSE "sync"]
    BY <2>1, Advancing DEF RegTypeOK, Onward
  <2>3. Private(p) /\ PrivateOK(p) /\ Ready(rtemp[p])
    BY <2>1 DEF CompleteInv, PrivatesOK, Private, PrivateOK
  <2>4. SameFiles
    <3>1. rtemp[p] \in Nat
      BY <1>1
    <3>2. CASE LinkNoClobber(p)
      <4>1. regFiles[rtemp[p]] \in AnyFile
        BY <2>3 DEF RegTypeOK, RegFilesOK, PrivateOK
      <4>2. regFiles[rtemp[p]].links + 1 \in Int
        BY <4>1 DEF AnyFile
      <4>3. regFiles' = [regFiles EXCEPT ![rtemp[p]].links = regFiles[rtemp[p]].links + 1]
        BY <3>2 DEF LinkNoClobber
      <4> QED
        BY <3>1, <4>2, <4>3, LinksOnly DEF RegTypeOK
    <3>3. CASE RenameBasename(p)
      BY <1>1, <3>3, UnlinkedSame DEF RenameBasename, RegTypeOK
    <3> QED
      BY <1>8, <3>2, <3>3
  <2>5. Preserved(p) /\ \A i \in 1..Len(regFiles) : Ready(i) => Ready(i)'
    BY <2>4, SamePreserved DEF RegTypeOK
  <2>6. Names' = Names \cup {rtemp[p]}
    BY <1>1, <2>1, NamesGrow
  <2>7. Leaves(p)
    BY <1>1, <2>2, GoneOK
  <2>8. OthersStay(p)
    BY <1>1, <2>1, <2>2 DEF OthersStay
  <2>9. Named(p)
    BY <2>3, <2>5, <2>6, <2>7 DEF Named, PrivateOK
  <2> QED
    BY <1>1, <2>3, <2>5, <2>7, <2>8, <2>9, CompleteKept
<1>9. ASSUME NEW p \in Writers, UnlinkTemporary(p)
      PROVE  CompleteInv'
  <2>1. /\ rpc[p] = "drop" /\ UNCHANGED <<history, rop, rfd>> /\ Advance(p)
        /\ rtemp' = [rtemp EXCEPT ![p] = 0] /\ regFiles' = Unlinked(rtemp[p])
    BY <1>9 DEF UnlinkTemporary, At
  <2>2. rpc' = [rpc EXCEPT ![p] = IF rop[p] = "atomic" THEN "return" ELSE "sync"]
    BY <2>1, Advancing DEF RegTypeOK, Onward
  <2>3. Preserved(p)
    BY <1>1, <2>1, UnlinkedSame, SamePreserved DEF RegTypeOK
  <2>4. Leaves(p) /\ OthersStay(p) /\ Named(p)
    BY <1>1, <2>1, <2>2, GoneOK DEF OthersStay, Named, Names
  <2> QED
    BY <1>1, <2>3, <2>4, CompleteKept
<1>10. ASSUME NEW p \in Writers, UnlinkBasename(p)
       PROVE  CompleteInv'
  <2>1. /\ rpc[p] = "remove" /\ UNCHANGED <<rop, rfd, rtemp>> /\ Advance(p)
        /\ history' = Append(history, 0) /\ regFiles' = Unlinked(Standing)
    BY <1>10 DEF UnlinkBasename, At, Renamed
  <2>2. rpc' = [rpc EXCEPT ![p] = "sync"]
    BY <2>1, Advancing DEF RegTypeOK, Onward
  <2>3. Preserved(p)
    BY <1>1, <2>1, UnlinkedSame, SamePreserved DEF RegTypeOK
  <2>4. Names' = Names \cup {0}
    BY <1>1, <2>1, NamesGrow
  <2>5. Leaves(p) /\ OthersStay(p)
    BY <1>1, <2>1, <2>2, GoneOK DEF OthersStay
  <2>6. Named(p)
    BY <2>4 DEF Named
  <2> QED
    BY <1>1, <2>3, <2>5, <2>6, CompleteKept
<1>11. ASSUME NEW p \in Writers, ReadAll(p) \/ FsyncDirectory(p)
       PROVE  CompleteInv'
  <2>1. /\ rpc[p] \in {"read", "sync"} /\ UNCHANGED <<regFiles, history, rop, rfd, rtemp>>
        /\ Advance(p)
    BY <1>11 DEF ReadAll, FsyncDirectory, At, fileVars
  <2>2. /\ rpc' = [rpc EXCEPT ![p] = IF rpc[p] = "sync" /\ rop[p] # "unlink" THEN "return"
                                    ELSE "close"]
        /\ rpc[p] = "read" => rop[p] = "read"
    <3>1. OnRoute(rop[p], rpc[p])
      BY DEF RegTypeOK, RegProcsOK
    <3>2. rpc[p] = "read" => rop[p] = "read"
      BY <3>1 DEF OnRoute
    <3> QED
      BY <2>1, <3>2, Advancing DEF RegTypeOK, Onward
  <2>3. Leaves(p)
    BY <1>1, <2>1, <2>2 DEF Leaves, Private, Creating
  <2> QED
    BY <1>1, <1>2, <2>1, <2>2, <2>3 DEF OthersStay
<1>12. ASSUME NEW p \in Writers, OpenEntry(p) \/ StatEntry(p)
       PROVE  CompleteInv'
  <2>1. /\ rpc[p] \in {"open", "stat"} /\ UNCHANGED <<regFiles, history, rop, rtemp>>
        /\ Advance(p) \/ AbsentEntry(p) \/ RegGoes(p, "discard")
        /\ \A q \in Writers \ {p} : rfd'[q] = rfd[q]
    BY <1>1, <1>12 DEF OpenEntry, StatEntry, At, fileVars
  <2>2. \E place \in {"stat", "read", "remove", "sync absent", "discard"} :
          rpc' = [rpc EXCEPT ![p] = place]
    BY <2>1, Advancing DEF RegTypeOK, Onward, AbsentEntry, RegGoes
  <2> QED
    BY <1>1, <1>2, <2>1, <2>2, GoneOK DEF OthersStay
<1>13. ASSUME NEW p \in Writers, SyncAbsent(p) \/ RegFails(p)
       PROVE  CompleteInv'
  <2>1. /\ UNCHANGED <<regFiles, history, rop, rfd, rtemp>>
        /\ \E place \in {"return", "discard"} : rpc' = [rpc EXCEPT ![p] = place]
    BY <1>13 DEF SyncAbsent, RegFails, RegGoes, fileVars
  <2> QED
    BY <1>1, <1>2, <2>1, GoneOK DEF OthersStay
<1>14. ASSUME NEW p \in Writers, Over(p)
       PROVE  Leaves(p) /\ OthersStay(p)
  <2>1. rop \in [Writers -> Operations \cup {"none"}]
    BY DEF RegTypeOK, RegProcsOK
  <2> QED
    BY <1>1, <1>14, <2>1, GoneOK DEF Over, OthersStay
<1>15. ASSUME NEW p \in Writers, RegReturn(p) \/ RegKilled(p)
       PROVE  CompleteInv'
  BY <1>2, <1>14, <1>15 DEF RegReturn, RegKilled, fileVars
<1>16. ASSUME NEW p \in Writers, Discard(p)
       PROVE  CompleteInv'
  <2>1. CASE UNCHANGED regFiles
    BY <1>2, <1>14, <1>16, <2>1 DEF Discard
  <2>2. CASE regFiles' = Unlinked(rtemp[p])
    <3>1. Preserved(p)
      BY <1>1, <2>2, UnlinkedSame, SamePreserved DEF RegTypeOK
    <3>2. Named(p)
      BY <1>16 DEF Discard, Names, Named
    <3> QED
      BY <1>1, <1>14, <1>16, <3>1, <3>2, CompleteKept DEF Discard
  <2> QED
    BY <1>16, <2>1, <2>2 DEF Discard
<1>17. ASSUME NEW p \in Writers, AllocationLost(p)
       PROVE  CompleteInv'
  <2>1. /\ rpc' = [rpc EXCEPT ![p] = "discard"] /\ UNCHANGED <<history, rop, rfd, rtemp>>
    BY <1>17 DEF AllocationLost, RegGoes
  <2>2. /\ Len(regFiles') = Len(regFiles) + 1
        /\ \A j \in 1..Len(regFiles) : regFiles'[j] = regFiles[j]
    BY <1>17, FileMade DEF AllocationLost, RegTypeOK
  <2>3. Preserved(p) /\ OthersStay(p) /\ Named(p) /\ Leaves(p)
    BY <1>1, <2>1, <2>2, GoneOK DEF Preserved, OthersStay, Names, Named, Ready
  <2> QED
    BY <1>1, <2>3, CompleteKept
<1>18. CASE PowerLoss
  <2>1. \A p \in Writers : Leaves(p)
    BY <1>18 DEF PowerLoss, Private, Leaves
  <2>2. PICK k \in onDisk..Len(history) : history' = SubSeq(history, 1, k)
    BY <1>18 DEF PowerLoss
  <2>3. Names' \subseteq Names
    BY <1>1, <2>2 DEF Names, RegTypeOK, RegFilesOK
  <2>4. Len(regFiles') = Len(regFiles)
    BY <1>18, PowerFiles DEF RegTypeOK
  <2>5. \A i \in 1..Len(regFiles) : Ready(i) => Ready(i)'
    BY <1>18, PowerFiles DEF RegTypeOK
  <2>6. NamesReady'
    <3>1. \A i \in Names : i \in Nat /\ i <= Len(regFiles) /\ (i # 0 => Ready(i))
      BY <1>1 DEF NamesReady, CompleteInv, Names
    <3> QED
      BY <1>1, <2>3, <2>4, <2>5, <3>1 DEF NamesReady
  <2> QED
    BY <2>1, <2>6 DEF CompleteInv, PrivatesOK, PrivatesApart, Leaves
<1> QED
  BY <1>3, <1>4, <1>5, <1>6, <1>7, <1>8, <1>9, <1>10, <1>11, <1>12, <1>13, <1>15, <1>16, <1>17,
     <1>18 DEF RegNext, RegStep

-----------------------------------------------------------------------------
(* What is on the disk. *)

\* p has flushed the directory since its change of the name, or since it found
\* the name absent.
Synced(p) == \/ rop[p] \in Durable /\ rpc[p] = "return"
             \/ rop[p] = "unlink" /\ rpc[p] = "close"

IndexOK(p) == rindex[p] <= Len(history) /\ (Synced(p) => rindex[p] <= onDisk)

DurableInv == /\ 1 <= onDisk /\ onDisk <= Len(history) /\ promised <= onDisk
              /\ \A p \in Writers : IndexOK(p)

\* The disk holds no less of the history after a step, and the name no less.
DiskGrows == /\ Len(history') \in Nat /\ Len(history') >= Len(history)
             /\ onDisk' \in Nat /\ onDisk' >= onDisk /\ onDisk' <= Len(history')
Unrelated(p) == \A q \in Writers \ {p} : /\ rpc'[q] = rpc[q] /\ rop'[q] = rop[q]
                                         /\ rindex'[q] = rindex[q]
SoundIndex(p) == IndexOK(p)'

LEMMA DurableKeptBy ==
  ASSUME RegTypeOK, DurableInv, NEW p \in Writers, DiskGrows, Unrelated(p), SoundIndex(p),
         UNCHANGED promised
  PROVE  DurableInv'
<1>1. /\ Len(history) \in Nat /\ onDisk \in Nat /\ promised \in Nat
      /\ \A q \in Writers : rindex[q] \in Nat
  BY DEF RegTypeOK, RegFilesOK, RegProcsOK
<1>2. ASSUME NEW q \in Writers \ {p}
      PROVE  IndexOK(q)'
  BY <1>1 DEF DurableInv, Unrelated, IndexOK, Synced, DiskGrows
<1> QED
  BY <1>1, <1>2 DEF DurableInv, DiskGrows, SoundIndex

\* A step that neither changes the name nor flushes the directory, and ends nothing.
LEMMA DurableIdle ==
  ASSUME RegTypeOK, DurableInv, NEW p \in Writers, UNCHANGED <<history, onDisk, promised, rindex>>,
         Unrelated(p), rpc'[p] \notin {"return", "close"}
  PROVE  DurableInv'
<1>1. /\ Len(history) \in Nat /\ onDisk \in Nat
      /\ \A q \in Writers : rindex[q] \in Nat
  BY DEF RegTypeOK, RegFilesOK, RegProcsOK
<1>2. DiskGrows /\ SoundIndex(p)
  BY <1>1 DEF DiskGrows, SoundIndex, IndexOK, Synced, DurableInv
<1> QED
  BY <1>2, DurableKeptBy

LEMMA DurableStep ==
  ASSUME RegTypeOK, RegTypeOK', DurableInv, RegNext
  PROVE  DurableInv'
<1>1. /\ Len(history) \in Nat /\ onDisk \in Nat /\ promised \in Nat
      /\ rpc \in [Writers -> RegPlaces] /\ rop \in [Writers -> Operations \cup {"none"}]
      /\ rindex \in [Writers -> Nat] /\ history \in Seq(Nat)
  BY DEF RegTypeOK, RegFilesOK, RegProcsOK
<1>0. \A p \in Writers : rindex[p] \in Nat
  BY <1>1
<1>2. ASSUME NEW p \in Writers, RegStart(p)
      PROVE  DurableInv'
  <2>1. PICK op \in Contracts : rop' = [rop EXCEPT ![p] = op] /\ RegGoes(p, PathOf[op].start)
    BY <1>2 DEF RegStart
  <2>2. rpc'[p] \in {"allocate", "open"}
    <3>1. op \in Creating \cup {"read", "unlink"}
      BY <2>1, RegularAssumption DEF RegularAssumption, PathOf, Creating
    <3> QED
      BY <1>1, <2>1, <3>1, Starts DEF RegGoes
  <2>3. UNCHANGED <<history, onDisk, promised, rindex>> /\ Unrelated(p)
    BY <1>1, <1>2, <2>1 DEF RegStart, fileVars, RegGoes, Unrelated
  <2> QED
    BY <2>2, <2>3, DurableIdle
\* Steps of a private file.
<1>3. ASSUME NEW p \in Writers,
             Allocate(p) \/ WriteAll(p) \/ FsyncFile(p) \/ UnlinkTemporary(p) \/ CloseFile(p)
             \/ ValidateDestination(p) \/ StatEntry(p) \/ ReadAll(p)
      PROVE  DurableInv'
  <2>1. /\ UNCHANGED <<history, onDisk, promised, rindex, rop>>
        /\ Advance(p) \/ RegGoes(p, "discard")
        /\ rpc[p] \in {"allocate", "write", "flush", "drop", "close", "check", "stat", "read"}
    BY <1>3 DEF Allocate, WriteAll, FsyncFile, UnlinkTemporary, CloseFile, ValidateDestination,
                StatEntry, ReadAll, At, fileVars
  <2>2. PICK place : rpc' = [rpc EXCEPT ![p] = place]
    BY <2>1 DEF RegGoes, Advance
  <2>3. Synced(p)' => Synced(p)
    <3> SUFFICES ASSUME Synced(p)'
                 PROVE  Synced(p)
      OBVIOUS
    <3>1. rpc'[p] \in {"return", "close"} /\ rop'[p] = rop[p]
      BY <2>1 DEF Synced
    <3>2. Advance(p)
      BY <1>1, <2>1, <3>1 DEF RegGoes
    <3>3. Onward(p, PathOf[rop[p]][rpc[p]]) /\ OnRoute(rop[p], rpc[p])
      BY <2>1, <3>2, Advancing DEF RegTypeOK, RegProcsOK
    <3>4. rpc'[p] = PathOf[rop[p]][rpc[p]]
      BY <1>1, <3>3 DEF Onward
    <3>5. CASE rpc[p] \in {"allocate", "write", "flush", "check", "stat", "read"}
      BY <3>1, <3>3, <3>4, <3>5 DEF Onward, OnRoute, Synced, Durable
    <3>6. CASE rpc[p] = "drop"
      BY <3>1, <3>3, <3>4, <3>6 DEF Onward, OnRoute, Synced, Durable
    <3>7. CASE rpc[p] = "close"
      BY <3>1, <3>3, <3>4, <3>7 DEF Onward, OnRoute, Synced, Durable
    <3> QED
      BY <2>1, <3>5, <3>6, <3>7
  <2>4. DiskGrows /\ Unrelated(p) /\ SoundIndex(p)
    BY <1>1, <2>1, <2>2, <2>3 DEF DiskGrows, Unrelated, SoundIndex, IndexOK, DurableInv
  <2> QED
    BY <2>1, <2>4, DurableKeptBy
\* The name changes: it is not on the disk yet.
<1>4. ASSUME NEW p \in Writers, LinkNoClobber(p) \/ RenameBasename(p) \/ UnlinkBasename(p)
      PROVE  DurableInv'
  <2>1. /\ UNCHANGED <<onDisk, promised, rop>> /\ Advance(p)
        /\ rpc[p] \in {"link", "rename", "remove"}
        /\ \E i : Renamed(p, i)
    BY <1>4 DEF LinkNoClobber, RenameBasename, UnlinkBasename, At
  <2>2. PICK place \in {"drop", "sync"} : rpc' = [rpc EXCEPT ![p] = place]
    BY <2>1, Advancing DEF RegTypeOK, Onward
  <2>3. /\ Len(history') = Len(history) + 1
        /\ rindex' = [rindex EXCEPT ![p] = Len(history) + 1]
    BY <1>1, <2>1 DEF Renamed
  <2>4. DiskGrows /\ Unrelated(p) /\ SoundIndex(p)
    BY <1>1, <2>1, <2>2, <2>3 DEF DiskGrows, Unrelated, SoundIndex, IndexOK, Synced, DurableInv
  <2> QED
    BY <2>1, <2>4, DurableKeptBy
\* The directory is flushed.
<1>5. ASSUME NEW p \in Writers, FsyncDirectory(p) \/ SyncAbsent(p)
      PROVE  DurableInv'
  <2>1. /\ UNCHANGED <<history, promised, rop, rindex>> /\ onDisk' = Len(history)
        /\ \E place : rpc' = [rpc EXCEPT ![p] = place]
    BY <1>5 DEF FsyncDirectory, SyncAbsent, Advance, RegGoes
  <2>2. DiskGrows /\ Unrelated(p) /\ SoundIndex(p)
    BY <1>1, <2>1 DEF DiskGrows, Unrelated, SoundIndex, IndexOK, DurableInv
  <2> QED
    BY <2>1, <2>2, DurableKeptBy
<1>6. ASSUME NEW p \in Writers, OpenEntry(p)
      PROVE  DurableInv'
  <2>1. /\ UNCHANGED <<history, onDisk, promised, rop>> /\ rpc[p] = "open"
        /\ Advance(p) \/ AbsentEntry(p) \/ RegGoes(p, "discard")
        /\ rindex' = rindex \/ rindex' = [rindex EXCEPT ![p] = Len(history)]
    BY <1>6 DEF OpenEntry, At, fileVars
  <2>2. \E place \in {"stat", "sync absent", "discard"} : rpc' = [rpc EXCEPT ![p] = place]
    BY <2>1, Advancing DEF RegTypeOK, Onward, AbsentEntry, RegGoes
  <2>3. rindex'[p] <= Len(history)
    <3>1. rindex[p] <= Len(history)
      BY DEF DurableInv, IndexOK
    <3>2. CASE rindex' = rindex
      BY <3>1, <3>2
    <3>3. CASE rindex' = [rindex EXCEPT ![p] = Len(history)]
      BY <1>1, <3>3
    <3> QED
      BY <2>1, <3>2, <3>3
  <2>4. rpc'[p] \notin {"return", "close"}
    BY <1>1, <2>2
  <2>5. SoundIndex(p)
    BY <2>1, <2>3, <2>4 DEF SoundIndex, IndexOK, Synced
  <2>7. DiskGrows
    <3>1. history' = history /\ onDisk' = onDisk /\ Len(history) \in Nat /\ onDisk \in Nat
      BY <1>1, <2>1
    <3> QED
      BY <3>1 DEF DiskGrows, DurableInv
  <2>6. Unrelated(p)
    BY <1>1, <2>1, <2>2 DEF Unrelated
  <2> QED
    BY <2>1, <2>5, <2>6, <2>7, DurableKeptBy
<1>7. ASSUME NEW p \in Writers, RegFails(p) \/ AllocationLost(p)
      PROVE  DurableInv'
  <2>1. /\ UNCHANGED <<history, onDisk, promised, rop, rindex>>
        /\ rpc' = [rpc EXCEPT ![p] = "discard"]
    BY <1>7 DEF RegFails, AllocationLost, RegGoes, fileVars
  <2> QED
    BY <1>1, <2>1, DurableIdle DEF Unrelated
<1>8. ASSUME NEW p \in Writers, Over(p)
      PROVE  Unrelated(p) /\ rindex'[p] = 0 /\ rpc'[p] = "idle"
  BY <1>1, <1>8 DEF Over, Unrelated
<1>9. ASSUME NEW p \in Writers, Discard(p) \/ RegKilled(p)
      PROVE  DurableInv'
  <2>1. UNCHANGED <<history, onDisk, promised>> /\ Over(p)
    BY <1>9 DEF Discard, RegKilled, fileVars
  <2>2. DiskGrows /\ SoundIndex(p)
    BY <1>1, <1>8, <2>1 DEF DiskGrows, SoundIndex, IndexOK, DurableInv
  <2> QED
    BY <1>8, <2>1, <2>2, DurableKeptBy
\* What is promised now was synced.
<1>10. ASSUME NEW p \in Writers, RegReturn(p)
       PROVE  DurableInv'
  <2>1. /\ UNCHANGED <<history, onDisk>> /\ Over(p)
        /\ promised' = promised \/ (Synced(p) /\ promised' = rindex[p])
    <3>1. CASE rop[p] \in Durable /\ rindex[p] > promised
      BY <1>10, <3>1 DEF RegReturn, At, Synced, Durable
    <3>2. CASE ~ (rop[p] \in Durable /\ rindex[p] > promised)
      BY <1>10, <3>2 DEF RegReturn, Durable
    <3> QED
      BY <3>1, <3>2
  <2>2. promised' <= onDisk
    BY <2>1 DEF DurableInv, IndexOK
  <2>3. ASSUME NEW q \in Writers
        PROVE  IndexOK(q)'
    BY <1>1, <1>8, <2>1 DEF DurableInv, IndexOK, Synced, Unrelated
  <2> QED
    BY <2>1, <2>2, <2>3 DEF DurableInv
<1>11. CASE PowerLoss
  <2>1. PICK k \in onDisk..Len(history) : history' = SubSeq(history, 1, k) /\ onDisk' = k
    BY <1>11 DEF PowerLoss
  <2>2. Len(history') = k
    BY <1>1, <2>1 DEF DurableInv
  <2>3. \A p \in Writers : rindex'[p] = 0
    BY <1>11 DEF PowerLoss, None
  <2> QED
    <3>1. promised' = promised
      BY <1>11 DEF PowerLoss
    <3>2. \A p \in Writers : IndexOK(p)'
      BY <1>1, <2>1, <2>2, <2>3 DEF DurableInv, IndexOK
    <3> QED
      BY <1>1, <2>1, <2>2, <3>1, <3>2 DEF DurableInv
<1> QED
  BY <1>2, <1>3, <1>4, <1>5, <1>6, <1>7, <1>9, <1>10, <1>11 DEF RegNext, RegStep

-----------------------------------------------------------------------------
LEMMA RegFilesStep ==
  ASSUME RegTypeOK, CompleteInv, DurableInv, RegNext
  PROVE  RegFilesOK'
<1>1. /\ Len(history) \in Nat /\ onDisk \in Nat /\ promised \in Nat /\ Standing \in Nat
      /\ history \in Seq(Nat) /\ regFiles \in Seq(AnyFile) /\ Len(history) > 0
      /\ \A p \in Writers : rindex[p] \in Nat /\ rtemp[p] \in Nat
  BY DEF RegTypeOK, RegFilesOK, RegProcsOK, Standing, Last
<1>2. ASSUME regFiles' \in Seq(AnyFile), history' = history, promised' = promised,
             onDisk' \in {onDisk, Len(history)}
      PROVE  RegFilesOK'
  BY <1>1, <1>2 DEF RegTypeOK, RegFilesOK
<1>3. ASSUME NEW p \in Writers, Allocate(p) \/ AllocationLost(p)
      PROVE  RegFilesOK'
  <2>1. regFiles' \in Seq(AnyFile)
    BY <1>3, FileMade DEF Allocate, AllocationLost, RegTypeOK
  <2> QED
    BY <1>2, <1>3, <2>1 DEF Allocate, AllocationLost
<1>4. ASSUME NEW p \in Writers, WriteAll(p) \/ FsyncFile(p)
      PROVE  RegFilesOK'
  <2>1. PICK c \in Contents : regFiles' = [regFiles EXCEPT ![rfd[p]].contents = c]
    BY <1>4 DEF WriteAll, FsyncFile, Contents
  <2>2. rfd[p] \in 1..Len(regFiles)
    BY <1>4 DEF WriteAll, FsyncFile, At, CompleteInv, PrivatesOK, Private, PrivateOK
  <2>3. regFiles' \in Seq(AnyFile)
    BY <2>1, <2>2, FileWritten DEF RegTypeOK
  <2> QED
    BY <1>2, <1>4, <2>3 DEF WriteAll, FsyncFile
<1>5. ASSUME NEW p \in Writers, UnlinkTemporary(p) \/ Discard(p)
      PROVE  RegFilesOK'
  <2>1. regFiles' \in {regFiles, Unlinked(rtemp[p])}
    BY <1>5 DEF UnlinkTemporary, Discard
  <2>2. regFiles' \in Seq(AnyFile)
    BY <1>1, <2>1, UnlinkedSame DEF SameFiles, RegTypeOK
  <2> QED
    BY <1>2, <1>5, <2>2 DEF UnlinkTemporary, Discard
<1>6. ASSUME NEW p \in Writers, LinkNoClobber(p) \/ RenameBasename(p) \/ UnlinkBasename(p)
      PROVE  RegFilesOK'
  <2>1. /\ UNCHANGED <<onDisk, promised>>
        /\ history' = Append(history, rtemp[p]) \/ history' = Append(history, 0)
    BY <1>6 DEF LinkNoClobber, RenameBasename, UnlinkBasename, Renamed
  <2>2. history' \in Seq(Nat) /\ history' # <<>>
    <3>1. PICK i \in Nat : history' = Append(history, i)
      BY <1>1, <2>1
    <3> QED
      BY <1>1, <3>1
  <2>3. regFiles' \in Seq(AnyFile)
    <3>1. CASE LinkNoClobber(p)
      <4>1. rtemp[p] \in 1..Len(regFiles)
        BY <3>1 DEF LinkNoClobber, At, CompleteInv, PrivatesOK, Private, PrivateOK
      <4>2. regFiles[rtemp[p]] \in AnyFile
        BY <1>1, <4>1
      <4>3. regFiles[rtemp[p]].links + 1 \in Int
        BY <4>2 DEF AnyFile
      <4>4. regFiles' = [regFiles EXCEPT ![rtemp[p]].links = regFiles[rtemp[p]].links + 1]
        BY <3>1 DEF LinkNoClobber
      <4> QED
        BY <1>1, <4>3, <4>4, LinksOnly DEF SameFiles, RegTypeOK
    <3>2. CASE regFiles' = Unlinked(Standing)
      BY <1>1, <3>2, UnlinkedSame DEF SameFiles, RegTypeOK
    <3> QED
      BY <1>6, <3>1, <3>2 DEF RenameBasename, UnlinkBasename
  <2> QED
    BY <1>1, <2>1, <2>2, <2>3 DEF RegFilesOK
<1>7. ASSUME NEW p \in Writers,
             RegStart(p) \/ CloseFile(p) \/ ValidateDestination(p) \/ OpenEntry(p) \/ StatEntry(p)
             \/ ReadAll(p) \/ RegFails(p) \/ RegKilled(p)
      PROVE  RegFilesOK'
  BY <1>1, <1>2, <1>7 DEF RegStart, CloseFile, ValidateDestination, OpenEntry, StatEntry, ReadAll,
     RegFails, RegKilled, fileVars
<1>8. ASSUME NEW p \in Writers, FsyncDirectory(p) \/ SyncAbsent(p)
      PROVE  RegFilesOK'
  BY <1>1, <1>2, <1>8 DEF FsyncDirectory, SyncAbsent
<1>9. ASSUME NEW p \in Writers, RegReturn(p)
      PROVE  RegFilesOK'
  BY <1>1, <1>9 DEF RegReturn, RegTypeOK, RegFilesOK
<1>10. CASE PowerLoss
  <2>1. PICK k \in onDisk..Len(history) : history' = SubSeq(history, 1, k) /\ onDisk' = k
    BY <1>10 DEF PowerLoss
  <2>2. k \in Nat /\ k > 0 /\ k <= Len(history)
    BY <1>1, <2>1 DEF DurableInv
  <2>3. history' \in Seq(Nat) /\ Len(history') = k
    BY <1>1, <2>1, <2>2
  <2>4. regFiles' \in Seq(AnyFile)
    BY <1>10, PowerFiles DEF RegTypeOK
  <2> QED
    <3>1. promised' = promised
      BY <1>10 DEF PowerLoss
    <3>2. history' # <<>>
      BY <2>2, <2>3
    <3> QED
      BY <1>1, <2>1, <2>2, <2>3, <2>4, <3>1, <3>2 DEF RegFilesOK
<1> QED
  BY <1>3, <1>4, <1>5, <1>6, <1>7, <1>8, <1>9, <1>10 DEF RegNext, RegStep

-----------------------------------------------------------------------------
(* The theorem. *)

RegInv == RegTypeOK /\ CompleteInv /\ DurableInv

LEMMA RegInvInit ==
  ASSUME RegInit
  PROVE  RegInv
<1>1. RegProcsOK
  BY DEF RegInit, RegProcsOK, None, OnRoute, RegPlaces
<1>2. \A p \in Writers : ~ Private(p) /\ ~ Synced(p) /\ rindex[p] = 0
  BY DEF RegInit, Private, Synced, None, Durable
<1>3. CASE regFiles = <<>> /\ history = <<0>>
  BY <1>1, <1>2, <1>3 DEF RegInit, RegInv, RegTypeOK, RegFilesOK, CompleteInv, NamesReady,
     PrivatesOK, PrivatesApart, Names, DurableInv, IndexOK
<1>4. ASSUME NEW s \in BOOLEAN, NEW n \in {1, 2}, history = << 1 >>,
             regFiles = <<[contents |-> "flushed", safe |-> s, links |-> n, atomic |-> FALSE]>>
      PROVE  RegInv
  <2>1. [contents |-> "flushed", safe |-> s, links |-> n, atomic |-> FALSE] \in AnyFile
    BY DEF AnyFile, Contents
  <2>2. RegFilesOK
    BY <1>4, <2>1 DEF RegInit, RegFilesOK
  <2>3. NamesReady
    BY <1>4 DEF NamesReady, Names, Ready
  <2> QED
    BY <1>1, <1>2, <1>4, <2>2, <2>3 DEF RegInit, RegInv, RegTypeOK, CompleteInv, PrivatesOK,
       PrivatesApart, DurableInv, IndexOK
<1> QED
  BY <1>3, <1>4 DEF RegInit

LEMMA RegInvStep ==
  ASSUME RegInv, [RegNext]_regVars
  PROVE  RegInv'
<1>1. CASE RegNext
  <2>1. RegProcsOK'
    BY <1>1, RegProcsStep, RegularAssumption DEF RegInv
  <2>2. RegFilesOK'
    BY <1>1, RegFilesStep DEF RegInv
  <2>3. RegTypeOK'
    BY <2>1, <2>2 DEF RegTypeOK
  <2>4. CompleteInv'
    BY <1>1, <2>3, CompleteStep DEF RegInv
  <2>5. DurableInv'
    BY <1>1, <2>3, DurableStep DEF RegInv
  <2> QED
    BY <2>3, <2>4, <2>5 DEF RegInv
<1>2. CASE UNCHANGED regVars
  BY <1>2 DEF RegInv, RegTypeOK, RegProcsOK, RegFilesOK, CompleteInv, NamesReady, PrivatesOK,
     PrivatesApart, Private, PrivateOK, Names, Ready, DurableInv, IndexOK, Synced, regVars
<1> QED
  BY <1>1, <1>2

\* regular.py's promise, for any number of processes, files and changes of the
\* name: whatever the name stands for, now or after a power loss, was written to
\* the end and flushed if it is durable, and no power loss takes back what a
\* durable contract returned.
THEOREM DurableFilesSound == RegSpec => []RegularSound
<1>1. RegInit => RegInv
  BY RegInvInit
<1>2. RegInv /\ [RegNext]_regVars => RegInv'
  BY RegInvStep
<1>3. RegInv => RegularSound
  <2> SUFFICES ASSUME RegInv
               PROVE  RegularSound
    OBVIOUS
  <2>1. EntryComplete
    <3> SUFFICES ASSUME NEW k \in onDisk..Len(history), history[k] # 0
                 PROVE  /\ regFiles[history[k]].contents # "empty"
                        /\ ~ regFiles[history[k]].atomic =>
                             regFiles[history[k]].contents = "flushed"
      BY DEF EntryComplete
    <3>1. k \in 1..Len(history)
      BY DEF RegInv, DurableInv, RegTypeOK, RegFilesOK
    <3> QED
      BY <3>1 DEF RegInv, CompleteInv, NamesReady, Names, Ready
  <2>2. DurableKept
    BY DEF RegInv, DurableInv, DurableKept
  <2> QED
    BY <2>1, <2>2 DEF RegularSound
<1> QED
  BY <1>1, <1>2, <1>3, PTL DEF RegSpec
=============================================================================
