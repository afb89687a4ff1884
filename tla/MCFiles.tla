------------------------------- MODULE MCFiles -------------------------------
(* Instances of the modules about files and directories.  They share no      *)
(* variable: "part" is the one whose actions are taken, the others stay as   *)
(* they began.                                                               *)
EXTENDS FileLock, RegularFile, SecureDirectory, CachedContent,
        EnvironmentPublication, PrivateTree, TLC

CONSTANTS a, b, p1, p2

VARIABLE part

Parts == {"lock", "regular", "directory", "artifact", "response", "environment", "tree"}
At1(name, v, first) == part # name => v = first

FirstLockFiles == {[kind |-> k, access |-> "exact", links |-> 1] : k \in {"regular", "other"}}
AllContracts == DOMAIN PathOf
PreparedBeneath == <<"versioning">>
NamespaceChildren == <<"evidence">>

FilesInit ==
  /\ part \in Parts
  /\ LockInit /\ At1("lock", lockEntry, 0)
  /\ RegInit /\ At1("regular", regFiles, <<>>)
  /\ DirInit
  /\ ArtifactInit /\ At1("artifact", blob, "absent")
  /\ CacheInit
  /\ EnvInit
  /\ TreeInit /\ At1("tree", <<tree["root"], metadata>>, <<"absent", "none">>)

FilesNext ==
  \/ part = "lock" /\ LockNext
     /\ UNCHANGED <<part, regVars, dirVars, artifactVars, cacheVars, envVars, treeVars>>
  \/ part = "regular" /\ RegNext
     /\ UNCHANGED <<part, lockVars, dirVars, artifactVars, cacheVars, envVars, treeVars>>
  \/ part = "directory" /\ DirNext
     /\ UNCHANGED <<part, lockVars, regVars, artifactVars, cacheVars, envVars, treeVars>>
  \/ part = "artifact" /\ ArtifactNext
     /\ UNCHANGED <<part, lockVars, regVars, dirVars, cacheVars, envVars, treeVars>>
  \/ part = "response" /\ CacheNext
     /\ UNCHANGED <<part, lockVars, regVars, dirVars, artifactVars, envVars, treeVars>>
  \/ part = "environment" /\ EnvNext
     /\ UNCHANGED <<part, lockVars, regVars, dirVars, artifactVars, cacheVars, treeVars>>
  \/ part = "tree" /\ TreeNext
     /\ UNCHANGED <<part, lockVars, regVars, dirVars, artifactVars, cacheVars, envVars>>

filesVars == <<part, lockVars, regVars, dirVars, artifactVars, cacheVars, envVars, treeVars>>
FilesSpec == FilesInit /\ [][FilesNext]_filesVars

FilesSymmetry == Permutations({p1, p2})
=============================================================================
