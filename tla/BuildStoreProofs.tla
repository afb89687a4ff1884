-------------------------- MODULE BuildStoreProofs --------------------------
(***************************************************************************)
(* Proofs about the build store, for any number of builds, blobs and       *)
(* generations.                                                            *)
(***************************************************************************)
EXTENDS BuildStore, TLAPS

USE DEF Gens, BlobStates, MarkerStates, Steps

\* Every step keeps every variable in its type.
LEMMA TypeStep == TypeOK /\ [Next]_vars => TypeOK'
<1> USE DEF At, Goto, Return, Fail, Recovered, Examined, SyncGenerations,
            locals, procs, gens, cache, vars, Settled, Spread, Without,
            WriteMarkers, WriteBlobs
<1> SUFFICES ASSUME TypeOK, [Next]_vars PROVE TypeOK'
  OBVIOUS
<1>1. ASSUME NEW p \in Builds, Acquire(p) PROVE TypeOK'
  BY <1>1, SelectionsAssumption DEF Acquire, TypeOK
<1>2. ASSUME NEW p \in Builds, Contend(p) PROVE TypeOK'
  BY <1>2 DEF Contend, TypeOK
<1>3. ASSUME NEW p \in Builds, Release(p) PROVE TypeOK'
  BY <1>3 DEF Release, TypeOK
<1>4. ASSUME NEW p \in Builds, Discover(p) PROVE TypeOK'
  BY <1>4 DEF Discover, TypeOK
<1>5. ASSUME NEW p \in Builds, NEW gone \in SUBSET Blobs, NEW synced \in BOOLEAN,
             Reconcile(p, gone, synced)
      PROVE TypeOK'
  BY <1>5 DEF Reconcile, TypeOK
<1>6. ASSUME NEW p \in Builds, NEW gb \in SUBSET Blobs, NEW gm \in SUBSET Blobs, NEW sb \in BOOLEAN, NEW sm \in BOOLEAN,
             CleanSuperseded(p, gb, gm, sb, sm)
      PROVE TypeOK'
  BY <1>6 DEF CleanSuperseded, TypeOK
<1>7. ASSUME NEW p \in Builds, NEW synced \in BOOLEAN,
             Retire(p, synced)
      PROVE TypeOK'
  BY <1>7 DEF Retire, TypeOK
<1>8. ASSUME NEW p \in Builds, NEW left \in SUBSET Blobs,
             RecoverSnapshots(p, left)
      PROVE TypeOK'
  BY <1>8 DEF RecoverSnapshots, TypeOK
<1>9. ASSUME NEW p \in Builds, Maintain(p) PROVE TypeOK'
  BY <1>9 DEF Maintain, TypeOK
<1>11. ASSUME NEW p \in Builds, NEW b \in Blobs, NEW u \in BOOLEAN, NEW bd \in BOOLEAN, NEW mg \in BOOLEAN, NEW md \in BOOLEAN,
             Evict(p, b, u, bd, mg, md)
      PROVE TypeOK'
  BY <1>11 DEF Evict, TypeOK
<1>12. ASSUME NEW p \in Builds, NEW b \in Blobs,
             RefuseUnsafe(p, b)
      PROVE TypeOK'
  BY <1>12 DEF RefuseUnsafe, TypeOK
<1>13. ASSUME NEW p \in Builds, NEW b \in Blobs, Retain(p, b) PROVE TypeOK'
  BY <1>13 DEF Retain, TypeOK
<1>14. ASSUME NEW p \in Builds, StartWork(p) PROVE TypeOK'
  BY <1>14 DEF StartWork, TypeOK
<1>15. ASSUME NEW p \in Builds, NEW b \in Blobs, Hit(p, b) PROVE TypeOK'
  BY <1>15 DEF Hit, TypeOK
<1>16. ASSUME NEW p \in Builds, NEW b \in Blobs,
             RefuseCorrupt(p, b)
      PROVE TypeOK'
  BY <1>16 DEF RefuseCorrupt, TypeOK
<1>17. ASSUME NEW p \in Builds, NEW b \in Blobs,
             PublishBlob(p, b)
      PROVE TypeOK'
  BY <1>17 DEF PublishBlob, TypeOK
<1>18. ASSUME NEW p \in Builds, Mark(p) PROVE TypeOK'
  BY <1>18 DEF Mark, TypeOK
<1>19. ASSUME NEW p \in Builds, NEW renamed \in BOOLEAN, NEW unlinked \in BOOLEAN,
             FailMark(p, renamed, unlinked)
      PROVE TypeOK'
  BY <1>19 DEF FailMark, TypeOK
<1>20. ASSUME NEW p \in Builds, FinishMaterialize(p) PROVE TypeOK'
  BY <1>20 DEF FinishMaterialize, TypeOK
<1>21. ASSUME NEW p \in Builds, NEW blobs \in SUBSET Blobs,
             CreateSnapshot(p, blobs)
      PROVE TypeOK'
  BY <1>21 DEF CreateSnapshot, TypeOK
<1>22. ASSUME NEW p \in Builds, NEW blobs \in SUBSET Blobs,
             FailSnapshot(p, blobs)
      PROVE TypeOK'
  BY <1>22 DEF FailSnapshot, TypeOK
<1>23. ASSUME NEW p \in Builds, NEW blobs \in SUBSET Blobs,
             FinishSnapshot(p, blobs)
      PROVE TypeOK'
  BY <1>23 DEF FinishSnapshot, TypeOK
<1>24. ASSUME NEW p \in Builds, NEW blobs \in SUBSET Blobs,
             Abort(p, blobs)
      PROVE TypeOK'
  BY <1>24 DEF Abort, TypeOK
<1>25. ASSUME NEW p \in Builds, DockerSucceeds(p) PROVE TypeOK'
  BY <1>25 DEF DockerSucceeds, TypeOK
<1>26. ASSUME NEW p \in Builds, DockerFails(p) PROVE TypeOK'
  BY <1>26 DEF DockerFails, TypeOK
<1>27. ASSUME NEW p \in Builds, Verify(p) PROVE TypeOK'
  BY <1>27 DEF Verify, TypeOK
<1>28. ASSUME NEW p \in Builds, Publish(p) PROVE TypeOK'
  <2>1. ASSUME NEW n \in Gens, vis' = [vis EXCEPT ![n] = sel[p]],
               twin' = twin \cup {n}
        PROVE vis' \in [Gens -> {NoManifest} \cup SUBSET Blobs]
              /\ twin' \in SUBSET Gens
    BY <2>1 DEF TypeOK
  <2>2. vis' \in [Gens -> {NoManifest} \cup SUBSET Blobs] /\ twin' \in SUBSET Gens
    BY <1>28, <2>1 DEF Publish, TypeOK
  <2>3. dur' \in [Gens -> {NoManifest} \cup SUBSET Blobs]
    BY <1>28 DEF Publish, TypeOK
  <2>4. /\ pc' \in [Builds -> Steps]
        /\ outcome' \in [Builds -> {"none", "success", "failed", "committed"}]
    BY <1>28 DEF Publish, TypeOK
  <2> QED
    BY <1>28, <2>2, <2>3, <2>4 DEF Publish, TypeOK
<1>29. ASSUME NEW p \in Builds, Untwin(p) PROVE TypeOK'
  BY <1>29 DEF Untwin, TypeOK
<1>30. ASSUME NEW p \in Builds, NEW discarded \in BOOLEAN,
             FailUntwin(p, discarded)
      PROVE TypeOK'
  BY <1>30 DEF FailUntwin, TypeOK
<1>31. ASSUME NEW p \in Builds, SyncPublication(p) PROVE TypeOK'
  BY <1>31 DEF SyncPublication, TypeOK
<1>32. ASSUME NEW p \in Builds, Fault(p) PROVE TypeOK'
  BY <1>32 DEF Fault, TypeOK
<1>33. ASSUME NEW p \in Builds, Kill(p) PROVE TypeOK'
  BY <1>33 DEF Kill, ResetBuild, TypeOK
<1>34. ASSUME TimePasses PROVE TypeOK'
  BY <1>34 DEF TimePasses, Aged, TypeOK
<1>35. ASSUME PowerLoss PROVE TypeOK'
  <2>1. vis' \in [Gens -> {NoManifest} \cup SUBSET Blobs]
    BY <1>35 DEF PowerLoss, TypeOK
  <2>2. dur' \in [Gens -> {NoManifest} \cup SUBSET Blobs]
    BY <1>35, <2>1 DEF PowerLoss
  <2>3. twin' \in SUBSET Gens
    BY <1>35 DEF PowerLoss, TypeOK
  <2>4. blob' \in [Blobs -> BlobStates] /\ marker' \in [Blobs -> MarkerStates]
    BY <1>35 DEF PowerLoss
  <2>5. /\ blobDisk' \in [Blobs -> SUBSET BlobStates]
        /\ markerDisk' \in [Blobs -> SUBSET MarkerStates]
    BY <1>35, <2>4 DEF PowerLoss
  <2>6. /\ lock' \in Builds \cup {NoBuild}
        /\ pc' \in [Builds -> Steps]
        /\ phase' \in [Builds -> {"recover", "commit"}]
        /\ sel' \in [Builds -> SUBSET Blobs]
        /\ todo' \in [Builds -> SUBSET Blobs]
        /\ cur' \in [Builds -> SUBSET Blobs]
        /\ outcome' \in [Builds -> {"none", "success", "failed", "committed"}]
        /\ snap' \in SUBSET Blobs
    BY <1>35 DEF PowerLoss, TypeOK
  <2> QED
    BY <2>1, <2>2, <2>3, <2>4, <2>5, <2>6 DEF TypeOK
<1>36. ASSUME UNCHANGED vars PROVE TypeOK'
  BY <1>36 DEF TypeOK
<1> HIDE DEF At, Goto, Return, Fail, Recovered, Examined, SyncGenerations,
             locals, procs, gens, cache, Settled, Spread, Without,
             WriteMarkers, WriteBlobs
<1>37. ASSUME NEW p \in Builds, Recovery(p) PROVE TypeOK'
  BY <1>37, <1>4, <1>5, <1>6, <1>7, <1>8 DEF Recovery
<1>38. ASSUME NEW p \in Builds, Maintenance(p) PROVE TypeOK'
  BY <1>38, <1>9, <1>11, <1>12, <1>13, <1>14 DEF Maintenance
<1>39. ASSUME NEW p \in Builds, Materialization(p) PROVE TypeOK'
  BY <1>39, <1>15, <1>16, <1>17, <1>18, <1>19, <1>20 DEF Materialization
<1>40. ASSUME NEW p \in Builds, SnapshotAndDocker(p) PROVE TypeOK'
  BY <1>40, <1>21, <1>22, <1>23, <1>24, <1>25, <1>26 DEF SnapshotAndDocker
<1>41. ASSUME NEW p \in Builds, Commit(p) PROVE TypeOK'
  BY <1>41, <1>27, <1>28, <1>29, <1>30, <1>31 DEF Commit
<1>42. ASSUME NEW p \in Builds, Step(p) PROVE TypeOK'
  BY <1>42, <1>1, <1>2, <1>3, <1>32, <1>37, <1>38, <1>39, <1>40, <1>41 DEF Step
<1> QED
  BY <1>33, <1>34, <1>35, <1>36, <1>42 DEF Next, NextPowered

\* The type invariant holds for every number of builds, blobs and generations,
\* whatever fails, is killed or loses power.
THEOREM TypeCorrect == Spec => []TypeOK
<1>1. Init => TypeOK
  BY MaxGenAssumption DEF Init, TypeOK
<1> QED
  BY <1>1, TypeStep, PTL DEF Spec

-----------------------------------------------------------------------------
(* The lock.                                                               *)

\* What build p does while it runs: the lock and the other builds stay.
Works(p) ==
  Recovery(p) \/ Maintenance(p) \/ Materialization(p) \/ SnapshotAndDocker(p)
    \/ Commit(p) \/ Fault(p)

Moves(p) ==
  /\ pc[p] \in Steps \ {"idle", "release"}
  /\ lock' = lock
  /\ \A q \in Builds \ {p} : pc'[q] = pc[q]

\* A running build, whatever it does, moves alone.
LEMMA WorksMoves == ASSUME TypeOK, NEW p \in Builds, Works(p) PROVE Moves(p)
<1> USE DEF At, Goto, Return, Fail, Recovered, Examined, locals, procs, gens,
            cache, TypeOK, Moves
<1>1. ASSUME Recovery(p) PROVE Moves(p)
  BY <1>1 DEF Recovery, Discover, Reconcile, CleanSuperseded, Retire,
              RecoverSnapshots
<1>2. ASSUME Maintenance(p) PROVE Moves(p)
  <2>1. ASSUME Maintain(p) \/ StartWork(p) PROVE Moves(p)
    BY <2>1 DEF Maintain, StartWork
  <2>3. ASSUME NEW b \in Blobs, NEW u \in BOOLEAN, NEW bd \in BOOLEAN,
               NEW mg \in BOOLEAN, NEW md \in BOOLEAN, Evict(p, b, u, bd, mg, md)
        PROVE Moves(p)
    BY <2>3 DEF Evict
  <2>4. ASSUME NEW b \in Blobs, RefuseUnsafe(p, b) \/ Retain(p, b)
        PROVE Moves(p)
    BY <2>4 DEF RefuseUnsafe, Retain
  <2> QED
    BY <1>2, <2>1, <2>3, <2>4 DEF Maintenance
<1>3. ASSUME Materialization(p) PROVE Moves(p)
  <2>1. ASSUME NEW b \in Blobs,
               Hit(p, b) \/ RefuseCorrupt(p, b) \/ PublishBlob(p, b)
        PROVE Moves(p)
    BY <2>1 DEF Hit, RefuseCorrupt, PublishBlob
  <2>2. ASSUME NEW renamed \in BOOLEAN, NEW unlinked \in BOOLEAN,
               FailMark(p, renamed, unlinked)
        PROVE Moves(p)
    BY <2>2 DEF FailMark
  <2>3. ASSUME Mark(p) \/ FinishMaterialize(p) PROVE Moves(p)
    BY <2>3 DEF Mark, FinishMaterialize
  <2> QED
    BY <1>3, <2>1, <2>2, <2>3 DEF Materialization
<1>4. ASSUME SnapshotAndDocker(p) PROVE Moves(p)
  BY <1>4 DEF SnapshotAndDocker, CreateSnapshot, FailSnapshot, FinishSnapshot,
              Abort, DockerSucceeds, DockerFails
<1>5. ASSUME Commit(p) PROVE Moves(p)
  BY <1>5 DEF Commit, Verify, Publish, Untwin, FailUntwin, SyncPublication
<1>6. ASSUME Fault(p) PROVE Moves(p)
  BY <1>6 DEF Fault
<1> QED
  BY <1>1, <1>2, <1>3, <1>4, <1>5, <1>6, Works(p) DEF Works

\* A step of a build that runs keeps the lock until it releases it, and no
\* other build leaves "idle" meanwhile.
LEMMA LockStep == TypeOK /\ MutualExclusion /\ [Next]_vars => MutualExclusion'
<1> USE NoBuildAssumption DEF At, Goto, TypeOK, MutualExclusion
<1> SUFFICES ASSUME TypeOK, MutualExclusion, [Next]_vars PROVE MutualExclusion'
  OBVIOUS
<1>1. ASSUME NEW p \in Builds, Acquire(p) \/ Contend(p) \/ Release(p)
      PROVE MutualExclusion'
  BY <1>1 DEF Acquire, Contend, Release, locals
<1>2. ASSUME NEW p \in Builds, Works(p) PROVE MutualExclusion'
  BY <1>2, WorksMoves DEF Moves
<1>3. ASSUME NEW p \in Builds, Kill(p) PROVE MutualExclusion'
  BY <1>3 DEF Kill, ResetBuild
<1>4. ASSUME TimePasses \/ PowerLoss \/ UNCHANGED vars PROVE MutualExclusion'
  BY <1>4 DEF TimePasses, PowerLoss, procs, vars
<1> QED
  BY <1>1, <1>2, <1>3, <1>4 DEF Next, NextPowered, Step, Works

\* Builds of one project exclude each other, however many there are.
THEOREM MutualExclusionHolds == Spec => []MutualExclusion
<1>1. Init => MutualExclusion
  BY DEF Init, MutualExclusion, At
<1> QED
  BY <1>1, LockStep, TypeCorrect, PTL DEF Spec

-----------------------------------------------------------------------------
(* The generation directory.                                               *)

\* The steps that run on a synchronised generation directory, and of those
\* the ones that run after recovery and before the next commit.
SyncedSteps == Steps \ {"idle", "release", "discover", "untwin", "pubsync"}

WorkSteps == SyncedSteps \ {"reconcile", "clean", "retire"}

\* What a running build does to the generation directory, and where it is
\* before and after.
Keeps(p) ==
  /\ vis' = vis /\ dur' = dur
  /\ \/ twin' = twin
     \/ twin' = {} /\ At(p, "untwin")
  /\ pc'[p] = "pubsync" => twin' = {}
  /\ pc'[p] \in SyncedSteps => pc[p] \in SyncedSteps
  /\ pc'[p] \in WorkSteps => pc[p] \in WorkSteps \/ Superseded(vis) = {}

Synchronises(p) ==
  /\ vis' = vis /\ dur' = vis /\ twin' = twin
  /\ pc'[p] # "pubsync"
  /\ pc'[p] \in SyncedSteps => Readable \/ At(p, "pubsync")
  /\ pc'[p] \in WorkSteps => pc[p] \in WorkSteps \/ Present(vis) = {}

Publishes(p) ==
  /\ At(p, "publish") /\ pc'[p] = "untwin"
  /\ dur' = vis
  /\ \E n \in Gens :
       /\ Readable /\ Superseded(vis) = {} /\ IsNext(n)
       /\ vis' = [vis EXCEPT ![n] = sel[p]]
       /\ twin' = twin \cup {n}

Retires(p) ==
  /\ At(p, "retire")
  /\ vis' = [n \in Gens |-> IF n \in Superseded(vis) THEN NoManifest
                                                     ELSE vis[n]]
  /\ \/ dur' = vis' /\ pc'[p] \in {"snapshots", "release"}
     \/ dur' = dur /\ pc'[p] = "release"
  /\ twin' = twin

\* A running build changes the generations in one of these ways.
LEMMA WorksGenerations ==
  ASSUME TypeOK, NEW p \in Builds, Works(p)
  PROVE  Keeps(p) \/ Synchronises(p) \/ Publishes(p) \/ Retires(p)
<1> DEFINE G == Keeps(p) \/ Synchronises(p) \/ Publishes(p) \/ Retires(p)
<1> USE DEF At, Goto, Return, Fail, Recovered, gens, locals, SyncGenerations,
            SyncedSteps, WorkSteps
<1>1. ASSUME Recovery(p) PROVE G
  <2>1. ASSUME NEW synced \in BOOLEAN, Retire(p, synced) PROVE G
    BY <2>1 DEF Retire, Retires, TypeOK
  <2>2. ASSUME NEW gone \in SUBSET Blobs, NEW synced \in BOOLEAN,
               Reconcile(p, gone, synced)
        PROVE G
    BY <2>2 DEF Reconcile, Keeps, TypeOK
  <2>3. ASSUME NEW gb \in SUBSET Blobs, NEW gm \in SUBSET Blobs,
               NEW sb \in BOOLEAN, NEW sm \in BOOLEAN,
               CleanSuperseded(p, gb, gm, sb, sm)
        PROVE G
    BY <2>3 DEF CleanSuperseded, Keeps, TypeOK
  <2>4. ASSUME NEW left \in SUBSET Blobs, RecoverSnapshots(p, left) PROVE G
    BY <2>4 DEF RecoverSnapshots, Keeps, TypeOK
  <2>5. ASSUME Discover(p) PROVE G
    BY <2>5 DEF Discover, Keeps, Synchronises, TypeOK
  <2> QED
    BY <1>1, <2>1, <2>2, <2>3, <2>4, <2>5 DEF Recovery
<1>2. ASSUME Maintenance(p) PROVE G
  <2>1. ASSUME Maintain(p) PROVE G
    BY <2>1 DEF Maintain, Keeps, Synchronises, TypeOK
  <2>2. ASSUME StartWork(p) PROVE G
    BY <2>2 DEF StartWork, Keeps, TypeOK
  <2>4. ASSUME NEW b \in Blobs, NEW u \in BOOLEAN, NEW bd \in BOOLEAN,
               NEW mg \in BOOLEAN, NEW md \in BOOLEAN, Evict(p, b, u, bd, mg, md)
        PROVE G
    BY <2>4 DEF Evict, Examined, Keeps, TypeOK
  <2>5. ASSUME NEW b \in Blobs, RefuseUnsafe(p, b) \/ Retain(p, b) PROVE G
    BY <2>5 DEF RefuseUnsafe, Retain, Examined, Keeps, TypeOK
  <2> QED
    BY <1>2, <2>1, <2>2, <2>4, <2>5 DEF Maintenance
<1>3. ASSUME Materialization(p) PROVE G
  <2>1. ASSUME NEW b \in Blobs,
               Hit(p, b) \/ RefuseCorrupt(p, b) \/ PublishBlob(p, b)
        PROVE G
    BY <2>1 DEF Hit, RefuseCorrupt, PublishBlob, Examined, Keeps, TypeOK
  <2>2. ASSUME NEW renamed \in BOOLEAN, NEW unlinked \in BOOLEAN,
               FailMark(p, renamed, unlinked)
        PROVE G
    BY <2>2 DEF FailMark, Keeps, TypeOK
  <2>3. ASSUME Mark(p) \/ FinishMaterialize(p) PROVE G
    BY <2>3 DEF Mark, FinishMaterialize, Keeps, TypeOK
  <2> QED
    BY <1>3, <2>1, <2>2, <2>3 DEF Materialization
<1>4. ASSUME SnapshotAndDocker(p) PROVE G
  BY <1>4 DEF SnapshotAndDocker, CreateSnapshot, FailSnapshot, FinishSnapshot,
              Abort, DockerSucceeds, DockerFails, Keeps, TypeOK
<1>5. ASSUME Commit(p) PROVE G
  <2>1. ASSUME Publish(p) PROVE G
    BY <2>1 DEF Publish, Publishes, Keeps, TypeOK
  <2>2. ASSUME NEW discarded \in BOOLEAN, FailUntwin(p, discarded) PROVE G
    BY <2>2 DEF FailUntwin, Keeps, TypeOK
  <2>3. ASSUME Verify(p) \/ Untwin(p) PROVE G
    BY <2>3 DEF Verify, Untwin, Keeps, TypeOK
  <2>4. ASSUME SyncPublication(p) PROVE G
    BY <2>4 DEF SyncPublication, Synchronises, TypeOK
  <2> QED
    BY <1>5, <2>1, <2>2, <2>3, <2>4 DEF Commit
<1>6. ASSUME Fault(p) PROVE G
  BY <1>6 DEF Fault, Keeps, TypeOK
<1> QED
  BY <1>1, <1>2, <1>3, <1>4, <1>5, <1>6, Works(p) DEF Works

\* Every step preserves the unambiguity: a publication needs a directory of at
\* most one generation, synchronised first.
LEMMA GenerationsStep ==
  TypeOK /\ GenerationsUnambiguous /\ [Next]_vars => GenerationsUnambiguous'
<1> SUFFICES ASSUME TypeOK, GenerationsUnambiguous, [Next]_vars
             PROVE  GenerationsUnambiguous'
  OBVIOUS
<1> USE DEF GenerationsUnambiguous, Visible, Synced, Present
<1>1. ASSUME NEW p \in Builds, Publishes(p) PROVE GenerationsUnambiguous'
  <2>1. PICK n \in Gens : /\ Superseded(vis) = {} /\ IsNext(n)
                          /\ vis' = [vis EXCEPT ![n] = sel[p]] /\ dur' = vis
    BY <1>1 DEF Publishes
  <2>2. \A m \in Present(vis) : m < n /\ m = n - 1
    BY <2>1, MaxGenAssumption DEF IsNext, Superseded
  <2>3. Visible' \cup Synced' \subseteq Present(vis) \cup {n}
    BY <2>1 DEF TypeOK
  <2> QED
    BY <2>2, <2>3, MaxGenAssumption
<1>2. ASSUME NEW p \in Builds, Retires(p) PROVE GenerationsUnambiguous'
  BY <1>2 DEF Retires
<1>3. ASSUME PowerLoss PROVE GenerationsUnambiguous'
  BY <1>3 DEF PowerLoss
<1>4. ASSUME NEW p \in Builds, Works(p) PROVE GenerationsUnambiguous'
  BY <1>1, <1>2, <1>4, WorksGenerations DEF Keeps, Synchronises
<1>5. ASSUME NEW p \in Builds,
             Acquire(p) \/ Contend(p) \/ Release(p) \/ Kill(p)
      PROVE GenerationsUnambiguous'
  BY <1>5 DEF Acquire, Contend, Release, Kill, gens
<1>6. ASSUME TimePasses \/ UNCHANGED vars PROVE GenerationsUnambiguous'
  BY <1>6 DEF TimePasses, gens, vars
<1> QED
  BY <1>3, <1>4, <1>5, <1>6 DEF Next, NextPowered, Step, Works

\* No fault, kill or power loss ever makes the generation directory ambiguous,
\* for any number of generations.
THEOREM GenerationsStayUnambiguous == Spec => []GenerationsUnambiguous
<1>1. Init => GenerationsUnambiguous
  BY DEF Init, GenerationsUnambiguous, Visible, Synced, Present
<1>2. TypeOK /\ GenerationsUnambiguous /\ [Next]_vars => GenerationsUnambiguous'
  BY GenerationsStep
<1> QED
  BY <1>1, <1>2, TypeCorrect, PTL DEF Spec

\* What holds of the generations while a build runs: a manifest is never two
\* things, a private link belongs to a visible generation, a build past its
\* synchronisation sees what is on disk, and between recovery and the next
\* commit there is no predecessor.
GenerationsInv ==
  /\ \A n \in Visible \cap Synced : vis[n] = dur[n]
  /\ twin \subseteq Visible
  /\ \A p \in Builds :
       /\ pc[p] \in SyncedSteps => vis = dur /\ twin = {}
       /\ pc[p] = "pubsync" => twin = {}
       /\ pc[p] \in WorkSteps => Superseded(vis) = {}

\* Every step keeps GenerationsInv: the acting build is the only one awake.
LEMMA GenerationsInvStep ==
  TypeOK /\ MutualExclusion /\ GenerationsInv /\ [Next]_vars => GenerationsInv'
<1> SUFFICES ASSUME TypeOK, MutualExclusion, GenerationsInv, [Next]_vars
             PROVE  GenerationsInv'
  OBVIOUS
<1> USE DEF Visible, Synced, Present
<1>1. ASSUME NEW p \in Builds, Works(p) PROVE GenerationsInv'
  <2>1. Moves(p)
    BY <1>1, WorksMoves
  <2>2. \A q \in Builds \ {p} : pc[q] = "idle" /\ pc'[q] = "idle"
    BY <2>1, NoBuildAssumption DEF MutualExclusion, At, Moves
  <2>3. ASSUME Keeps(p) PROVE GenerationsInv'
    <3>1. /\ \A n \in Visible' \cap Synced' : vis'[n] = dur'[n]
          /\ twin' \subseteq Visible'
      BY <2>3 DEF Keeps, GenerationsInv
    <3>2. pc'[p] \in SyncedSteps => vis' = dur' /\ twin' = {}
      BY <2>3 DEF Keeps, GenerationsInv
    <3>3. /\ pc'[p] = "pubsync" => twin' = {}
          /\ pc'[p] \in WorkSteps => Superseded(vis) = {}
      BY <2>3 DEF Keeps, GenerationsInv
    <3>4. Superseded(vis)' = Superseded(vis)
      BY <2>3 DEF Keeps, Superseded
    <3> QED
      BY <2>2, <3>1, <3>2, <3>3, <3>4 DEF GenerationsInv, SyncedSteps, WorkSteps
  <2>4. ASSUME Synchronises(p) PROVE GenerationsInv'
    <3>1. /\ \A n \in Visible' \cap Synced' : vis'[n] = dur'[n]
          /\ twin' \subseteq Visible'
          /\ vis' = dur'
      BY <2>4 DEF Synchronises, GenerationsInv
    <3>2. pc'[p] \in SyncedSteps => twin' = {}
      BY <2>4 DEF Synchronises, GenerationsInv, Readable, At
    <3>3. pc'[p] \in WorkSteps => Superseded(vis)' = {}
      BY <2>4 DEF Synchronises, GenerationsInv, Superseded
    <3>4. pc'[p] # "pubsync"
      BY <2>4 DEF Synchronises
    <3> QED
      BY <2>2, <3>1, <3>2, <3>3, <3>4 DEF GenerationsInv, SyncedSteps, WorkSteps
  <2>5. ASSUME Publishes(p) PROVE GenerationsInv'
    <3>1. PICK n \in Gens : /\ IsNext(n) /\ vis' = [vis EXCEPT ![n] = sel[p]]
                            /\ twin' = twin \cup {n} /\ dur' = vis
      BY <2>5 DEF Publishes
    <3>2. vis[n] = NoManifest /\ vis'[n] # NoManifest
      BY <3>1, NoManifestAssumption, MaxGenAssumption DEF IsNext, TypeOK
    <3>3. /\ \A k \in Visible' \cap Synced' : vis'[k] = dur'[k]
          /\ twin' \subseteq Visible'
      BY <3>1, <3>2 DEF GenerationsInv, TypeOK
    <3>4. pc'[p] = "untwin"
      BY <2>5 DEF Publishes
    <3> QED
      BY <2>2, <3>3, <3>4 DEF GenerationsInv, SyncedSteps, WorkSteps
  <2>6. ASSUME Retires(p) PROVE GenerationsInv'
    <3>1. vis = dur /\ twin = {}
      BY <2>6 DEF Retires, At, GenerationsInv, SyncedSteps
    <3>2. /\ \A k \in Visible' \cap Synced' : vis'[k] = dur'[k]
          /\ twin' = {}
      BY <2>6, <3>1 DEF Retires
    <3>3. Superseded(vis)' = {}
      BY <2>6 DEF Retires, Superseded
    <3>4. pc'[p] = "release" \/ vis' = dur'
      BY <2>6 DEF Retires
    <3>5. pc'[p] # "pubsync"
      BY <2>6 DEF Retires
    <3> QED
      BY <2>2, <3>2, <3>3, <3>4, <3>5 DEF GenerationsInv, SyncedSteps, WorkSteps
  <2> QED
    BY <1>1, <2>3, <2>4, <2>5, <2>6, WorksGenerations
<1>2. ASSUME NEW p \in Builds, Acquire(p) \/ Contend(p) \/ Release(p) \/ Kill(p)
      PROVE GenerationsInv'
  <2>1. vis' = vis /\ dur' = dur /\ twin' = twin
    BY <1>2 DEF Acquire, Contend, Release, Kill, gens
  <2>2. \A q \in Builds : pc'[q] \in {pc[q], "idle", "discover"}
    BY <1>2 DEF Acquire, Contend, Release, Kill, ResetBuild, Goto, locals, TypeOK
  <2>3. Superseded(vis)' = Superseded(vis)
    BY <2>1 DEF Superseded
  <2> QED
    BY <2>1, <2>2, <2>3 DEF GenerationsInv, SyncedSteps, WorkSteps
<1>3. ASSUME PowerLoss PROVE GenerationsInv'
  BY <1>3 DEF PowerLoss, GenerationsInv, SyncedSteps, WorkSteps
<1>4. ASSUME TimePasses \/ UNCHANGED vars PROVE GenerationsInv'
  BY <1>4 DEF TimePasses, procs, gens, vars, GenerationsInv, Superseded
<1> QED
  BY <1>1, <1>2, <1>3, <1>4 DEF Next, NextPowered, Step, Works

-----------------------------------------------------------------------------
(* The committed blobs.                                                    *)

\* On a synchronised directory the only possible authority is the live set.
LEMMA ProtectedIsLive == TypeOK /\ vis = dur => Protected = Live(vis)
<1> SUFFICES ASSUME TypeOK, vis = dur PROVE Protected = Live(vis)
  OBVIOUS
<1>1. MayBeNewest = Present(vis) \ Superseded(vis)
  BY MaxGenAssumption DEF MayBeNewest, Visible, Synced, Present, Superseded
<1> QED
  BY <1>1 DEF Protected, Live, Body, Present

\* A step of a running build removes a valid blob only as a superseded
\* candidate, as an expired uncommitted blob, or as the one it just published.
LEMMA WorksBlobs ==
  ASSUME TypeOK, NEW p \in Builds, Works(p), NEW b \in Blobs, blob[b] = "ok"
  PROVE  \/ blob'[b] = "ok"
         \/ At(p, "clean") /\ b \in Candidates(vis)
         \/ At(p, "scan") /\ b \notin Live(vis)
         \/ At(p, "mark") /\ b \in cur[p]
<1> DEFINE G == \/ blob'[b] = "ok"
                \/ At(p, "clean") /\ b \in Candidates(vis)
                \/ At(p, "scan") /\ b \notin Live(vis)
                \/ At(p, "mark") /\ b \in cur[p]
<1> USE DEF WriteBlobs, Without, cache
<1>1. ASSUME Recovery(p) PROVE G
  <2>1. ASSUME NEW gb \in SUBSET Blobs, NEW gm \in SUBSET Blobs,
               NEW sb \in BOOLEAN, NEW sm \in BOOLEAN,
               CleanSuperseded(p, gb, gm, sb, sm)
        PROVE G
    BY <2>1 DEF CleanSuperseded
  <2>2. ASSUME NEW gone \in SUBSET Blobs, NEW synced \in BOOLEAN,
               Reconcile(p, gone, synced)
        PROVE G
    BY <2>2 DEF Reconcile
  <2> QED
    BY <1>1, <2>1, <2>2 DEF Recovery, Discover, Retire, RecoverSnapshots
<1>2. ASSUME Maintenance(p) PROVE G
  <2>1. ASSUME NEW c \in Blobs, NEW u \in BOOLEAN, NEW bd \in BOOLEAN,
               NEW mg \in BOOLEAN, NEW md \in BOOLEAN, Evict(p, c, u, bd, mg, md)
        PROVE G
    BY <2>1 DEF Evict
  <2> QED
    BY <1>2, <2>1 DEF Maintenance, Maintain, RefuseUnsafe, Retain, StartWork
<1>3. ASSUME Materialization(p) PROVE G
  <2>1. ASSUME NEW c \in Blobs, PublishBlob(p, c) PROVE G
    BY <2>1 DEF PublishBlob, TypeOK
  <2>2. ASSUME NEW renamed \in BOOLEAN, NEW unlinked \in BOOLEAN,
               FailMark(p, renamed, unlinked)
        PROVE G
    BY <2>2 DEF FailMark
  <2>3. ASSUME Mark(p) PROVE G
    BY <2>3 DEF Mark
  <2> QED
    BY <1>3, <2>1, <2>2, <2>3 DEF Materialization, Hit, RefuseCorrupt,
       FinishMaterialize
<1>4. ASSUME SnapshotAndDocker(p) PROVE G
  BY <1>4 DEF SnapshotAndDocker, CreateSnapshot, FailSnapshot, FinishSnapshot,
              Abort, DockerSucceeds, DockerFails
<1>5. ASSUME Commit(p) PROVE G
  BY <1>5 DEF Commit, Verify, Publish, Untwin, FailUntwin, SyncPublication
<1>6. ASSUME Fault(p) PROVE G
  BY <1>6 DEF Fault
<1> QED
  BY <1>1, <1>2, <1>3, <1>4, <1>5, <1>6, Works(p) DEF Works

\* The generations that may be the authority stay so, or are the one that is
\* being published.
LEMMA ProtectedStep ==
  ASSUME TypeOK, GenerationsInv, GenerationsUnambiguous, NEW p \in Builds,
         Works(p)
  PROVE  Protected' \subseteq Protected \cup (IF At(p, "publish") THEN sel[p]
                                                                  ELSE {})
<1> USE DEF Visible, Synced, Present
<1>1. ASSUME Keeps(p) PROVE Protected' = Protected
  BY <1>1 DEF Keeps, Protected, MayBeNewest, Body
<1>2. ASSUME Synchronises(p) PROVE Protected' \subseteq Protected
  BY <1>2 DEF Synchronises, Protected, MayBeNewest, Body
<1>3. ASSUME Publishes(p) PROVE Protected' \subseteq Protected \cup sel[p]
  <2>1. PICK n \in Gens : IsNext(n) /\ vis' = [vis EXCEPT ![n] = sel[p]]
                          /\ dur' = vis
    BY <1>3 DEF Publishes
  <2>2. vis[n] = NoManifest /\ sel[p] # NoManifest /\ sel[p] \in SUBSET Blobs
    BY <2>1, NoManifestAssumption, MaxGenAssumption DEF IsNext, TypeOK
  <2>3. /\ \A k \in Gens \ {n} : vis'[k] = vis[k] /\ Body(k)' = vis[k]
        /\ vis'[n] = sel[p] /\ Body(n)' = sel[p]
    BY <2>1, <2>2 DEF Body, TypeOK
  <2>4. MayBeNewest' \subseteq {n} \cup {k \in Visible : \A m \in Visible : m <= k}
    BY <2>1, <2>2, <2>3 DEF MayBeNewest
  <2>5. {k \in Visible : \A m \in Visible : m <= k} \subseteq MayBeNewest
    BY DEF MayBeNewest
  <2>6. ASSUME NEW b \in Protected' PROVE b \in Protected \cup sel[p]
    <3>1. PICK k \in MayBeNewest' : b \in Body(k)'
      BY <2>6 DEF Protected
    <3>2. CASE k = n
      BY <3>1, <3>2, <2>3
    <3>3. CASE k # n
      <4>1. k \in Visible /\ k \in MayBeNewest /\ Body(k)' = vis[k]
        BY <3>1, <3>3, <2>3, <2>4, <2>5
      <4>2. Body(k) = vis[k]
        BY <4>1 DEF Body
      <4> QED
        BY <3>1, <4>1, <4>2, <2>6 DEF Protected
    <3> QED
      BY <3>2, <3>3
  <2> QED
    BY <2>6
<1>4. ASSUME Retires(p) PROVE Protected' \subseteq Protected
  <2>1. vis = dur
    BY <1>4 DEF Retires, At, GenerationsInv, SyncedSteps
  <2>2. \A k \in Visible \cup Visible' \cup Synced' : k \in Visible
    BY <1>4, <2>1 DEF Retires
  <2>3. \A k \in Visible : k \in Superseded(vis)
           => \E m \in Visible \ Superseded(vis) : k < m
    BY MaxGenAssumption DEF Superseded, GenerationsUnambiguous
  <2>4. \A m \in Visible \ Superseded(vis) : m \in Visible' \cap Synced'
    BY <1>4, <2>1 DEF Retires
  <2>5. MayBeNewest' \subseteq Visible \ Superseded(vis)
    BY <2>2, <2>3, <2>4, MaxGenAssumption DEF MayBeNewest
  <2>6. \A k \in Visible \ Superseded(vis) : k \in MayBeNewest
    BY <2>1, MaxGenAssumption DEF MayBeNewest, Superseded
  <2>7. \A k \in Visible \ Superseded(vis) : Body(k)' = Body(k)
    BY <1>4 DEF Retires, Body
  <2> QED
    BY <2>5, <2>6, <2>7 DEF Protected
<1> QED
  BY <1>1, <1>2, <1>3, <1>4, WorksGenerations DEF Publishes

\* A build is about to mark only a blob that was absent, and about to publish
\* only a selection it has just verified.
LEMMA WorksControl ==
  ASSUME TypeOK, NEW p \in Builds, Works(p)
  PROVE  /\ pc'[p] = "mark" =>
              /\ At(p, "materialize") /\ vis' = vis
              /\ \E b \in Blobs : blob[b] = "absent" /\ cur'[p] = {b}
         /\ pc'[p] = "publish" =>
              sel'[p] = sel[p] /\ \A b \in sel[p] : blob'[b] = "ok"
<1> DEFINE G == /\ pc'[p] = "mark" =>
                     /\ At(p, "materialize") /\ vis' = vis
                     /\ \E b \in Blobs : blob[b] = "absent" /\ cur'[p] = {b}
                /\ pc'[p] = "publish" =>
                     sel'[p] = sel[p] /\ \A b \in sel[p] : blob'[b] = "ok"
<1> USE DEF At, Goto, Return, Fail, Recovered, gens, locals, cache
<1>1. ASSUME Recovery(p) PROVE pc'[p] \notin {"mark", "publish"}
  <2>1. ASSUME NEW gb \in SUBSET Blobs, NEW gm \in SUBSET Blobs,
               NEW sb \in BOOLEAN, NEW sm \in BOOLEAN,
               CleanSuperseded(p, gb, gm, sb, sm)
        PROVE pc'[p] \notin {"mark", "publish"}
    BY <2>1 DEF CleanSuperseded, TypeOK
  <2>2. ASSUME NEW gone \in SUBSET Blobs, NEW synced \in BOOLEAN,
               Reconcile(p, gone, synced)
        PROVE pc'[p] \notin {"mark", "publish"}
    BY <2>2 DEF Reconcile, TypeOK
  <2>3. ASSUME NEW synced \in BOOLEAN, Retire(p, synced)
        PROVE pc'[p] \notin {"mark", "publish"}
    BY <2>3 DEF Retire, TypeOK
  <2>4. ASSUME NEW left \in SUBSET Blobs, Discover(p) \/ RecoverSnapshots(p, left)
        PROVE pc'[p] \notin {"mark", "publish"}
    BY <2>4 DEF Discover, RecoverSnapshots, TypeOK
  <2> QED
    BY <1>1, <2>1, <2>2, <2>3, <2>4 DEF Recovery
<1>2. ASSUME Maintenance(p) PROVE pc'[p] \notin {"mark", "publish"}
  <2>1. ASSUME NEW b \in Blobs, NEW u \in BOOLEAN, NEW bd \in BOOLEAN,
               NEW mg \in BOOLEAN, NEW md \in BOOLEAN, Evict(p, b, u, bd, mg, md)
        PROVE pc'[p] \notin {"mark", "publish"}
    BY <2>1 DEF Evict, Examined, TypeOK
  <2>3. ASSUME NEW b \in Blobs, RefuseUnsafe(p, b) \/ Retain(p, b)
        PROVE pc'[p] \notin {"mark", "publish"}
    BY <2>3 DEF RefuseUnsafe, Retain, Examined, TypeOK
  <2>4. ASSUME Maintain(p) \/ StartWork(p)
        PROVE pc'[p] \notin {"mark", "publish"}
    BY <2>4 DEF Maintain, StartWork, TypeOK
  <2> QED
    BY <1>2, <2>1, <2>3, <2>4 DEF Maintenance
<1>3. ASSUME Materialization(p) PROVE G
  <2>1. ASSUME NEW b \in Blobs, PublishBlob(p, b) PROVE G
    BY <2>1 DEF PublishBlob, TypeOK
  <2>2. ASSUME NEW b \in Blobs, Hit(p, b) \/ RefuseCorrupt(p, b)
        PROVE pc'[p] \notin {"mark", "publish"}
    BY <2>2 DEF Hit, RefuseCorrupt, Examined, TypeOK
  <2>3. ASSUME NEW renamed \in BOOLEAN, NEW unlinked \in BOOLEAN,
               FailMark(p, renamed, unlinked)
        PROVE pc'[p] \notin {"mark", "publish"}
    BY <2>3 DEF FailMark, TypeOK
  <2>4. ASSUME Mark(p) \/ FinishMaterialize(p)
        PROVE pc'[p] \notin {"mark", "publish"}
    BY <2>4 DEF Mark, FinishMaterialize, TypeOK
  <2> QED
    BY <1>3, <2>1, <2>2, <2>3, <2>4 DEF Materialization
<1>4. ASSUME SnapshotAndDocker(p) PROVE pc'[p] \notin {"mark", "publish"}
  BY <1>4 DEF SnapshotAndDocker, CreateSnapshot, FailSnapshot, FinishSnapshot,
              Abort, DockerSucceeds, DockerFails, TypeOK
<1>5. ASSUME Commit(p) PROVE G
  <2>1. ASSUME Verify(p) PROVE G
    BY <2>1 DEF Verify, TypeOK
  <2>2. ASSUME Publish(p) PROVE pc'[p] \notin {"mark", "publish"}
    BY <2>2 DEF Publish, TypeOK
  <2>3. ASSUME NEW discarded \in BOOLEAN,
               Untwin(p) \/ FailUntwin(p, discarded) \/ SyncPublication(p)
        PROVE pc'[p] \notin {"mark", "publish"}
    BY <2>3 DEF Untwin, FailUntwin, SyncPublication, TypeOK
  <2> QED
    BY <1>5, <2>1, <2>2, <2>3 DEF Commit
<1>6. ASSUME Fault(p) PROVE pc'[p] \notin {"mark", "publish"}
  BY <1>6 DEF Fault, TypeOK
<1> QED
  BY <1>1, <1>2, <1>3, <1>4, <1>5, <1>6, Works(p) DEF Works

\* CommittedComplete needs two facts of the running build to be inductive: the
\* blob it may unlink again is not committed, and the set it is about to
\* publish is in the store.
CommittedInv ==
  /\ CommittedComplete
  /\ \A p \in Builds :
       /\ pc[p] = "mark" => cur[p] \cap Live(vis) = {}
       /\ pc[p] = "publish" => \A b \in sel[p] : blob[b] = "ok"

\* While the machine keeps its power every step keeps the committed blobs.
LEMMA CommittedStep ==
  TypeOK /\ MutualExclusion /\ GenerationsInv /\ GenerationsUnambiguous
    /\ CommittedInv /\ [NextPowered]_vars => CommittedInv'
<1> SUFFICES ASSUME TypeOK, MutualExclusion, GenerationsInv,
                    GenerationsUnambiguous, CommittedInv, [NextPowered]_vars
             PROVE  CommittedInv'
  OBVIOUS
<1>1. ASSUME NEW p \in Builds, Works(p) PROVE CommittedInv'
  <2>1. Moves(p)
    BY <1>1, WorksMoves
  <2>2. \A q \in Builds \ {p} : pc'[q] = "idle"
    BY <2>1, NoBuildAssumption DEF MutualExclusion, At, Moves
  <2>3. pc[p] \in SyncedSteps => Protected = Live(vis)
    BY ProtectedIsLive DEF GenerationsInv
  <2>4. ASSUME NEW b \in Protected, b \in Blobs PROVE blob'[b] = "ok"
    <3>1. blob[b] = "ok"
      BY <2>4 DEF CommittedInv, CommittedComplete
    <3>2. pc[p] \in {"clean", "scan", "mark"} => b \in Live(vis)
      BY <2>3, <2>4 DEF SyncedSteps
    <3>3. b \in Live(vis) => b \notin Candidates(vis)
      BY DEF Candidates
    <3>4. pc[p] = "mark" => b \notin cur[p]
      BY <3>2 DEF CommittedInv
    <3> QED
      BY <1>1, <2>4, <3>1, <3>2, <3>3, <3>4, WorksBlobs DEF At
  <2>5. ASSUME At(p, "publish"), NEW b \in sel[p], b \in Blobs
        PROVE blob'[b] = "ok"
    BY <1>1, <2>5, WorksBlobs DEF CommittedInv, At
  <2>6. CommittedComplete'
    <3>1. Protected' \subseteq Blobs
      BY DEF Protected
    <3> QED
      BY <1>1, <2>4, <2>5, <3>1, ProtectedStep DEF CommittedComplete
  <2>7. pc'[p] = "mark" => cur'[p] \cap Live(vis)' = {}
    <3>1. SUFFICES ASSUME pc'[p] = "mark" PROVE cur'[p] \cap Live(vis)' = {}
      OBVIOUS
    <3>2. PICK b \in Blobs : blob[b] = "absent" /\ cur'[p] = {b}
      BY <1>1, <3>1, WorksControl
    <3>3. At(p, "materialize") /\ vis' = vis
      BY <1>1, <3>1, WorksControl
    <3>4. b \notin Live(vis)
      BY <2>3, <3>2, <3>3 DEF At, SyncedSteps, CommittedInv, CommittedComplete
    <3> QED
      BY <3>2, <3>3, <3>4 DEF Live, Present, Superseded
  <2>8. pc'[p] = "publish" => \A b \in sel'[p] : blob'[b] = "ok"
    BY <1>1, WorksControl
  <2> QED
    BY <2>2, <2>6, <2>7, <2>8 DEF CommittedInv
<1>2. ASSUME NEW p \in Builds, Acquire(p) \/ Contend(p) \/ Release(p) \/ Kill(p)
      PROVE CommittedInv'
  <2>1. vis' = vis /\ dur' = dur /\ blob' = blob
    BY <1>2 DEF Acquire, Contend, Release, Kill, gens, cache
  <2>2. \A q \in Builds : \/ pc'[q] \in {"idle", "discover"}
                          \/ pc'[q] = pc[q] /\ sel'[q] = sel[q] /\ cur'[q] = cur[q]
    BY <1>2 DEF Acquire, Contend, Release, Kill, ResetBuild, Goto, locals, TypeOK
  <2>3. Protected' = Protected /\ Live(vis)' = Live(vis)
    BY <2>1 DEF Protected, MayBeNewest, Body, Visible, Synced, Present, Live,
                Superseded
  <2> QED
    BY <2>1, <2>2, <2>3 DEF CommittedInv, CommittedComplete
<1>3. ASSUME TimePasses \/ UNCHANGED vars PROVE CommittedInv'
  BY <1>3 DEF TimePasses, procs, gens, vars, CommittedInv, CommittedComplete,
     Protected, MayBeNewest, Body, Visible, Synced, Present, Live, Superseded
<1> QED
  BY <1>1, <1>2, <1>3 DEF NextPowered, Step, Works

\* The committed blobs survive every fault and every kill, however many
\* builds, blobs and generations there are.
THEOREM CommittedBlobsSurvive == SpecPowered => []CommittedComplete
<1> DEFINE Inv == /\ TypeOK /\ MutualExclusion /\ GenerationsUnambiguous
                  /\ GenerationsInv /\ CommittedInv
<1>1. Init => Inv
  <2>1. Init => TypeOK /\ MutualExclusion
    BY MaxGenAssumption DEF Init, TypeOK, MutualExclusion, At
  <2>2. Init => GenerationsUnambiguous /\ GenerationsInv /\ CommittedInv
    BY DEF Init, GenerationsUnambiguous, GenerationsInv, CommittedInv,
       CommittedComplete, Protected, MayBeNewest, Visible, Synced, Present,
       SyncedSteps, WorkSteps
  <2> QED
    BY <2>1, <2>2
<1>2. Inv /\ [NextPowered]_vars => Inv'
  <2>1. [NextPowered]_vars => [Next]_vars
    BY DEF Next
  <2> QED
    BY <2>1, TypeStep, LockStep, GenerationsStep, GenerationsInvStep,
       CommittedStep
<1>3. Inv => CommittedComplete
  BY DEF CommittedInv
<1> QED
  BY <1>1, <1>2, <1>3, PTL DEF SpecPowered

-----------------------------------------------------------------------------
(* The markers of committed blobs.                                         *)

MarkedSteps == SyncedSteps \ {"reconcile"}

Unmarked == \A b \in Live(vis) : markerDisk[b] = {"none"}

\* The visible marker is one of those a power loss may leave, and once
\* reconciled the committed blobs stay without markers on disk.
MarkersInv ==
  /\ \A b \in Blobs : marker[b] \in markerDisk[b]
  /\ \A p \in Builds : pc[p] \in MarkedSteps => Unmarked

\* A running build writes markers only of blobs that are not committed.
LEMMA WorksMarkers ==
  ASSUME TypeOK, MarkersInv, CommittedInv, NEW p \in Builds, Works(p)
  PROVE  /\ \A b \in Blobs : marker'[b] \in markerDisk'[b]
         /\ pc'[p] \in MarkedSteps =>
              \/ Present(vis) = {}
              \/ \A b \in Live(vis) : markerDisk'[b] = {"none"}
<1> DEFINE Sound == \A b \in Blobs : marker'[b] \in markerDisk'[b]
           Clean == \A b \in Live(vis) : markerDisk'[b] = {"none"}
           G == /\ Sound
                /\ pc'[p] \in MarkedSteps => Present(vis) = {} \/ Clean
<1>1. Live(vis) \subseteq Blobs
  BY DEF Live
<1>2. ASSUME marker' = marker, markerDisk' = markerDisk,
             pc'[p] \in MarkedSteps => pc[p] \in MarkedSteps \/ Present(vis) = {}
      PROVE G
  BY <1>1, <1>2 DEF MarkersInv, Unmarked
<1>3. ASSUME NEW gone \in SUBSET Blobs, NEW synced \in BOOLEAN,
             WriteMarkers(Without(marker, gone, "none"), synced),
             pc'[p] \in MarkedSteps => pc[p] \in MarkedSteps
      PROVE G
  <2>1. Sound
    BY <1>3 DEF WriteMarkers, Without, Settled, Spread
  <2>2. ASSUME pc[p] \in MarkedSteps PROVE Clean
    <3>1. ASSUME NEW b \in Live(vis) PROVE markerDisk'[b] = {"none"}
      <4>1. b \in Blobs /\ markerDisk[b] = {"none"} /\ marker[b] = "none"
        BY <1>1, <2>2 DEF MarkersInv, Unmarked
      <4> QED
        BY <1>3, <4>1 DEF WriteMarkers, Without, Settled, Spread
    <3> QED
      BY <3>1
  <2> QED
    BY <1>3, <2>1, <2>2
<1>4. ASSUME Recovery(p) PROVE G
  <2> USE DEF At, Goto, Return, Fail, Recovered, locals, cache, SyncedSteps,
              MarkedSteps
  <2>1. ASSUME NEW gone \in SUBSET Blobs, NEW synced \in BOOLEAN,
               Reconcile(p, gone, synced)
        PROVE G
    <3>1. Sound
      BY <2>1 DEF Reconcile, WriteMarkers, Without, Settled, Spread
    <3>2. ASSUME pc'[p] \in MarkedSteps PROVE Clean
      <4>1. gone = {b \in Live(vis) : marker[b] # "none"} /\ synced = TRUE
        BY <2>1, <3>2 DEF Reconcile, TypeOK
      <4>2. \A b \in Live(vis) : marker'[b] = "none" /\ markerDisk'[b] = {marker'[b]}
        BY <1>1, <2>1, <4>1 DEF Reconcile, WriteMarkers, Without, Settled
      <4> QED
        BY <4>2
    <3> QED
      BY <3>1, <3>2
  <2>2. ASSUME NEW gb \in SUBSET Blobs, NEW gm \in SUBSET Blobs,
               NEW sb \in BOOLEAN, NEW sm \in BOOLEAN,
               CleanSuperseded(p, gb, gm, sb, sm)
        PROVE G
    <3>1. pc[p] \in MarkedSteps
      BY <2>2 DEF CleanSuperseded
    <3>2. \/ WriteMarkers(Without(marker, gm, "none"), sm)
          \/ marker' = marker /\ markerDisk' = markerDisk
      BY <2>2 DEF CleanSuperseded
    <3> QED
      BY <1>2, <1>3, <3>1, <3>2
  <2>3. ASSUME Discover(p) PROVE G
    BY <1>2, <2>3 DEF Discover, TypeOK
  <2>4. ASSUME NEW synced \in BOOLEAN, Retire(p, synced) PROVE G
    BY <1>2, <2>4 DEF Retire, TypeOK
  <2>5. ASSUME NEW left \in SUBSET Blobs, RecoverSnapshots(p, left) PROVE G
    BY <1>2, <2>5 DEF RecoverSnapshots, TypeOK
  <2> QED
    BY <1>4, <2>1, <2>2, <2>3, <2>4, <2>5 DEF Recovery
<1>5. ASSUME Maintenance(p) PROVE G
  <2>1. pc[p] \in MarkedSteps
    BY <1>5 DEF Maintenance, Maintain, Evict, RefuseUnsafe,
       Retain, StartWork, At, SyncedSteps, MarkedSteps
  <2>2. \/ marker' = marker /\ markerDisk' = markerDisk
        \/ \E gone \in SUBSET Blobs, synced \in BOOLEAN :
             WriteMarkers(Without(marker, gone, "none"), synced)
    BY <1>5 DEF Maintenance, Maintain, Evict, RefuseUnsafe,
       Retain, StartWork, cache
  <2> QED
    BY <1>2, <1>3, <2>1, <2>2
<1>6. ASSUME Materialization(p) PROVE G
  <2> USE DEF At, SyncedSteps, MarkedSteps, cache
  <2>1. pc[p] \in MarkedSteps
    BY <1>6 DEF Materialization, Hit, RefuseCorrupt, PublishBlob, Mark, FailMark,
       FinishMaterialize
  <2>2. ASSUME Mark(p) PROVE G
    <3>1. Sound
      BY <2>2 DEF Mark, WriteMarkers, Without, Settled
    <3>2. \A b \in Live(vis) : marker[b] = "none" /\ b \notin cur[p]
      BY <1>1, <2>1, <2>2 DEF Mark, MarkersInv, Unmarked, CommittedInv
    <3>3. Clean
      BY <1>1, <2>2, <3>2 DEF Mark, WriteMarkers, Without, Settled
    <3> QED
      BY <3>1, <3>3
  <2>3. ASSUME NEW renamed \in BOOLEAN, NEW unlinked \in BOOLEAN,
               FailMark(p, renamed, unlinked)
        PROVE G
    <3>1. pc'[p] \notin MarkedSteps
      BY <2>3 DEF FailMark, Fail, Return, Goto, TypeOK
    <3>2. Sound
      BY <2>3 DEF FailMark, WriteMarkers, Without, Spread, MarkersInv
    <3> QED
      BY <3>1, <3>2
  <2>4. ASSUME FinishMaterialize(p) PROVE G
    BY <1>2, <2>1, <2>4 DEF FinishMaterialize
  <2>5. ASSUME NEW b \in Blobs,
               Hit(p, b) \/ RefuseCorrupt(p, b) \/ PublishBlob(p, b)
        PROVE G
    BY <1>2, <2>1, <2>5 DEF Hit, RefuseCorrupt, PublishBlob
  <2> QED
    BY <1>6, <2>2, <2>3, <2>4, <2>5 DEF Materialization
<1>7. ASSUME SnapshotAndDocker(p) PROVE G
  <2>1. pc[p] \in MarkedSteps /\ marker' = marker /\ markerDisk' = markerDisk
    BY <1>7 DEF SnapshotAndDocker, CreateSnapshot, FailSnapshot, FinishSnapshot,
       Abort, DockerSucceeds, DockerFails, At, SyncedSteps, MarkedSteps, cache
  <2> QED
    BY <1>2, <2>1
<1>8. ASSUME Commit(p) PROVE G
  <2>1. /\ marker' = marker /\ markerDisk' = markerDisk
        /\ pc'[p] \in MarkedSteps => pc[p] \in MarkedSteps
    BY <1>8 DEF Commit, Verify, Publish, Untwin, FailUntwin, SyncPublication,
       At, Goto, Fail, Return, SyncedSteps, MarkedSteps, cache, TypeOK
  <2> QED
    BY <1>2, <2>1
<1>9. ASSUME Fault(p) PROVE G
  <2>1. /\ marker' = marker /\ markerDisk' = markerDisk
        /\ pc'[p] \notin MarkedSteps
    BY <1>9 DEF Fault, Goto, Fail, Return, SyncedSteps, MarkedSteps, cache, TypeOK
  <2> QED
    BY <1>2, <2>1
<1> QED
  BY <1>4, <1>5, <1>6, <1>7, <1>8, <1>9, Works(p) DEF Works

\* Every step of a powered machine keeps the committed blobs unmarked.
LEMMA MarkersStep ==
  TypeOK /\ MutualExclusion /\ GenerationsInv /\ CommittedInv /\ MarkersInv
    /\ [NextPowered]_vars => MarkersInv'
<1> SUFFICES ASSUME TypeOK, MutualExclusion, GenerationsInv, CommittedInv,
                    MarkersInv, [NextPowered]_vars
             PROVE  MarkersInv'
  OBVIOUS
<1>1. ASSUME NEW p \in Builds, Works(p) PROVE MarkersInv'
  <2>1. \A q \in Builds \ {p} : pc'[q] = "idle"
    BY <1>1, WorksMoves, NoBuildAssumption DEF MutualExclusion, At, Moves
  <2>2. ASSUME pc'[p] \in MarkedSteps
        PROVE Live(vis)' \subseteq Live(vis)
              /\ (Present(vis) = {} => Live(vis)' = {})
    <3>1. ~Publishes(p)
      BY <2>2 DEF Publishes, MarkedSteps, SyncedSteps
    <3>2. ASSUME Retires(p) PROVE Live(vis)' \subseteq Live(vis)
                                  /\ (Present(vis) = {} => Live(vis)' = {})
      BY <3>2 DEF Retires, Live, Present, Superseded
    <3>3. ASSUME vis' = vis PROVE Live(vis)' \subseteq Live(vis)
                                  /\ (Present(vis) = {} => Live(vis)' = {})
      BY <3>3 DEF Live, Present, Superseded
    <3> QED
      BY <1>1, <3>1, <3>2, <3>3, WorksGenerations DEF Keeps, Synchronises
  <2>3. pc'[p] \in MarkedSteps => Unmarked'
    BY <1>1, <2>2, WorksMarkers DEF Unmarked
  <2> QED
    BY <1>1, <2>1, <2>3, WorksMarkers DEF MarkersInv, MarkedSteps, SyncedSteps
<1>2. ASSUME NEW p \in Builds, Acquire(p) \/ Contend(p) \/ Release(p) \/ Kill(p)
      PROVE MarkersInv'
  <2>1. vis' = vis /\ marker' = marker /\ markerDisk' = markerDisk
    BY <1>2 DEF Acquire, Contend, Release, Kill, gens, cache
  <2>2. \A q \in Builds : pc'[q] \in {pc[q], "idle", "discover"}
    BY <1>2 DEF Acquire, Contend, Release, Kill, ResetBuild, Goto, locals, TypeOK
  <2>3. Live(vis)' = Live(vis)
    BY <2>1 DEF Live, Present, Superseded
  <2> QED
    BY <2>1, <2>2, <2>3 DEF MarkersInv, Unmarked, MarkedSteps, SyncedSteps
<1>3. ASSUME TimePasses PROVE MarkersInv'
  <2>1. Live(vis)' = Live(vis) /\ Live(vis) \subseteq Blobs
    BY <1>3 DEF TimePasses, gens, Live, Present, Superseded
  <2>2. \A b \in Blobs : marker'[b] \in markerDisk'[b]
    BY <1>3 DEF TimePasses, MarkersInv
  <2>3. \A b \in Blobs : markerDisk[b] = {"none"} => markerDisk'[b] = {"none"}
    BY <1>3 DEF TimePasses, Aged
  <2> QED
    BY <1>3, <2>1, <2>2, <2>3 DEF MarkersInv, Unmarked, TimePasses, procs
<1>4. ASSUME UNCHANGED vars PROVE MarkersInv'
  BY <1>4 DEF vars, MarkersInv, Unmarked, Live, Present, Superseded
<1> QED
  BY <1>1, <1>2, <1>3, <1>4 DEF NextPowered, Step, Works

\* No work starts on a store that is not recovered, whatever failed before and
\* however many builds there are.
THEOREM WorkStartsOnRecoveredStore == SpecPowered => []WorkStartsRecovered
<1> DEFINE Inv == /\ TypeOK /\ MutualExclusion /\ GenerationsUnambiguous
                  /\ GenerationsInv /\ CommittedInv /\ MarkersInv
<1>1. Init => Inv
  <2>1. Init => TypeOK /\ MutualExclusion
    BY MaxGenAssumption DEF Init, TypeOK, MutualExclusion, At
  <2>2. Init => GenerationsUnambiguous /\ GenerationsInv /\ CommittedInv
    BY DEF Init, GenerationsUnambiguous, GenerationsInv, CommittedInv,
       CommittedComplete, Protected, MayBeNewest, Visible, Synced, Present,
       SyncedSteps, WorkSteps
  <2>3. Init => MarkersInv
    BY DEF Init, MarkersInv, MarkedSteps, SyncedSteps
  <2> QED
    BY <2>1, <2>2, <2>3
<1>2. Inv /\ [NextPowered]_vars => Inv'
  <2>1. [NextPowered]_vars => [Next]_vars
    BY DEF Next
  <2> QED
    BY <2>1, TypeStep, LockStep, GenerationsStep, GenerationsInvStep,
       CommittedStep, MarkersStep
<1>3. Inv => WorkStartsRecovered
  BY DEF GenerationsInv, MarkersInv, Unmarked, WorkStartsRecovered, WorkSteps,
     SyncedSteps, MarkedSteps, TypeOK
<1> QED
  BY <1>1, <1>2, <1>3, PTL DEF SpecPowered

-----------------------------------------------------------------------------
(* The snapshots.                                                          *)

\* The steps of a commit, before the new generation is settled.
CommitSteps == {"verify", "publish", "untwin", "pubsync"}

\* While a power loss may leave two generations, and while a third one may be
\* on its way, no snapshot is left.
SnapshotsInv ==
  /\ (\E m, n \in Visible \cup Synced : m < n) => snap = {}
  /\ \A p \in Builds : pc[p] \in CommitSteps => snap = {}

\* A running build adds snapshots only where it makes its own, and comes to the
\* commit only when none is left.
LEMMA WorksSnapshots ==
  ASSUME TypeOK, NEW p \in Builds, Works(p)
  PROVE  /\ snap' \subseteq snap \/ At(p, "link")
         /\ pc'[p] \in CommitSteps => snap' = {} \/ pc[p] \in CommitSteps
<1> DEFINE G == /\ snap' \subseteq snap \/ At(p, "link")
                /\ pc'[p] \in CommitSteps => snap' = {} \/ pc[p] \in CommitSteps
<1> USE DEF At, Goto, Return, Fail, Recovered, Examined, gens, locals, cache, CommitSteps
<1>1. ASSUME Recovery(p) PROVE G
  <2>1. ASSUME NEW gb \in SUBSET Blobs, NEW gm \in SUBSET Blobs,
               NEW sb \in BOOLEAN, NEW sm \in BOOLEAN,
               CleanSuperseded(p, gb, gm, sb, sm)
        PROVE G
    BY <2>1 DEF CleanSuperseded, TypeOK
  <2>2. ASSUME NEW gone \in SUBSET Blobs, NEW synced \in BOOLEAN,
               Reconcile(p, gone, synced)
        PROVE G
    BY <2>2 DEF Reconcile, TypeOK
  <2>3. ASSUME NEW synced \in BOOLEAN, Retire(p, synced) PROVE G
    BY <2>3 DEF Retire, TypeOK
  <2>4. ASSUME NEW left \in SUBSET Blobs, RecoverSnapshots(p, left) PROVE G
    BY <2>4 DEF RecoverSnapshots, TypeOK
  <2>5. ASSUME Discover(p) PROVE G
    BY <2>5 DEF Discover, TypeOK
  <2> QED
    BY <1>1, <2>1, <2>2, <2>3, <2>4, <2>5 DEF Recovery
<1>2. ASSUME Maintenance(p) PROVE G
  <2>1. ASSUME NEW b \in Blobs, NEW u \in BOOLEAN, NEW bd \in BOOLEAN,
               NEW mg \in BOOLEAN, NEW md \in BOOLEAN, Evict(p, b, u, bd, mg, md)
        PROVE G
    BY <2>1 DEF Evict, TypeOK
  <2>2. ASSUME NEW b \in Blobs, RefuseUnsafe(p, b) \/ Retain(p, b) PROVE G
    BY <2>2 DEF RefuseUnsafe, Retain, TypeOK
  <2>3. ASSUME Maintain(p) \/ StartWork(p) PROVE G
    BY <2>3 DEF Maintain, StartWork, TypeOK
  <2> QED
    BY <1>2, <2>1, <2>2, <2>3 DEF Maintenance
<1>3. ASSUME Materialization(p) PROVE G
  <2>1. ASSUME NEW b \in Blobs, Hit(p, b) \/ RefuseCorrupt(p, b) \/ PublishBlob(p, b)
        PROVE G
    BY <2>1 DEF Hit, RefuseCorrupt, PublishBlob, TypeOK
  <2>2. ASSUME NEW renamed \in BOOLEAN, NEW unlinked \in BOOLEAN,
               FailMark(p, renamed, unlinked)
        PROVE G
    BY <2>2 DEF FailMark, TypeOK
  <2>3. ASSUME Mark(p) \/ FinishMaterialize(p) PROVE G
    BY <2>3 DEF Mark, FinishMaterialize, TypeOK
  <2> QED
    BY <1>3, <2>1, <2>2, <2>3 DEF Materialization
<1>4. ASSUME SnapshotAndDocker(p) PROVE G
  BY <1>4 DEF SnapshotAndDocker, CreateSnapshot, FailSnapshot, FinishSnapshot,
              Abort, DockerSucceeds, DockerFails, TypeOK
<1>5. ASSUME Commit(p) PROVE G
  BY <1>5 DEF Commit, Verify, Publish, Untwin, FailUntwin, SyncPublication, TypeOK
<1>6. ASSUME Fault(p) PROVE G
  BY <1>6 DEF Fault, TypeOK
<1> QED
  BY <1>1, <1>2, <1>3, <1>4, <1>5, <1>6, Works(p) DEF Works

\* No step makes a possible second generation where a snapshot may be.
LEMMA SnapshotsStep ==
  TypeOK /\ MutualExclusion /\ GenerationsInv /\ SnapshotsInv /\ [Next]_vars
    => SnapshotsInv'
<1> SUFFICES ASSUME TypeOK, MutualExclusion, GenerationsInv, SnapshotsInv, [Next]_vars
             PROVE  SnapshotsInv'
  OBVIOUS
<1> DEFINE Two == \E m, n \in Visible \cup Synced : m < n
<1>1. ASSUME NEW p \in Builds, Works(p) PROVE SnapshotsInv'
  <2>1. \A q \in Builds \ {p} : pc'[q] = "idle"
    BY <1>1, WorksMoves, NoBuildAssumption DEF MutualExclusion, At, Moves
  <2>2. /\ snap' \subseteq snap \/ At(p, "link")
        /\ pc'[p] \in CommitSteps => snap' = {} \/ pc[p] \in CommitSteps
    BY <1>1, WorksSnapshots
  <2>3. At(p, "link") => vis = dur /\ Superseded(vis) = {} /\ ~Two
    BY DEF At, GenerationsInv, SyncedSteps, WorkSteps, Superseded, Visible, Synced, Present
  <2>4. Two' => Two \/ At(p, "publish")
    <3>1. CASE Publishes(p)
      BY <3>1 DEF Publishes
    <3>2. CASE Keeps(p) \/ Synchronises(p)
      BY <3>2 DEF Keeps, Synchronises, Visible, Synced, Present
    <3>3. CASE Retires(p)
      BY <3>3 DEF Retires, Visible, Synced, Present
    <3> QED
      BY <1>1, <3>1, <3>2, <3>3, WorksGenerations
  <2>5. ASSUME At(p, "link") PROVE ~Two' /\ pc'[p] \notin CommitSteps
    <3>1. pc'[p] \in CommitSteps => snap' = {}
      BY <2>2, <2>5 DEF At, CommitSteps
    <3>2. pc'[p] \in {"docker", "release", "link"}
      BY <1>1, <2>5 DEF Works, Recovery, Discover, Reconcile, CleanSuperseded, Retire,
         RecoverSnapshots, Maintenance, Maintain, Evict, RefuseUnsafe, Retain, StartWork,
         Materialization, Hit, RefuseCorrupt, PublishBlob, Mark, FailMark, FinishMaterialize,
         SnapshotAndDocker, CreateSnapshot, FailSnapshot, FinishSnapshot, Abort, DockerSucceeds,
         DockerFails, Commit, Verify, Publish, Untwin, FailUntwin, SyncPublication, Fault,
         At, Goto, Fail, Return, TypeOK
    <3> QED
      BY <2>3, <2>4, <2>5, <3>2 DEF At, CommitSteps
  <2>6. ~At(p, "link") => snap' \subseteq snap
    BY <2>2
  <2>7. Two' => snap' = {}
    BY <2>4, <2>5, <2>6 DEF SnapshotsInv, CommitSteps, At
  <2>8. pc'[p] \in CommitSteps => snap' = {}
    BY <2>2, <2>5, <2>6 DEF SnapshotsInv
  <2> QED
    BY <2>1, <2>7, <2>8 DEF SnapshotsInv, CommitSteps
<1>2. ASSUME NEW p \in Builds, Acquire(p) \/ Contend(p) \/ Release(p) \/ Kill(p)
      PROVE SnapshotsInv'
  <2>1. vis' = vis /\ dur' = dur /\ snap' = snap
    BY <1>2 DEF Acquire, Contend, Release, Kill, gens, cache
  <2>2. \A q \in Builds : pc'[q] \in {pc[q], "idle", "discover"}
    BY <1>2 DEF Acquire, Contend, Release, Kill, ResetBuild, Goto, locals, TypeOK
  <2> QED
    BY <2>1, <2>2 DEF SnapshotsInv, CommitSteps, Visible, Synced, Present
<1>3. ASSUME PowerLoss PROVE SnapshotsInv'
  BY <1>3 DEF PowerLoss, SnapshotsInv, CommitSteps, Visible, Synced, Present
<1>4. ASSUME TimePasses \/ UNCHANGED vars PROVE SnapshotsInv'
  BY <1>4 DEF TimePasses, procs, gens, vars, SnapshotsInv, Visible, Synced, Present
<1> QED
  BY <1>1, <1>2, <1>3, <1>4 DEF Next, NextPowered, Step, Works

\* What holds of the processes, the generations and the snapshots together.
StoreInv == TypeOK /\ MutualExclusion /\ GenerationsUnambiguous /\ GenerationsInv /\ SnapshotsInv

\* It holds whatever fails, is killed or loses power.
LEMMA StoreInvHolds == Spec => []StoreInv
<1>1. Init => StoreInv
  <2>1. Init => TypeOK /\ MutualExclusion
    BY MaxGenAssumption DEF Init, TypeOK, MutualExclusion, At
  <2>2. Init => GenerationsUnambiguous /\ GenerationsInv /\ SnapshotsInv
    BY DEF Init, GenerationsUnambiguous, GenerationsInv, SnapshotsInv, Visible, Synced,
       Present, SyncedSteps, WorkSteps, CommitSteps
  <2> QED
    BY <2>1, <2>2 DEF StoreInv
<1>2. StoreInv /\ [Next]_vars => StoreInv'
  BY TypeStep, LockStep, GenerationsStep, GenerationsInvStep, SnapshotsStep DEF StoreInv
<1> QED
  BY <1>1, <1>2, PTL DEF Spec

\* Whatever fails, is killed or loses power, no snapshot is left while a
\* predecessor waits for its cleanup: recovery, which comes before the removal
\* of snapshots and refuses a blob with two links, is never blocked by one.
THEOREM SnapshotsNeverBlockRecovery == Spec => []RecoveryNotBlockedBySnapshot
<1>1. StoreInv => RecoveryNotBlockedBySnapshot
  BY DEF StoreInv, SnapshotsInv, RecoveryNotBlockedBySnapshot, Superseded, Visible
<1> QED
  BY <1>1, StoreInvHolds, PTL

-----------------------------------------------------------------------------
(* Markers and blobs on disk: what a step may forget.                      *)

\* The visible marker is one of those a power loss may leave.
MarkersOnDisk == \A b \in Blobs : marker[b] \in markerDisk[b]

\* Before a predecessor is retired its own blobs are gone from the disk.
RetireInv ==
  \A p \in Builds :
    At(p, "retire") => \A b \in Candidates(vis) : blobDisk[b] = {"absent"}

\* How a running build removes markers, if it does: a committed blob's, a
\* superseded blob's, or one whose blob is gone from the disk.
Unmarks(p, gone) ==
  /\ gone \subseteq Blobs
  /\ vis' = vis /\ dur' = dur
  /\ \/ At(p, "reconcile") /\ gone \subseteq Live(vis)
     \/ At(p, "clean") /\ gone \subseteq Candidates(vis)
     \/ At(p, "scan") /\ \A b \in gone : blobDisk'[b] = {"absent"}

\* A running build leaves the markers alone, removes some, or writes fresh ones.
LEMMA WorksOnMarkers ==
  ASSUME TypeOK, NEW p \in Builds, Works(p)
  PROVE  \/ marker' = marker /\ markerDisk' = markerDisk
         \/ \E gone \in SUBSET Blobs, synced \in BOOLEAN :
              /\ Unmarks(p, gone)
              /\ WriteMarkers(Without(marker, gone, "none"), synced)
         \/ \E synced \in BOOLEAN :
              /\ At(p, "mark") /\ vis' = vis /\ dur' = dur
              /\ WriteMarkers(Without(marker, cur[p], "fresh"), synced)
<1> DEFINE Keeping == marker' = marker /\ markerDisk' = markerDisk
           Removing == \E gone \in SUBSET Blobs, synced \in BOOLEAN :
                         /\ Unmarks(p, gone)
                         /\ WriteMarkers(Without(marker, gone, "none"), synced)
           Marking == \E synced \in BOOLEAN :
                        /\ At(p, "mark") /\ vis' = vis /\ dur' = dur
                        /\ WriteMarkers(Without(marker, cur[p], "fresh"), synced)
           G == Keeping \/ Removing \/ Marking
<1> USE DEF gens, cache
<1>1. Live(vis) \subseteq Blobs /\ Candidates(vis) \subseteq Blobs
  BY DEF Live, Candidates
<1>2. ASSUME Recovery(p) PROVE G
  <2>1. ASSUME NEW gone \in SUBSET Blobs, NEW synced \in BOOLEAN,
               Reconcile(p, gone, synced)
        PROVE Removing
    <3>1. /\ At(p, "reconcile") /\ gone \subseteq Live(vis)
          /\ WriteMarkers(Without(marker, gone, "none"), synced)
          /\ vis' = vis /\ dur' = dur
      BY <2>1 DEF Reconcile
    <3> QED
      BY <1>1, <3>1 DEF Unmarks
  <2>2. ASSUME NEW gb \in SUBSET Blobs, NEW gm \in SUBSET Blobs,
               NEW sb \in BOOLEAN, NEW sm \in BOOLEAN,
               CleanSuperseded(p, gb, gm, sb, sm)
        PROVE G
    <3>1. /\ At(p, "clean") /\ gm \subseteq Candidates(vis)
          /\ vis' = vis /\ dur' = dur
      BY <2>2 DEF CleanSuperseded
    <3>2. Keeping \/ WriteMarkers(Without(marker, gm, "none"), sm)
      BY <2>2 DEF CleanSuperseded
    <3> QED
      BY <1>1, <3>1, <3>2 DEF Unmarks
  <2>3. ASSUME NEW synced \in BOOLEAN, NEW left \in SUBSET Blobs,
               Discover(p) \/ Retire(p, synced) \/ RecoverSnapshots(p, left)
        PROVE Keeping
    BY <2>3 DEF Discover, Retire, RecoverSnapshots
  <2> QED
    BY <1>2, <2>1, <2>2, <2>3 DEF Recovery
<1>3. ASSUME Maintenance(p) PROVE G
  <2>1. ASSUME NEW b \in Blobs, NEW u \in BOOLEAN, NEW bd \in BOOLEAN,
               NEW mg \in BOOLEAN, NEW md \in BOOLEAN, Evict(p, b, u, bd, mg, md)
        PROVE G
    <3>1. /\ At(p, "scan") /\ vis' = vis /\ dur' = dur
          /\ mg => bd
          /\ WriteBlobs(Without(blob, {b}, "absent"), bd)
          /\ IF mg THEN WriteMarkers(Without(marker, {b}, "none"), md) ELSE Keeping
      BY <2>1 DEF Evict
    <3>2. mg => blobDisk'[b] = {"absent"}
      BY <3>1 DEF WriteBlobs, Without, Settled
    <3>3. ASSUME mg PROVE Unmarks(p, {b})
      BY <3>1, <3>2, <3>3 DEF Unmarks
    <3> QED
      BY <3>1, <3>3
  <2>2. ASSUME NEW b \in Blobs, RefuseUnsafe(p, b) \/ Retain(p, b) PROVE Keeping
    BY <2>2 DEF RefuseUnsafe, Retain
  <2>3. ASSUME Maintain(p) \/ StartWork(p) PROVE Keeping
    BY <2>3 DEF Maintain, StartWork
  <2> QED
    BY <1>3, <2>1, <2>2, <2>3 DEF Maintenance
<1>4. ASSUME Materialization(p) PROVE G
  <2>1. ASSUME Mark(p) PROVE Marking
    BY <2>1 DEF Mark
  <2>2. ASSUME NEW renamed \in BOOLEAN, NEW unlinked \in BOOLEAN,
               FailMark(p, renamed, unlinked)
        PROVE Keeping \/ Marking
    BY <2>2 DEF FailMark
  <2>3. ASSUME NEW b \in Blobs, Hit(p, b) \/ RefuseCorrupt(p, b) \/ PublishBlob(p, b)
        PROVE Keeping
    BY <2>3 DEF Hit, RefuseCorrupt, PublishBlob
  <2>4. ASSUME FinishMaterialize(p) PROVE Keeping
    BY <2>4 DEF FinishMaterialize
  <2> QED
    BY <1>4, <2>1, <2>2, <2>3, <2>4 DEF Materialization
<1>5. ASSUME SnapshotAndDocker(p) \/ Commit(p) \/ Fault(p) PROVE Keeping
  BY <1>5 DEF SnapshotAndDocker, CreateSnapshot, FailSnapshot, FinishSnapshot, Abort,
     DockerSucceeds, DockerFails, Commit, Verify, Publish, Untwin, FailUntwin,
     SyncPublication, Fault
<1> QED
  BY <1>2, <1>3, <1>4, <1>5, Works(p) DEF Works

\* Every step keeps the visible marker among those that may be on disk.
LEMMA MarkersOnDiskStep == TypeOK /\ MarkersOnDisk /\ [Next]_vars => MarkersOnDisk'
<1> SUFFICES ASSUME TypeOK, MarkersOnDisk, [Next]_vars PROVE MarkersOnDisk'
  OBVIOUS
<1>1. ASSUME NEW p \in Builds, Works(p) PROVE MarkersOnDisk'
  <2>1. ASSUME NEW state, NEW synced \in BOOLEAN, WriteMarkers(state, synced)
        PROVE  MarkersOnDisk'
    BY <2>1 DEF WriteMarkers, Settled, Spread, MarkersOnDisk
  <2>2. ASSUME marker' = marker, markerDisk' = markerDisk PROVE MarkersOnDisk'
    BY <2>2 DEF MarkersOnDisk
  <2> QED
    BY <1>1, <2>1, <2>2, WorksOnMarkers
<1>2. ASSUME NEW p \in Builds, Acquire(p) \/ Contend(p) \/ Release(p) \/ Kill(p)
      PROVE MarkersOnDisk'
  BY <1>2 DEF Acquire, Contend, Release, Kill, cache, MarkersOnDisk
<1>3. ASSUME PowerLoss PROVE MarkersOnDisk'
  BY <1>3 DEF PowerLoss, Settled, MarkersOnDisk
<1>4. ASSUME TimePasses \/ UNCHANGED vars PROVE MarkersOnDisk'
  BY <1>4 DEF TimePasses, vars, MarkersOnDisk
<1> QED
  BY <1>1, <1>2, <1>3, <1>4 DEF Next, NextPowered, Step, Works

\* A build comes to retire a predecessor only from its cleanup, and only when
\* every candidate was found absent and the blob directory synchronised.
LEMMA WorksRetire ==
  ASSUME TypeOK, NEW p \in Builds, Works(p), pc'[p] = "retire"
  PROVE  vis' = vis /\ \A b \in Candidates(vis) : blobDisk'[b] = {"absent"}
<1> USE DEF At, Goto, Return, Fail, Recovered, gens, locals, cache
<1> DEFINE G == vis' = vis /\ \A b \in Candidates(vis) : blobDisk'[b] = {"absent"}
<1>1. ASSUME NEW gb \in SUBSET Blobs, NEW gm \in SUBSET Blobs,
             NEW sb \in BOOLEAN, NEW sm \in BOOLEAN,
             CleanSuperseded(p, gb, gm, sb, sm)
      PROVE G
  <2>1. vis' = vis
    BY <1>1 DEF CleanSuperseded
  <2>2. /\ {b \in Candidates(vis) : blob[b] = "absent"} \cup gb = Candidates(vis)
        /\ sb = TRUE
    BY <1>1 DEF CleanSuperseded, TypeOK
  <2>3. Candidates(vis) # {} => WriteBlobs(Without(blob, gb, "absent"), TRUE)
    BY <1>1, <2>2 DEF CleanSuperseded
  <2>4. ASSUME NEW b \in Candidates(vis) PROVE blobDisk'[b] = {"absent"}
    <3>1. b \in Blobs
      BY DEF Candidates
    <3>2. blob[b] = "absent" \/ b \in gb
      BY <2>2
    <3> QED
      BY <2>3, <3>1, <3>2 DEF WriteBlobs, Without, Settled
  <2> QED
    BY <2>1, <2>4
<1>2. ASSUME Recovery(p) PROVE G
  <2>1. ASSUME NEW gone \in SUBSET Blobs, NEW synced \in BOOLEAN,
               Reconcile(p, gone, synced)
        PROVE FALSE
    BY <2>1 DEF Reconcile, TypeOK
  <2>2. ASSUME NEW synced \in BOOLEAN, Retire(p, synced) PROVE FALSE
    BY <2>2 DEF Retire, TypeOK
  <2>3. ASSUME NEW left \in SUBSET Blobs, Discover(p) \/ RecoverSnapshots(p, left)
        PROVE FALSE
    BY <2>3 DEF Discover, RecoverSnapshots, TypeOK
  <2> QED
    BY <1>1, <1>2, <2>1, <2>2, <2>3 DEF Recovery
<1>3. ASSUME Maintenance(p) PROVE FALSE
  <2>1. ASSUME NEW b \in Blobs, NEW u \in BOOLEAN, NEW bd \in BOOLEAN,
               NEW mg \in BOOLEAN, NEW md \in BOOLEAN, Evict(p, b, u, bd, mg, md)
        PROVE FALSE
    BY <2>1 DEF Evict, Examined, TypeOK
  <2>2. ASSUME NEW b \in Blobs, RefuseUnsafe(p, b) \/ Retain(p, b) PROVE FALSE
    BY <2>2 DEF RefuseUnsafe, Retain, Examined, TypeOK
  <2>3. ASSUME Maintain(p) \/ StartWork(p) PROVE FALSE
    BY <2>3 DEF Maintain, StartWork, TypeOK
  <2> QED
    BY <1>3, <2>1, <2>2, <2>3 DEF Maintenance
<1>4. ASSUME Materialization(p) PROVE FALSE
  <2>1. ASSUME NEW b \in Blobs, Hit(p, b) \/ RefuseCorrupt(p, b) \/ PublishBlob(p, b)
        PROVE FALSE
    BY <2>1 DEF Hit, RefuseCorrupt, PublishBlob, Examined, TypeOK
  <2>2. ASSUME NEW renamed \in BOOLEAN, NEW unlinked \in BOOLEAN,
               FailMark(p, renamed, unlinked)
        PROVE FALSE
    BY <2>2 DEF FailMark, TypeOK
  <2>3. ASSUME Mark(p) \/ FinishMaterialize(p) PROVE FALSE
    BY <2>3 DEF Mark, FinishMaterialize, TypeOK
  <2> QED
    BY <1>4, <2>1, <2>2, <2>3 DEF Materialization
<1>5. ASSUME SnapshotAndDocker(p) PROVE FALSE
  BY <1>5 DEF SnapshotAndDocker, CreateSnapshot, FailSnapshot, FinishSnapshot,
     Abort, DockerSucceeds, DockerFails, TypeOK
<1>6. ASSUME Commit(p) \/ Fault(p) PROVE FALSE
  BY <1>6 DEF Commit, Verify, Publish, Untwin, FailUntwin, SyncPublication, Fault, TypeOK
<1> QED
  BY <1>2, <1>3, <1>4, <1>5, <1>6, Works(p) DEF Works

\* No step brings a build to retire a predecessor whose blobs may be on disk.
LEMMA RetireStep ==
  TypeOK /\ MutualExclusion /\ RetireInv /\ [Next]_vars => RetireInv'
<1> SUFFICES ASSUME TypeOK, MutualExclusion, RetireInv, [Next]_vars PROVE RetireInv'
  OBVIOUS
<1> USE DEF At
<1>1. ASSUME NEW p \in Builds, Works(p) PROVE RetireInv'
  <2>1. \A q \in Builds \ {p} : pc'[q] = "idle"
    BY <1>1, WorksMoves, NoBuildAssumption DEF MutualExclusion, Moves
  <2>2. ASSUME pc'[p] = "retire"
        PROVE \A b \in Candidates(vis)' : blobDisk'[b] = {"absent"}
    BY <1>1, <2>2, WorksRetire DEF Candidates, Live, Superseded, Present
  <2> QED
    BY <2>1, <2>2 DEF RetireInv
<1>2. ASSUME NEW p \in Builds, Acquire(p) \/ Contend(p) \/ Release(p) \/ Kill(p)
      PROVE RetireInv'
  <2>1. vis' = vis /\ blobDisk' = blobDisk
    BY <1>2 DEF Acquire, Contend, Release, Kill, gens, cache
  <2>2. \A q \in Builds : pc'[q] \in {pc[q], "idle", "discover"}
    BY <1>2 DEF Acquire, Contend, Release, Kill, ResetBuild, Goto, locals, TypeOK
  <2> QED
    BY <2>1, <2>2 DEF RetireInv, Candidates, Live, Superseded, Present
<1>3. ASSUME PowerLoss PROVE RetireInv'
  BY <1>3 DEF PowerLoss, RetireInv
<1>4. ASSUME TimePasses \/ UNCHANGED vars PROVE RetireInv'
  BY <1>4 DEF TimePasses, procs, gens, vars, RetireInv, Candidates, Live, Superseded,
     Present
<1> QED
  BY <1>1, <1>2, <1>3, <1>4 DEF Next, NextPowered, Step, Works

TrackedInv == StoreInv /\ MarkersOnDisk /\ RetireInv

\* What tracks a blob durably tracks it after the step, or the blob is gone.
StaysTracked(b) ==
  DurablyTracked(b) /\ blobDisk'[b] # {"absent"} => DurablyTracked(b)'

\* A running build forgets a blob only once it is certainly off the disk.
LEMMA WorksTracked ==
  ASSUME TrackedInv, NEW p \in Builds, Works(p), NEW b \in Blobs
  PROVE  StaysTracked(b)
<1> USE DEF TrackedInv, StoreInv
<1>1. ASSUME NEW n \in Visible \cap Synced, b \in vis[n], blobDisk'[b] # {"absent"}
      PROVE  \E k \in (Visible \cap Synced)' : b \in vis'[k]
  <2>1. ASSUME Keeps(p) PROVE n \in (Visible \cap Synced)' /\ b \in vis'[n]
    BY <1>1, <2>1 DEF Keeps, Visible, Synced, Present
  <2>2. ASSUME Synchronises(p) PROVE n \in (Visible \cap Synced)' /\ b \in vis'[n]
    BY <1>1, <2>2 DEF Synchronises, Visible, Synced, Present
  <2>3. ASSUME Publishes(p) PROVE n \in (Visible \cap Synced)' /\ b \in vis'[n]
    <3>1. PICK k \in Gens : /\ IsNext(k) /\ vis' = [vis EXCEPT ![k] = sel[p]]
                            /\ dur' = vis
      BY <2>3 DEF Publishes
    <3>2. n # k /\ n \in Gens
      BY <1>1, <3>1, MaxGenAssumption DEF IsNext, Visible, Present
    <3> QED
      BY <1>1, <3>1, <3>2 DEF Visible, Synced, Present, TypeOK
  <2>4. ASSUME Retires(p) PROVE \E k \in (Visible \cap Synced)' : b \in vis'[k]
    <3>1. /\ At(p, "retire") /\ vis = dur
          /\ vis' = [k \in Gens |-> IF k \in Superseded(vis) THEN NoManifest ELSE vis[k]]
          /\ dur' \in {vis', dur}
      BY <2>4 DEF Retires, GenerationsInv, SyncedSteps, At
    <3>2. blobDisk' = blobDisk
      BY <1>1, <2>4, Works(p) DEF Retires, At, Works, Recovery, Discover, Reconcile,
         CleanSuperseded, Retire, RecoverSnapshots, Maintenance, Maintain, Evict,
         RefuseUnsafe, Retain, StartWork, Materialization, Hit, RefuseCorrupt,
         PublishBlob, Mark, FailMark, FinishMaterialize, SnapshotAndDocker,
         CreateSnapshot, FailSnapshot, FinishSnapshot, Abort, DockerSucceeds,
         DockerFails, Commit, Verify, Publish, Untwin, FailUntwin, SyncPublication,
         Fault, cache
    <3>3. b \notin Candidates(vis)
      BY <1>1, <3>1, <3>2 DEF RetireInv
    <3>4. b \in Live(vis)
      BY <1>1, <3>3 DEF Candidates, Live, Visible
    <3>5. PICK k \in Present(vis) \ Superseded(vis) : b \in vis[k]
      BY <3>4 DEF Live
    <3>6. k \in (Visible \cap Synced)' /\ b \in vis'[k]
      BY <3>1, <3>5 DEF Visible, Synced, Present
    <3> QED
      BY <3>6
  <2> QED
    BY <2>1, <2>2, <2>3, <2>4, WorksGenerations
<1>2. ASSUME "none" \notin markerDisk[b], blobDisk'[b] # {"absent"},
             ~ \E n \in Visible \cap Synced : b \in vis[n]
      PROVE  "none" \notin markerDisk'[b]
  <2>1. marker[b] # "none" /\ marker[b] \in markerDisk[b]
    BY <1>2 DEF MarkersOnDisk
  <2>2. ASSUME NEW gone \in SUBSET Blobs, NEW synced \in BOOLEAN, Unmarks(p, gone),
               WriteMarkers(Without(marker, gone, "none"), synced)
        PROVE  "none" \notin markerDisk'[b]
    <3>1. ASSUME At(p, "reconcile") \/ At(p, "clean"),
                 gone \subseteq Live(vis) \cup Candidates(vis)
          PROVE  b \notin gone
      <4>1. vis = dur
        BY <3>1 DEF GenerationsInv, SyncedSteps, At
      <4>2. Visible = Visible \cap Synced
        BY <4>1 DEF Visible, Synced
      <4> QED
        BY <1>2, <3>1, <4>2 DEF Live, Candidates, Superseded, Visible
    <3>2. b \notin gone
      BY <1>2, <2>2, <3>1 DEF Unmarks
    <3> QED
      BY <1>2, <2>1, <2>2, <3>2 DEF WriteMarkers, Without, Settled, Spread
  <2>3. ASSUME NEW synced \in BOOLEAN,
               WriteMarkers(Without(marker, cur[p], "fresh"), synced)
        PROVE  "none" \notin markerDisk'[b]
    BY <1>2, <2>1, <2>3 DEF WriteMarkers, Without, Settled, Spread
  <2> QED
    BY <1>2, <2>2, <2>3, WorksOnMarkers
<1>3. DurablyTracked(b)' <=> \/ \E k \in (Visible \cap Synced)' : b \in vis'[k]
                             \/ "none" \notin markerDisk'[b]
  BY DEF DurablyTracked
<1> QED
  BY <1>1, <1>2, <1>3 DEF StaysTracked, DurablyTracked

\* No step of anything forgets a blob that may still be on disk.
LEMMA TrackedStep ==
  TrackedInv /\ [Next]_vars => \A b \in Blobs : StaysTracked(b)
<1> SUFFICES ASSUME TrackedInv, [Next]_vars, NEW b \in Blobs PROVE StaysTracked(b)
  OBVIOUS
<1> USE DEF StaysTracked, DurablyTracked, Visible, Synced, Present
<1>1. ASSUME NEW p \in Builds, Works(p) PROVE StaysTracked(b)
  BY <1>1, WorksTracked
<1>2. ASSUME NEW p \in Builds, Acquire(p) \/ Contend(p) \/ Release(p) \/ Kill(p)
      PROVE StaysTracked(b)
  BY <1>2 DEF Acquire, Contend, Release, Kill, gens, cache
<1>3. ASSUME PowerLoss PROVE StaysTracked(b)
  <2>1. ASSUME NEW n \in Visible \cap Synced, b \in vis[n]
        PROVE n \in (Visible \cap Synced)' /\ b \in vis'[n]
    BY <1>3, <2>1 DEF PowerLoss, TrackedInv, StoreInv, GenerationsInv
  <2>2. ASSUME "none" \notin markerDisk[b] PROVE "none" \notin markerDisk'[b]
    BY <1>3, <2>2 DEF PowerLoss, Settled
  <2> QED
    BY <2>1, <2>2
<1>4. ASSUME TimePasses PROVE StaysTracked(b)
  BY <1>4 DEF TimePasses, gens, Aged
<1>5. ASSUME UNCHANGED vars PROVE StaysTracked(b)
  BY <1>5 DEF vars
<1> QED
  BY <1>1, <1>2, <1>3, <1>4, <1>5 DEF Next, NextPowered, Step, Works

\* The invariant under TrackedStaysTracked.
LEMMA TrackedInvHolds == Spec => []TrackedInv
<1>1. Init => MarkersOnDisk /\ RetireInv
  BY DEF Init, MarkersOnDisk, RetireInv, At
<1>2. StoreInv /\ MarkersOnDisk /\ RetireInv /\ [Next]_vars
        => (MarkersOnDisk /\ RetireInv)'
  BY MarkersOnDiskStep, RetireStep DEF StoreInv
<1> QED
  BY <1>1, <1>2, StoreInvHolds, PTL DEF Spec, TrackedInv

\* No step, no kill and no power loss makes the store forget a blob it keeps,
\* however many blobs, generations and builds there are.
THEOREM TrackedBlobsStayTracked == Spec => TrackedStaysTracked
<1>1. TrackedInv /\ [Next]_vars =>
        [\A b \in Blobs : DurablyTracked(b) /\ blobDisk'[b] # {"absent"}
                            => DurablyTracked(b)']_vars
  BY TrackedStep DEF StaysTracked
<1> QED
  BY <1>1, TrackedInvHolds, PTL DEF Spec, TrackedStaysTracked

-----------------------------------------------------------------------------
(* What a build reports.                                                   *)

\* After the publication of its generation a build is in the cleanup of the
\* commit; what it has published, settled, reconciled and retired so far.
ResultInv ==
  \A p \in Builds :
    /\ phase[p] = "commit" =>
         /\ pc[p] \in {"reconcile", "clean", "retire", "release"}
         /\ Live(vis) = sel[p] /\ Live(dur) = sel[p] /\ snap = {}
    /\ pc[p] \in {"untwin", "pubsync"} => Live(vis) = sel[p]
    /\ pc[p] \in {"clean", "retire"} => Unmarked
    /\ pc[p] = "release" =>
         /\ outcome[p] = "success" =>
              /\ phase[p] = "commit"
              /\ vis = dur /\ Superseded(vis) = {} /\ Unmarked
         /\ outcome[p] = "committed" => phase[p] = "commit"

\* A build has the phase of the commit from the moment its generation is
\* settled; a result says which phase it comes from, and success means that
\* nothing was left to clean or that the predecessor was just retired.
Concludes(p) ==
  /\ sel' = sel
  /\ \A q \in Builds \ {p} : phase'[q] = phase[q]
  /\ \/ phase'[p] = phase[p]
     \/ /\ At(p, "pubsync") /\ pc'[p] = "reconcile"
        /\ vis' = vis /\ dur' = vis
  /\ phase[p] = "commit" /\ pc[p] \in {"reconcile", "clean", "retire"} =>
       pc'[p] \in {"clean", "retire", "release"}
  /\ pc'[p] = "pubsync" => At(p, "untwin") /\ vis' = vis
  /\ pc'[p] = "untwin" => Publishes(p)
  /\ pc'[p] = "clean" => At(p, "reconcile") /\ vis' = vis
  /\ pc'[p] = "retire" => At(p, "clean") /\ vis' = vis
  /\ pc'[p] = "release" =>
       /\ phase'[p] = phase[p]
       /\ outcome'[p] = "committed" => phase[p] = "commit"
       /\ outcome'[p] = "success" =>
            /\ phase[p] = "commit"
            /\ \/ /\ At(p, "reconcile") /\ Superseded(vis) = {}
                  /\ vis' = vis /\ dur' = dur
               \/ Retires(p) /\ dur' = vis'

\* Whatever a running build does, that is how it comes to a result.
LEMMA WorksConcludes == ASSUME TypeOK, NEW p \in Builds, Works(p) PROVE Concludes(p)
<1> USE DEF At, Goto, Return, Fail, Recovered, gens, locals, cache, Concludes
<1>1. ASSUME Recovery(p) PROVE Concludes(p)
  <2>1. ASSUME NEW gb \in SUBSET Blobs, NEW gm \in SUBSET Blobs,
               NEW sb \in BOOLEAN, NEW sm \in BOOLEAN,
               CleanSuperseded(p, gb, gm, sb, sm)
        PROVE Concludes(p)
    BY <2>1 DEF CleanSuperseded, TypeOK
  <2>2. ASSUME NEW gone \in SUBSET Blobs, NEW synced \in BOOLEAN,
               Reconcile(p, gone, synced)
        PROVE Concludes(p)
    BY <2>2 DEF Reconcile, TypeOK
  <2>3. ASSUME NEW synced \in BOOLEAN, Retire(p, synced) PROVE Concludes(p)
    BY <2>3 DEF Retire, Retires, TypeOK
  <2>4. ASSUME NEW left \in SUBSET Blobs, RecoverSnapshots(p, left)
        PROVE Concludes(p)
    BY <2>4 DEF RecoverSnapshots, TypeOK
  <2>5. ASSUME Discover(p) PROVE Concludes(p)
    BY <2>5 DEF Discover, TypeOK
  <2> QED
    BY <1>1, <2>1, <2>2, <2>3, <2>4, <2>5 DEF Recovery
<1>2. ASSUME Maintenance(p) PROVE Concludes(p)
  <2>1. ASSUME NEW b \in Blobs, NEW u \in BOOLEAN, NEW bd \in BOOLEAN,
               NEW mg \in BOOLEAN, NEW md \in BOOLEAN, Evict(p, b, u, bd, mg, md)
        PROVE Concludes(p)
    BY <2>1 DEF Evict, Examined, TypeOK
  <2>2. ASSUME NEW b \in Blobs, RefuseUnsafe(p, b) \/ Retain(p, b)
        PROVE Concludes(p)
    BY <2>2 DEF RefuseUnsafe, Retain, Examined, TypeOK
  <2>3. ASSUME Maintain(p) \/ StartWork(p) PROVE Concludes(p)
    BY <2>3 DEF Maintain, StartWork, TypeOK
  <2> QED
    BY <1>2, <2>1, <2>2, <2>3 DEF Maintenance
<1>3. ASSUME Materialization(p) PROVE Concludes(p)
  <2>1. ASSUME NEW b \in Blobs, Hit(p, b) \/ RefuseCorrupt(p, b) \/ PublishBlob(p, b)
        PROVE Concludes(p)
    BY <2>1 DEF Hit, RefuseCorrupt, PublishBlob, Examined, TypeOK
  <2>2. ASSUME NEW renamed \in BOOLEAN, NEW unlinked \in BOOLEAN,
               FailMark(p, renamed, unlinked)
        PROVE Concludes(p)
    BY <2>2 DEF FailMark, TypeOK
  <2>3. ASSUME Mark(p) \/ FinishMaterialize(p) PROVE Concludes(p)
    BY <2>3 DEF Mark, FinishMaterialize, TypeOK
  <2> QED
    BY <1>3, <2>1, <2>2, <2>3 DEF Materialization
<1>4. ASSUME SnapshotAndDocker(p) PROVE Concludes(p)
  BY <1>4 DEF SnapshotAndDocker, CreateSnapshot, FailSnapshot, FinishSnapshot, Abort,
     DockerSucceeds, DockerFails, TypeOK
<1>5. ASSUME Commit(p) PROVE Concludes(p)
  <2>1. ASSUME Publish(p) PROVE Concludes(p)
    BY <2>1 DEF Publish, Publishes, SyncGenerations, TypeOK
  <2>2. ASSUME Verify(p) \/ Untwin(p) PROVE Concludes(p)
    BY <2>2 DEF Verify, Untwin, TypeOK
  <2>3. ASSUME NEW discarded \in BOOLEAN, FailUntwin(p, discarded) PROVE Concludes(p)
    BY <2>3 DEF FailUntwin, TypeOK
  <2>4. ASSUME SyncPublication(p) PROVE Concludes(p)
    BY <2>4 DEF SyncPublication, SyncGenerations, TypeOK
  <2> QED
    BY <1>5, <2>1, <2>2, <2>3, <2>4 DEF Commit
<1>6. ASSUME Fault(p) PROVE Concludes(p)
  BY <1>6 DEF Fault, TypeOK
<1> QED
  BY <1>1, <1>2, <1>3, <1>4, <1>5, <1>6, Works(p) DEF Works

\* A build that leaves the reconciliation without a failure leaves no marker of
\* a committed blob on disk, and neither it nor a cleanup makes one.
LEMMA WorksReconciled ==
  ASSUME TypeOK, MarkersOnDisk, NEW p \in Builds, Works(p)
  PROVE  /\ At(p, "reconcile")
              /\ (pc'[p] = "clean" \/ (pc'[p] = "release" /\ outcome'[p] = "success"))
              => \A b \in Live(vis) : markerDisk'[b] = {"none"}
         /\ pc[p] \in {"clean", "retire"} /\ Unmarked
              => \A b \in Live(vis) : markerDisk'[b] = {"none"}
<1> DEFINE Clean == \A b \in Live(vis) : markerDisk'[b] = {"none"}
<1>1. Live(vis) \subseteq Blobs
  BY DEF Live
<1>2. ASSUME At(p, "reconcile"),
             pc'[p] = "clean" \/ (pc'[p] = "release" /\ outcome'[p] = "success")
      PROVE Clean
  <2>1. PICK gone \in SUBSET Blobs, synced \in BOOLEAN : Reconcile(p, gone, synced)
    <3>1. ~Fault(p)
      BY <1>2 DEF Fault, Fail, Return, Goto, TypeOK
    <3> QED
      BY <1>2, <3>1, Works(p) DEF Works, Recovery, Discover, Reconcile, CleanSuperseded,
         Retire, RecoverSnapshots, Maintenance, Maintain, Evict, RefuseUnsafe, Retain,
         StartWork, Materialization, Hit, RefuseCorrupt, PublishBlob, Mark, FailMark,
         FinishMaterialize, SnapshotAndDocker, CreateSnapshot, FailSnapshot,
         FinishSnapshot, Abort, DockerSucceeds, DockerFails, Commit, Verify, Publish,
         Untwin, FailUntwin, SyncPublication, At
  <2>2. gone = {b \in Live(vis) : marker[b] # "none"} /\ synced = TRUE
    BY <1>2, <2>1 DEF Reconcile, Fail, Return, Goto, TypeOK
  <2>3. \A b \in Live(vis) : marker'[b] = "none" /\ markerDisk'[b] = {marker'[b]}
    BY <1>1, <2>1, <2>2 DEF Reconcile, WriteMarkers, Without, Settled
  <2> QED
    BY <2>3
<1>3. ASSUME pc[p] \in {"clean", "retire"}, Unmarked PROVE Clean
  <2>1. ASSUME NEW b \in Live(vis) PROVE markerDisk'[b] = {"none"}
    <3>1. b \in Blobs /\ markerDisk[b] = {"none"} /\ marker[b] = "none"
      BY <1>1, <1>3 DEF Unmarked, MarkersOnDisk
    <3>2. ASSUME NEW gone \in SUBSET Blobs, NEW synced \in BOOLEAN,
                 WriteMarkers(Without(marker, gone, "none"), synced)
          PROVE  markerDisk'[b] = {"none"}
      BY <3>1, <3>2 DEF WriteMarkers, Without, Settled, Spread
    <3> QED
      BY <1>3, <3>1, <3>2, WorksOnMarkers DEF At
  <2> QED
    BY <2>1
<1> QED
  BY <1>2, <1>3

\* The newest set of a generation that was just published is the selection,
\* and retiring a predecessor does not change it.
LEMMA LiveOfPublished ==
  ASSUME TypeOK, NEW p \in Builds, Publishes(p) PROVE Live(vis)' = sel[p]
<1>1. PICK n \in Gens : IsNext(n) /\ vis' = [vis EXCEPT ![n] = sel[p]]
  BY DEF Publishes
<1>2. sel[p] \in SUBSET Blobs /\ vis'[n] = sel[p] /\ n \in Present(vis)'
  BY <1>1, NoManifestAssumption DEF TypeOK, Present
<1>3. \A m \in Present(vis)' : m # n => m < n
  BY <1>1 DEF IsNext, Present, TypeOK
<1>4. (Present(vis) \ Superseded(vis))' = {n}
  BY <1>2, <1>3, MaxGenAssumption DEF Superseded, Present
<1> QED
  BY <1>2, <1>4 DEF Live

\* See LiveOfPublished.
LEMMA LiveOfRetired ==
  ASSUME TypeOK, NEW p \in Builds, Retires(p)
  PROVE  Live(vis)' = Live(vis) /\ Superseded(vis)' = {}
<1>1. vis' = [n \in Gens |-> IF n \in Superseded(vis) THEN NoManifest ELSE vis[n]]
  BY DEF Retires
<1>2. Superseded(vis)' = {} /\ Present(vis)' = Present(vis) \ Superseded(vis)
  BY <1>1 DEF Superseded, Present
<1> QED
  BY <1>1, <1>2 DEF Live, Present

\* The invariant under ResultHonest.
ReportInv == StoreInv /\ MarkersOnDisk /\ ResultInv

\* Every step of a running build keeps ResultInv.
LEMMA WorksResults == ASSUME ReportInv, NEW p \in Builds, Works(p) PROVE ResultInv'
<1> USE DEF ReportInv, StoreInv
<1> DEFINE Same == Live(vis)' = Live(vis) /\ Live(dur)' = Live(dur)
           Commits == phase'[p] = "commit"
<1>1. Concludes(p)
  BY WorksConcludes
<1>2. /\ \A q \in Builds \ {p} : pc'[q] = "idle" /\ pc[q] = "idle"
      /\ pc[p] \in Steps \ {"idle", "release"}
  BY WorksMoves, NoBuildAssumption DEF MutualExclusion, At, Moves
<1>3. \A q \in Builds \ {p} : phase'[q] # "commit"
  BY <1>1, <1>2 DEF Concludes, ResultInv
<1>4. ASSUME pc[p] \in SyncedSteps PROVE vis = dur
  BY <1>4 DEF GenerationsInv
<1>5. ASSUME Commits
      PROVE /\ pc'[p] \in {"reconcile", "clean", "retire", "release"}
            /\ Live(vis)' = sel[p] /\ Live(dur)' = sel[p] /\ snap' = {}
  <2>1. CASE phase[p] = "commit"
    <3>1. pc[p] \in {"reconcile", "clean", "retire"} /\ vis = dur
      BY <1>2, <1>4, <2>1 DEF ResultInv, SyncedSteps
    <3>2. pc'[p] \in {"clean", "retire", "release"}
      BY <1>1, <2>1, <3>1 DEF Concludes
    <3>3. snap' = {}
      BY <2>1, <3>1, WorksSnapshots DEF ResultInv, At
    <3>4. ~Publishes(p)
      BY <3>1 DEF Publishes, At
    <3>5. Live(vis)' = Live(vis) /\ (dur' = dur \/ dur' = vis' \/ dur' = vis)
      <4>1. ASSUME Keeps(p) \/ Synchronises(p)
            PROVE  vis' = vis /\ (dur' = dur \/ dur' = vis' \/ dur' = vis)
        BY <4>1 DEF Keeps, Synchronises
      <4>2. ASSUME Retires(p) PROVE dur' = dur \/ dur' = vis'
        BY <4>2 DEF Retires
      <4>3. vis' = vis => Live(vis)' = Live(vis)
        BY DEF Live, Present, Superseded
      <4> QED
        BY <3>4, <4>1, <4>2, <4>3, WorksGenerations, LiveOfRetired
    <3>6. Live(dur)' = Live(vis)
      BY <3>1, <3>5 DEF Live, Present, Superseded
    <3> QED
      BY <2>1, <3>2, <3>3, <3>5, <3>6 DEF ResultInv
  <2>2. CASE phase[p] # "commit"
    <3>1. At(p, "pubsync") /\ pc'[p] = "reconcile" /\ vis' = vis /\ dur' = vis
      BY <1>1, <1>5, <2>2 DEF Concludes
    <3>2. snap' = {}
      BY <3>1, WorksSnapshots DEF SnapshotsInv, CommitSteps, At
    <3>3. Live(vis) = sel[p]
      BY <3>1 DEF ResultInv, At
    <3> QED
      BY <3>1, <3>2, <3>3 DEF Live, Present, Superseded
  <2> QED
    BY <2>1, <2>2
<1>6. ASSUME pc'[p] \in {"untwin", "pubsync"} PROVE Live(vis)' = sel[p]
  <2>1. ASSUME At(p, "untwin"), vis' = vis PROVE Live(vis)' = sel[p]
    BY <2>1 DEF ResultInv, At, Live, Present, Superseded
  <2> QED
    BY <1>1, <1>6, <2>1, LiveOfPublished DEF Concludes
<1>7. ASSUME pc'[p] \in {"clean", "retire"} PROVE Unmarked'
  <2>1. vis' = vis /\ pc[p] \in {"reconcile", "clean"}
    BY <1>1, <1>7 DEF Concludes, At
  <2>2. \A b \in Live(vis) : markerDisk'[b] = {"none"}
    BY <1>1, <1>7, WorksReconciled DEF Concludes, ResultInv, At
  <2> QED
    BY <2>1, <2>2 DEF Unmarked, Live, Present, Superseded
<1>8. ASSUME pc'[p] = "release", outcome'[p] = "success"
      PROVE  /\ Commits /\ Unmarked'
             /\ vis' = dur' /\ Superseded(vis)' = {}
  <2>1. phase[p] = "commit" /\ Commits
    BY <1>1, <1>8 DEF Concludes
  <2>2. ASSUME At(p, "reconcile"), Superseded(vis) = {}, vis' = vis, dur' = dur
        PROVE  Unmarked' /\ vis' = dur' /\ Superseded(vis)' = {}
    <3>1. \A b \in Live(vis) : markerDisk'[b] = {"none"}
      BY <1>8, <2>2, WorksReconciled
    <3>2. vis = dur
      BY <1>4, <2>2 DEF At, SyncedSteps
    <3> QED
      BY <2>2, <3>1, <3>2 DEF Unmarked, Live, Present, Superseded
  <2>3. ASSUME Retires(p), dur' = vis'
        PROVE  Unmarked' /\ vis' = dur' /\ Superseded(vis)' = {}
    <3>1. At(p, "retire")
      BY <2>3 DEF Retires
    <3>2. \A b \in Live(vis) : markerDisk'[b] = {"none"}
      BY <3>1, WorksReconciled DEF ResultInv, At
    <3> QED
      BY <2>3, <3>2, LiveOfRetired DEF Unmarked
  <2> QED
    BY <1>1, <1>8, <2>1, <2>2, <2>3 DEF Concludes
<1>9. ASSUME pc'[p] = "release", outcome'[p] = "committed" PROVE Commits
  BY <1>1, <1>9 DEF Concludes
<1>10. sel' = sel
  BY <1>1 DEF Concludes
<1> QED
  BY <1>2, <1>3, <1>5, <1>6, <1>7, <1>8, <1>9, <1>10 DEF ResultInv

\* Every step keeps it.
LEMMA ResultStep == ReportInv /\ [Next]_vars => ResultInv'
<1> SUFFICES ASSUME ReportInv, [Next]_vars PROVE ResultInv'
  OBVIOUS
<1> USE DEF ReportInv, StoreInv
<1>1. ASSUME NEW p \in Builds, Works(p) PROVE ResultInv'
  BY <1>1, WorksResults
<1>2. ASSUME NEW p \in Builds, Acquire(p) \/ Contend(p) \/ Release(p) \/ Kill(p)
      PROVE ResultInv'
  <2>1. /\ vis' = vis /\ dur' = dur /\ snap' = snap /\ markerDisk' = markerDisk
    BY <1>2 DEF Acquire, Contend, Release, Kill, gens, cache
  <2>2. /\ Live(vis)' = Live(vis) /\ Live(dur)' = Live(dur)
        /\ Superseded(vis)' = Superseded(vis) /\ Unmarked' = Unmarked
    BY <2>1 DEF Live, Superseded, Present, Unmarked
  <2>3. \A q \in Builds :
          \/ /\ pc'[q] = pc[q] /\ phase'[q] = phase[q] /\ sel'[q] = sel[q]
             /\ outcome'[q] = outcome[q] \/ pc[q] = "idle"
          \/ phase'[q] = "recover" /\ pc'[q] \in {"idle", "discover"}
    BY <1>2 DEF Acquire, Contend, Release, Kill, ResetBuild, Goto, locals, At, TypeOK
  <2> QED
    BY <2>1, <2>2, <2>3 DEF ResultInv
<1>3. ASSUME PowerLoss PROVE ResultInv'
  BY <1>3 DEF PowerLoss, ResultInv
<1>4. ASSUME TimePasses PROVE ResultInv'
  <2>1. Unmarked => Unmarked'
    <3>1. vis' = vis /\ \A b \in Blobs : markerDisk'[b] = {Aged(m) : m \in markerDisk[b]}
      BY <1>4 DEF TimePasses, gens
    <3> QED
      BY <3>1 DEF Unmarked, Aged, Live, Superseded, Present
  <2>2. /\ Live(vis)' = Live(vis) /\ Live(dur)' = Live(dur)
        /\ Superseded(vis)' = Superseded(vis)
    BY <1>4 DEF TimePasses, gens, Live, Superseded, Present
  <2> QED
    BY <1>4, <2>1, <2>2 DEF TimePasses, procs, gens, ResultInv
<1>5. ASSUME UNCHANGED vars PROVE ResultInv'
  <2>1. /\ Live(vis)' = Live(vis) /\ Live(dur)' = Live(dur)
        /\ Superseded(vis)' = Superseded(vis) /\ Unmarked' = Unmarked
    BY <1>5 DEF vars, Live, Superseded, Present, Unmarked
  <2> QED
    BY <1>5, <2>1 DEF vars, ResultInv
<1> QED
  BY <1>1, <1>2, <1>3, <1>4, <1>5 DEF Next, NextPowered, Step, Works

\* A build says what is the case: success means its selection is committed
\* alone, on disk, unmarked and without a snapshot, and a failure after the
\* commit that the selection is the durable authority.  This under power
\* losses too, for any number of builds, blobs and generations.
THEOREM ResultsAreHonest == Spec => []ResultHonest
<1>1. Init => ResultInv
  BY DEF Init, ResultInv
<1>2. Init => MarkersOnDisk
  BY DEF Init, MarkersOnDisk
<1>3. StoreInv /\ MarkersOnDisk /\ [Next]_vars => MarkersOnDisk'
  BY MarkersOnDiskStep DEF StoreInv
<1>4. StoreInv /\ MarkersOnDisk /\ ResultInv /\ [Next]_vars => ResultInv'
  BY ResultStep DEF ReportInv
<1>5. StoreInv /\ ResultInv => ResultHonest
  <2> SUFFICES ASSUME StoreInv, ResultInv, NEW p \in Builds, At(p, "release")
               PROVE  /\ outcome[p] = "success" =>
                           /\ vis = dur /\ Superseded(vis) = {} /\ Live(vis) = sel[p]
                           /\ snap = {} /\ \A b \in sel[p] : markerDisk[b] = {"none"}
                      /\ outcome[p] = "committed" =>
                           Live(vis) = sel[p] /\ Live(dur) = sel[p]
    BY DEF ResultHonest
  <2> QED
    BY DEF ResultInv, Unmarked, At
<1> QED
  BY <1>1, <1>2, <1>3, <1>4, <1>5, StoreInvHolds, PTL DEF Spec

-----------------------------------------------------------------------------
(* The build store implements the committed set.                           *)

\* What is visible and what is on disk differ by a publication that was not
\* synchronised or by a retirement that was not, never by more: the newest
\* generation a power loss leaves is the visible one or the synchronised one.
NewestKept ==
  \/ vis = dur
  \/ \E n \in Gens : Visible = Synced \cup {n} /\ \A m \in Synced : m < n
  \/ Visible \subseteq Synced /\ \A n \in Synced : \E m \in Visible : n <= m

\* A blob that is not marked yet is remembered until the build is over, and a
\* selection is published only while it is held.
ControlInv ==
  \A p \in Builds :
    /\ cur[p] # {} => pc[p] \in {"mark", "release"}
    /\ pc[p] = "publish" => \A b \in sel[p] : blob[b] = "ok"

RefineInv == StoreInv /\ NewestKept /\ ControlInv

\* Every step keeps NewestKept.
LEMMA NewestStep ==
  TypeOK /\ GenerationsUnambiguous /\ GenerationsInv /\ NewestKept /\ [Next]_vars
    => NewestKept'
<1> SUFFICES ASSUME TypeOK, GenerationsUnambiguous, GenerationsInv, NewestKept,
                    [Next]_vars
             PROVE  NewestKept'
  OBVIOUS
<1> USE DEF NewestKept, Visible, Synced, Present
<1>1. ASSUME NEW p \in Builds, Works(p) PROVE NewestKept'
  <2>1. ASSUME Keeps(p) \/ Synchronises(p) PROVE NewestKept'
    BY <2>1 DEF Keeps, Synchronises
  <2>2. ASSUME Publishes(p) PROVE NewestKept'
    <3>1. PICK n \in Gens : /\ IsNext(n) /\ vis' = [vis EXCEPT ![n] = sel[p]]
                            /\ dur' = vis
      BY <2>2 DEF Publishes
    <3>2. vis'[n] # NoManifest
      BY <3>1, NoManifestAssumption DEF TypeOK
    <3>3. Visible' = Synced' \cup {n} /\ \A m \in Synced' : m < n
      BY <3>1, <3>2 DEF IsNext, TypeOK
    <3> QED
      BY <3>3
  <2>3. ASSUME Retires(p) PROVE NewestKept'
    <3>1. /\ vis = dur /\ dur' \in {vis', dur}
          /\ vis' = [n \in Gens |-> IF n \in Superseded(vis) THEN NoManifest ELSE vis[n]]
      BY <2>3 DEF Retires, At, GenerationsInv, SyncedSteps
    <3>2. Visible' = Visible \ Superseded(vis)
      BY <3>1 DEF Superseded
    <3>3. \A n \in Visible : \E m \in Visible \ Superseded(vis) : n <= m
      <4>1. \A m, n \in Visible : m < n => n = m + 1
        BY DEF GenerationsUnambiguous
      <4> QED
        BY <4>1, MaxGenAssumption DEF Superseded
    <3> QED
      BY <3>1, <3>2, <3>3
  <2> QED
    BY <1>1, <2>1, <2>2, <2>3, WorksGenerations
<1>2. ASSUME NEW p \in Builds, Acquire(p) \/ Contend(p) \/ Release(p) \/ Kill(p)
      PROVE NewestKept'
  BY <1>2 DEF Acquire, Contend, Release, Kill, gens
<1>3. ASSUME PowerLoss \/ TimePasses \/ UNCHANGED vars PROVE NewestKept'
  BY <1>3 DEF PowerLoss, TimePasses, gens, vars
<1> QED
  BY <1>1, <1>2, <1>3 DEF Next, NextPowered, Step, Works

\* What a running build does to the blobs and to the one it has not marked.
Stores(p) ==
  \/ blob' = blob /\ cur' = cur
  \/ \E b \in Blobs :
       /\ At(p, "materialize") /\ pc'[p] = "mark" /\ blob[b] = "absent"
       /\ blob' = [blob EXCEPT ![b] = "ok"] /\ cur' = [cur EXCEPT ![p] = {b}]
  \/ At(p, "mark") /\ blob' = blob /\ cur' = [cur EXCEPT ![p] = {}]
  \/ At(p, "mark") /\ blob' = Without(blob, cur[p], "absent") /\ cur' = cur
  \/ \E gone \in SUBSET (Blobs \ Live(vis)) :
       /\ pc[p] \in {"clean", "scan"}
       /\ blob' = Without(blob, gone, "absent") /\ cur' = cur

\* A running build stores and removes blobs in one of these ways, and leaves
\* the marking only with nothing unmarked or for good.
LEMMA WorksStores ==
  ASSUME TypeOK, NEW p \in Builds, Works(p)
  PROVE  /\ Stores(p)
         /\ At(p, "mark") => pc'[p] = "release" \/ cur'[p] = {}
         /\ At(p, "publish") => blob' = blob /\ cur' = cur
         /\ pc[p] \in {"mark", "clean", "scan"} => vis' = vis /\ dur' = dur
<1> DEFINE G == /\ Stores(p)
                /\ At(p, "mark") => pc'[p] = "release" \/ cur'[p] = {}
                /\ At(p, "publish") => blob' = blob /\ cur' = cur
                /\ pc[p] \in {"mark", "clean", "scan"} => vis' = vis /\ dur' = dur
<1> USE DEF At, gens, locals, cache
<1>1. ASSUME blob' = blob, cur' = cur, pc[p] \notin {"mark", "clean", "scan"} PROVE G
  BY <1>1 DEF Stores
<1>2. ASSUME Recovery(p) PROVE G
  <2>1. ASSUME NEW gb \in SUBSET Blobs, NEW gm \in SUBSET Blobs,
               NEW sb \in BOOLEAN, NEW sm \in BOOLEAN,
               CleanSuperseded(p, gb, gm, sb, sm)
        PROVE G
    <3>1. /\ pc[p] = "clean" /\ vis' = vis /\ dur' = dur /\ cur' = cur
          /\ gb \subseteq Candidates(vis)
          /\ blob' = blob \/ blob' = Without(blob, gb, "absent")
      BY <2>1 DEF CleanSuperseded, WriteBlobs
    <3>2. gb \in SUBSET (Blobs \ Live(vis))
      BY <3>1 DEF Candidates
    <3> QED
      BY <3>1, <3>2 DEF Stores
  <2>2. ASSUME NEW gone \in SUBSET Blobs, NEW synced \in BOOLEAN,
               Reconcile(p, gone, synced)
        PROVE G
    BY <1>1, <2>2 DEF Reconcile
  <2>3. ASSUME NEW synced \in BOOLEAN, Retire(p, synced) PROVE G
    BY <1>1, <2>3 DEF Retire
  <2>4. ASSUME NEW left \in SUBSET Blobs, Discover(p) \/ RecoverSnapshots(p, left)
        PROVE G
    BY <1>1, <2>4 DEF Discover, RecoverSnapshots
  <2>5. ASSUME Discover(p) PROVE G
    BY <1>1, <2>5 DEF Discover
  <2> QED
    BY <1>2, <2>1, <2>2, <2>3, <2>4, <2>5 DEF Recovery
<1>3. ASSUME Maintenance(p) PROVE G
  <2>1. ASSUME NEW b \in Blobs, NEW u \in BOOLEAN, NEW bd \in BOOLEAN,
               NEW mg \in BOOLEAN, NEW md \in BOOLEAN, Evict(p, b, u, bd, mg, md)
        PROVE G
    <3>1. /\ pc[p] = "scan" /\ vis' = vis /\ dur' = dur /\ cur' = cur
          /\ b \notin Live(vis) /\ blob' = Without(blob, {b}, "absent")
      BY <2>1 DEF Evict, WriteBlobs
    <3>2. {b} \in SUBSET (Blobs \ Live(vis))
      BY <3>1
    <3> QED
      BY <3>1, <3>2 DEF Stores
  <2>2. ASSUME NEW b \in Blobs, RefuseUnsafe(p, b) \/ Retain(p, b) PROVE G
    BY <2>2 DEF RefuseUnsafe, Retain, Stores
  <2>3. ASSUME Maintain(p) PROVE G
    BY <1>1, <2>3 DEF Maintain
  <2>4. ASSUME StartWork(p) PROVE G
    BY <2>4 DEF StartWork, Stores
  <2> QED
    BY <1>3, <2>1, <2>2, <2>3, <2>4 DEF Maintenance
<1>4. ASSUME Materialization(p) PROVE G
  <2>1. ASSUME NEW b \in Blobs, PublishBlob(p, b) PROVE G
    BY <2>1 DEF PublishBlob, Goto, Stores, TypeOK
  <2>2. ASSUME NEW b \in Blobs, Hit(p, b) \/ RefuseCorrupt(p, b) PROVE G
    BY <1>1, <2>2 DEF Hit, RefuseCorrupt
  <2>3. ASSUME NEW renamed \in BOOLEAN, NEW unlinked \in BOOLEAN,
               FailMark(p, renamed, unlinked)
        PROVE G
    <3>1. /\ pc[p] = "mark" /\ vis' = vis /\ dur' = dur /\ cur' = cur
          /\ blob' = blob \/ blob' = Without(blob, cur[p], "absent")
      BY <2>3 DEF FailMark, WriteBlobs
    <3>2. pc'[p] = "release"
      BY <2>3 DEF FailMark, Fail, Return, Goto, TypeOK
    <3> QED
      BY <3>1, <3>2 DEF Stores
  <2>4. ASSUME Mark(p) PROVE G
    BY <2>4 DEF Mark, Stores, TypeOK
  <2>5. ASSUME FinishMaterialize(p) PROVE G
    BY <1>1, <2>5 DEF FinishMaterialize
  <2> QED
    BY <1>4, <2>1, <2>2, <2>3, <2>4, <2>5 DEF Materialization
<1>5. ASSUME SnapshotAndDocker(p) PROVE G
  BY <1>1, <1>5 DEF SnapshotAndDocker, CreateSnapshot, FailSnapshot, FinishSnapshot,
     Abort, DockerSucceeds, DockerFails
<1>6. ASSUME Commit(p) PROVE G
  BY <1>1, <1>6 DEF Commit, Verify, Publish, Untwin, FailUntwin, SyncPublication
<1>7. ASSUME Fault(p) PROVE G
  <2>1. pc[p] # "mark" /\ blob' = blob /\ cur' = cur /\ vis' = vis /\ dur' = dur
    BY <1>7 DEF Fault
  <2> QED
    BY <2>1 DEF Stores
<1> QED
  BY <1>2, <1>3, <1>4, <1>5, <1>6, <1>7, Works(p) DEF Works

\* Every step keeps ControlInv.
LEMMA ControlStep ==
  TypeOK /\ MutualExclusion /\ ControlInv /\ [Next]_vars => ControlInv'
<1> SUFFICES ASSUME TypeOK, MutualExclusion, ControlInv, [Next]_vars PROVE ControlInv'
  OBVIOUS
<1>1. ASSUME NEW p \in Builds, Works(p) PROVE ControlInv'
  <2>1. /\ \A q \in Builds \ {p} : pc[q] = "idle" /\ pc'[q] = "idle"
        /\ pc[p] \in Steps \ {"idle", "release"}
    BY <1>1, WorksMoves, NoBuildAssumption DEF MutualExclusion, At, Moves
  <2>2. \A q \in Builds \ {p} : cur'[q] = {}
    BY <1>1, <2>1, WorksStores DEF ControlInv, Stores, TypeOK
  <2>3. cur'[p] # {} => pc'[p] \in {"mark", "release"}
    BY <1>1, <2>1, WorksStores DEF ControlInv, Stores, At, TypeOK
  <2>4. pc'[p] = "publish" => \A b \in sel'[p] : blob'[b] = "ok"
    BY <1>1, WorksControl
  <2> QED
    BY <2>1, <2>2, <2>3, <2>4 DEF ControlInv
<1>2. ASSUME NEW p \in Builds, Acquire(p) \/ Contend(p) \/ Release(p) \/ Kill(p)
      PROVE ControlInv'
  <2>1. blob' = blob
    BY <1>2 DEF Acquire, Contend, Release, Kill, cache
  <2>2. ASSUME NEW q \in Builds
        PROVE  /\ cur'[q] # {} => cur'[q] = cur[q] /\ (pc'[q] = pc[q] \/ pc[q] = "idle")
               /\ pc'[q] = "publish" => pc[q] = "publish" /\ sel'[q] = sel[q]
    <3>1. CASE Acquire(p)
      BY <3>1 DEF Acquire, Goto, At, TypeOK
    <3>2. CASE Contend(p)
      BY <3>2 DEF Contend, locals
    <3>3. CASE Release(p) \/ Kill(p)
      BY <3>3 DEF Release, Kill, ResetBuild, Goto, TypeOK
    <3> QED
      BY <1>2, <3>1, <3>2, <3>3
  <2> QED
    BY <2>1, <2>2 DEF ControlInv
<1>3. ASSUME PowerLoss PROVE ControlInv'
  BY <1>3 DEF PowerLoss, ControlInv
<1>4. ASSUME TimePasses \/ UNCHANGED vars PROVE ControlInv'
  BY <1>4 DEF TimePasses, procs, vars, ControlInv
<1> QED
  BY <1>1, <1>2, <1>3, <1>4 DEF Next, NextPowered, Step, Works

\* The invariant under the refinement.
LEMMA RefineInvHolds == Spec => []RefineInv
<1>1. Init => NewestKept /\ ControlInv
  BY DEF Init, NewestKept, ControlInv
<1>2. StoreInv /\ NewestKept /\ ControlInv /\ [Next]_vars => (NewestKept /\ ControlInv)'
  BY NewestStep, ControlStep DEF StoreInv
<1> QED
  BY <1>1, <1>2, StoreInvHolds, PTL DEF Spec, RefineInv

\* A power loss leaves the newest visible set or the newest synchronised one.
LEMMA PowerLossLive ==
  ASSUME RefineInv, PowerLoss
  PROVE  Live(vis)' \in {Live(vis), Live(dur)} /\ Live(dur)' = Live(vis)'
<1> USE DEF RefineInv, StoreInv, Visible, Synced, Present
<1>1. PICK kept \in SUBSET {n \in Gens : vis[n] # dur[n]} :
        /\ vis' = [n \in Gens |-> IF n \in kept THEN vis[n] ELSE dur[n]]
        /\ dur' = vis'
  BY PowerLoss DEF PowerLoss
<1>2. /\ vis = [n \in Gens |-> vis[n]] /\ dur = [n \in Gens |-> dur[n]]
  BY DEF TypeOK
<1>3. \A n \in Visible \cap Synced : vis[n] = dur[n]
  BY DEF GenerationsInv
<1>4. ASSUME vis' = vis \/ vis' = dur PROVE Live(vis)' \in {Live(vis), Live(dur)}
  BY <1>4 DEF Live, Superseded
<1>5. CASE vis = dur
  BY <1>1, <1>2, <1>4, <1>5
<1>6. ASSUME NEW n \in Gens, Visible = Synced \cup {n} PROVE vis' = vis \/ vis' = dur
  <2>1. \A m \in Gens : m # n => vis[m] = dur[m]
    BY <1>3, <1>6
  <2> QED
    BY <1>1, <1>2, <2>1
<1>7. ASSUME Visible \subseteq Synced, \A n \in Synced : \E m \in Visible : n <= m
      PROVE  Live(vis)' = Live(vis)
  <2>1. \A n \in Visible : vis'[n] = vis[n]
    BY <1>1, <1>3, <1>7
  <2>2. Visible \subseteq Visible' /\ Visible' \subseteq Synced
    BY <1>1, <1>7, <2>1
  <2>3. (Present(vis) \ Superseded(vis))' = Present(vis) \ Superseded(vis)
    BY <1>7, <2>2, MaxGenAssumption DEF Superseded
  <2> QED
    BY <2>1, <2>3 DEF Live
<1>8. Live(vis)' \in {Live(vis), Live(dur)}
  BY <1>4, <1>5, <1>6, <1>7 DEF NewestKept
<1> QED
  BY <1>1, <1>8 DEF Live, Superseded

\* The blobs the refinement says are held.
Held == {b \in Blobs : blob[b] = "ok"} \ UNION {cur[p] : p \in Builds}

\* A running build changes the blobs that are held and the committed set in one
\* of the ways CommittedSet allows.
LEMMA WorksRefine ==
  ASSUME RefineInv, NEW p \in Builds, Works(p)
  PROVE  [Committed!Next]_(Committed!vars)
<1> USE DEF RefineInv, StoreInv
<1>1. /\ \A q \in Builds \ {p} : pc[q] = "idle" /\ cur[q] = {}
      /\ pc[p] \in Steps \ {"idle", "release"}
  BY WorksMoves, NoBuildAssumption DEF MutualExclusion, At, Moves, ControlInv
<1>2. Held = {b \in Blobs : blob[b] = "ok" /\ b \notin cur[p]}
  BY <1>1 DEF Held
<1>3. ASSUME \A q \in Builds \ {p} : cur'[q] = {}
      PROVE  Held' = {b \in Blobs : blob'[b] = "ok" /\ b \notin cur'[p]}
  BY <1>3 DEF Held
<1>4. \A q \in Builds \ {p} : cur'[q] = {}
  BY <1>1, WorksStores DEF Stores, TypeOK
<1>5. \/ Held' = Held
      \/ /\ pc[p] \in {"mark", "clean", "scan"}
         /\ Held \subseteq Held' \/ (Held' \subseteq Held /\ Live(vis) \cap Held \subseteq Held')
  <2>1. CASE blob' = blob /\ cur' = cur
    BY <2>1 DEF Held
  <2>2. ASSUME NEW b \in Blobs, At(p, "materialize"), blob[b] = "absent",
               blob' = [blob EXCEPT ![b] = "ok"], cur' = [cur EXCEPT ![p] = {b}]
        PROVE  Held' = Held
    <3>1. cur[p] = {} /\ cur'[p] = {b}
      BY <2>2 DEF ControlInv, At, TypeOK
    <3>2. \A c \in Blobs : blob'[c] = IF c = b THEN "ok" ELSE blob[c]
      BY <2>2 DEF TypeOK
    <3> QED
      BY <1>2, <1>3, <1>4, <2>2, <3>1, <3>2
  <2>3. ASSUME At(p, "mark"), blob' = blob, cur' = [cur EXCEPT ![p] = {}]
        PROVE  Held \subseteq Held'
    BY <1>2, <1>3, <1>4, <2>3
  <2>4. ASSUME blob' = Without(blob, cur[p], "absent"), cur' = cur
        PROVE  Held' = Held
    BY <1>2, <1>3, <1>4, <2>4 DEF Without
  <2>5. ASSUME NEW gone \in SUBSET (Blobs \ Live(vis)),
               blob' = Without(blob, gone, "absent"), cur' = cur
        PROVE  Held' \subseteq Held /\ Live(vis) \cap Held \subseteq Held'
    BY <1>2, <1>3, <1>4, <2>5 DEF Without
  <2> QED
    BY <2>1, <2>2, <2>3, <2>4, <2>5, WorksStores DEF Stores, At
<1>6. Held \subseteq Blobs /\ Held' \subseteq Blobs
  BY DEF Held
<1>7. Live(vis)' = Live(vis) \/ vis' # vis
  BY DEF Live, Present, Superseded
<1>8. CASE Held' # Held
  <2>1. vis' = vis /\ dur' = dur /\ vis = dur
    BY <1>5, <1>8, WorksStores DEF GenerationsInv, SyncedSteps
  <2>2. Live(vis)' = Live(vis) /\ Live(dur)' = Live(dur) /\ Live(dur) = Live(vis)
    BY <2>1 DEF Live, Present, Superseded
  <2>3. Committed!Add \/ Committed!Reclaim
    BY <1>5, <1>6, <1>8, <2>2 DEF Committed!Add, Committed!Reclaim, Held
  <2> QED
    BY <2>3 DEF Committed!Next
<1>9. CASE Held' = Held
  <2>1. ASSUME Keeps(p) PROVE UNCHANGED Committed!vars
    BY <1>9, <2>1 DEF Keeps, Committed!vars, Held, Live, Present, Superseded
  <2>2. ASSUME Synchronises(p) PROVE Committed!Settle
    BY <1>9, <2>2 DEF Synchronises, Committed!Settle, Held, Live, Present, Superseded
  <2>3. ASSUME Publishes(p) PROVE Committed!Propose
    <3>1. Live(vis)' = sel[p] /\ dur' = vis /\ vis = dur /\ At(p, "publish")
      BY <2>3, LiveOfPublished DEF Publishes, GenerationsInv, SyncedSteps, At
    <3>2. sel[p] \subseteq Held
      BY <1>2, <3>1 DEF ControlInv, At, TypeOK
    <3>3. Live(dur)' = Live(dur) /\ Live(vis) = Live(dur)
      BY <3>1 DEF Live, Present, Superseded
    <3> QED
      BY <1>9, <3>1, <3>2, <3>3 DEF Committed!Propose, Held
  <2>4. ASSUME Retires(p) PROVE UNCHANGED Committed!vars
    <3>1. Live(vis)' = Live(vis) /\ vis = dur /\ dur' \in {dur, vis'}
      BY <2>4, LiveOfRetired DEF Retires, GenerationsInv, SyncedSteps, At
    <3>2. Live(dur)' = Live(dur)
      BY <3>1 DEF Live, Present, Superseded
    <3> QED
      BY <1>9, <3>1, <3>2 DEF Committed!vars, Held
  <2> QED
    BY <2>1, <2>2, <2>3, <2>4, WorksGenerations DEF Committed!Next
<1> QED
  BY <1>8, <1>9

\* Every step is a step of CommittedSet or leaves its variables alone.
LEMMA RefineStep == RefineInv /\ [Next]_vars => [Committed!Next]_(Committed!vars)
<1> SUFFICES ASSUME RefineInv, [Next]_vars PROVE [Committed!Next]_(Committed!vars)
  OBVIOUS
<1>1. ASSUME NEW p \in Builds, Works(p) PROVE [Committed!Next]_(Committed!vars)
  BY <1>1, WorksRefine
<1>2. ASSUME NEW p \in Builds, Acquire(p) \/ Contend(p) \/ Release(p) \/ Kill(p)
      PROVE Committed!Add
  <2>1. vis' = vis /\ dur' = dur /\ blob' = blob
    BY <1>2 DEF Acquire, Contend, Release, Kill, gens, cache
  <2>2. \A q \in Builds : cur'[q] \subseteq cur[q]
    BY <1>2 DEF Acquire, Contend, Release, Kill, ResetBuild, locals, RefineInv,
       StoreInv, TypeOK
  <2>3. Held \subseteq Held' /\ Held' \subseteq Blobs
    BY <2>1, <2>2 DEF Held
  <2>4. Live(vis)' = Live(vis) /\ Live(dur)' = Live(dur)
    BY <2>1 DEF Live, Present, Superseded
  <2> QED
    BY <2>3, <2>4 DEF Committed!Add, Held
<1>3. ASSUME PowerLoss PROVE Committed!LosePower
  <2>1. Held' \subseteq Blobs
    BY DEF Held
  <2> QED
    BY <1>3, <2>1, PowerLossLive DEF Committed!LosePower, Held
<1>4. ASSUME TimePasses \/ UNCHANGED vars PROVE UNCHANGED Committed!vars
  <2>1. vis' = vis /\ dur' = dur /\ blob' = blob /\ cur' = cur
    BY <1>4 DEF TimePasses, procs, gens, vars
  <2> QED
    BY <2>1 DEF Committed!vars, Live, Present, Superseded
<1> QED
  BY <1>1, <1>2, <1>3, <1>4 DEF Next, NextPowered, Step, Works, Committed!Next

\* The build store implements one committed set that changes as a whole, with
\* the former one back only after a power loss: any step of any build, any
\* failure, kill or power loss maps to a step of CommittedSet or to none.
THEOREM StoreImplementsCommittedSet == Spec => ImplementsCommittedSet
<1>1. Init => Committed!Init
  BY DEF Init, Committed!Init, Live, Present
<1> QED
  BY <1>1, RefineStep, RefineInvHolds, PTL DEF Spec, ImplementsCommittedSet, Committed!Spec
=============================================================================
