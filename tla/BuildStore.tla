----------------------------- MODULE BuildStore -----------------------------
(***************************************************************************)
(* The project-scoped transactional build store: execute_build of          *)
(* docker/versioning/build_orchestration.py with the generation manifests, *)
(* the content-addressed blobs, the uncommitted markers and the snapshots  *)
(* it keeps on disk (build_generations.py, build_cleanup.py,               *)
(* build_cache.py, build_materialization.py, build_snapshot.py).           *)
(*                                                                         *)
(* Every directory is kept twice.  The visible state (vis, blob, marker)   *)
(* is what the next system call sees; the disk state (dur, blobDisk,       *)
(* markerDisk) is what a power loss may leave: an entry changed since the  *)
(* last fsync of its directory is on disk in any of the versions it had    *)
(* since.  A build can fail at any step, be killed at any step, and the    *)
(* machine can lose power.                                                 *)
(*                                                                         *)
(* Simplifications:                                                        *)
(*  - a manifest is the set of blobs it names, a blob is a model value;    *)
(*  - a batch of unlinks followed by one fsync is one action with every    *)
(*    outcome (any subset removed, fsync done or not): being killed inside *)
(*    the batch leaves the disk as a failed batch does;                    *)
(*  - the four artifacts are materialised in any order;                    *)
(*  - the Pi environment, the projection and the confined context, which   *)
(*    touch none of these directories' blobs, markers or manifests, are    *)
(*    steps that may fail (Fault).                                         *)
(***************************************************************************)
EXTENDS Naturals, FiniteSets

CONSTANTS
  Builds,       \* the concurrent `build' invocations of one project
  Blobs,        \* the content digests
  Selections,   \* the digest sets a reviewed inventory may select
  MaxGen,       \* the largest generation number a manifest name can carry
  NoManifest,   \* "there is no manifest of this number"
  NoBuild       \* "nobody holds the build lock"

Gens == 1 .. MaxGen

ASSUME MaxGenAssumption == MaxGen \in Nat \ {0}
ASSUME SelectionsAssumption == Selections \subseteq SUBSET Blobs
ASSUME NoManifestAssumption == \A s \in SUBSET Blobs : NoManifest # s
ASSUME NoBuildAssumption == NoBuild \notin Builds

VARIABLES
  lock,        \* the build holding the flock on build.lock, or NoBuild
  pc,          \* pc[p]: the next step of build p
  phase,       \* phase[p]: "recover" before the work, "commit" after it
  sel,         \* sel[p]: the blobs build p selected
  todo,        \* todo[p]: the entries left in the loop p is running
  cur,         \* cur[p]: the blob p has published and not yet marked, as {b}
  outcome,     \* outcome[p]: the result p last returned
  vis,         \* vis[n]: the manifest of generation n that is visible
  dur,         \* dur[n]: the manifest of generation n at the last fsync
  twin,        \* generations whose private temporary link still exists
  blob,        \* blob[b]: the visible entry of b in the blob directory
  blobDisk,    \* blobDisk[b]: the entries of b a power loss may leave
  marker,      \* marker[b]: the visible uncommitted marker of b
  markerDisk,  \* markerDisk[b]: the markers of b a power loss may leave
  snap         \* blobs hard-linked from an entry of the transactions directory

procs == <<lock, pc, phase, sel, todo, cur, outcome>>
gens  == <<vis, dur, twin>>
cache == <<blob, blobDisk, marker, markerDisk, snap>>
vars  == <<lock, pc, phase, sel, todo, cur, outcome, vis, dur, twin,
           blob, blobDisk, marker, markerDisk, snap>>

BlobStates   == {"absent", "ok", "unsafe"}
MarkerStates == {"none", "fresh", "expired"}
Steps == {"idle", "discover", "reconcile", "clean", "retire", "snapshots",
          "maintain", "scan", "materialize", "mark", "link", "docker",
          "finish", "verify", "publish", "untwin", "pubsync", "abort",
          "release"}

-----------------------------------------------------------------------------
(* Reading a generation directory.                                         *)

Present(g) == {n \in Gens : g[n] # NoManifest}

\* inspect_generations: at most two generations, and those consecutive.
Unambiguous(g) == \A m, n \in Present(g) : m < n => n = m + 1

\* validated_read admits only a manifest with a single hard link.
Readable == Unambiguous(vis) /\ twin \cap Present(vis) = {}

Superseded(g) == {n \in Present(g) : \E m \in Present(g) : n < m}

Live(g) == {b \in Blobs : \E n \in Present(g) \ Superseded(g) : b \in g[n]}

\* Mutant: every blob of the previous generation.
PreviousBlobs(g) == {b \in Blobs : \E n \in Superseded(g) : b \in g[n]}

\* superseded_candidates: previous - current.
Candidates(g) == {b \in Blobs : \E n \in Superseded(g) : b \in g[n]} \ Live(g)

-----------------------------------------------------------------------------
(* fsync of a directory, and a change of one that is not yet synchronised. *)

\* Mutant: the fsync is forgotten.
NoSync == UNCHANGED dur

SyncGenerations == dur' = vis

Settled(state) == [b \in Blobs |-> {state[b]}]

Spread(disk, state) == [b \in Blobs |-> disk[b] \cup {state[b]}]

WriteMarkers(state, synced) ==
  /\ marker' = state
  /\ markerDisk' = IF synced THEN Settled(state) ELSE Spread(markerDisk, state)

WriteBlobs(state, synced) ==
  /\ blob' = state
  /\ blobDisk' = IF synced THEN Settled(state) ELSE Spread(blobDisk, state)

Without(state, gone, none) ==
  [b \in Blobs |-> IF b \in gone THEN none ELSE state[b]]

-----------------------------------------------------------------------------
(* Control of one build.                                                   *)

At(p, step) == pc[p] = step

Goto(p, step) == pc' = [pc EXCEPT ![p] = step]

Return(p, result) ==
  /\ Goto(p, "release")
  /\ outcome' = [outcome EXCEPT ![p] = result]

\* A PostCommitBuildError leaves the new generation committed.
Fail(p) == Return(p, IF phase[p] = "commit" THEN "committed" ELSE "failed")

\* After recovery comes the work; after the post-commit cleanup, success.
Recovered(p) ==
  IF phase[p] = "recover"
  THEN Goto(p, "snapshots") /\ UNCHANGED outcome
  ELSE Return(p, "success")

locals == <<lock, phase, sel, todo, cur>>

Init ==
  /\ lock = NoBuild
  /\ pc = [p \in Builds |-> "idle"]
  /\ phase = [p \in Builds |-> "recover"]
  /\ sel = [p \in Builds |-> {}]
  /\ todo = [p \in Builds |-> {}]
  /\ cur = [p \in Builds |-> {}]
  /\ outcome = [p \in Builds |-> "none"]
  /\ vis = [n \in Gens |-> NoManifest]
  /\ dur = [n \in Gens |-> NoManifest]
  /\ twin = {}
  /\ blob = [b \in Blobs |-> "absent"]
  /\ blobDisk = [b \in Blobs |-> {"absent"}]
  /\ marker = [b \in Blobs |-> "none"]
  /\ markerDisk = [b \in Blobs |-> {"none"}]
  /\ snap = {}

-----------------------------------------------------------------------------
(* The build lock is acquired fail-fast and released on every path.        *)

\* Mutant: a second build does not see that the lock is held.
AcquireAnyway(p) ==
  /\ At(p, "idle")
  /\ \E s \in Selections : sel' = [sel EXCEPT ![p] = s]
  /\ lock' = p
  /\ phase' = [phase EXCEPT ![p] = "recover"]
  /\ outcome' = [outcome EXCEPT ![p] = "none"]
  /\ Goto(p, "discover")
  /\ UNCHANGED <<todo, cur, gens, cache>>

Acquire(p) ==
  /\ At(p, "idle") /\ lock = NoBuild
  /\ \E s \in Selections : sel' = [sel EXCEPT ![p] = s]
  /\ lock' = p
  /\ phase' = [phase EXCEPT ![p] = "recover"]
  /\ outcome' = [outcome EXCEPT ![p] = "none"]
  /\ Goto(p, "discover")
  /\ UNCHANGED <<todo, cur, gens, cache>>

\* "constructor project already has an active build"
Contend(p) ==
  /\ At(p, "idle") /\ lock # NoBuild
  /\ outcome' = [outcome EXCEPT ![p] = "failed"]
  /\ UNCHANGED <<locals, pc, gens, cache>>

\* Mutant: a path that leaves the lock held.
ReturnLocked(p) ==
  /\ At(p, "release")
  /\ Goto(p, "idle")
  /\ UNCHANGED <<locals, outcome, gens, cache>>

Release(p) ==
  /\ At(p, "release")
  /\ lock' = NoBuild
  /\ sel' = [sel EXCEPT ![p] = {}]
  /\ todo' = [todo EXCEPT ![p] = {}]
  /\ cur' = [cur EXCEPT ![p] = {}]
  /\ phase' = [phase EXCEPT ![p] = "recover"]
  /\ Goto(p, "idle")
  /\ UNCHANGED <<outcome, gens, cache>>

-----------------------------------------------------------------------------
(* Recovery: discovery, marker reconciliation, superseded cleanup.         *)

\* Mutant: a predecessor found by discovery is left for the next commit.
DiscoverOnly(p) ==
  /\ At(p, "discover")
  /\ IF Readable
     THEN SyncGenerations /\ Goto(p, "snapshots") /\ UNCHANGED outcome
     ELSE Fail(p) /\ UNCHANGED dur
  /\ UNCHANGED <<locals, vis, twin, cache>>

\* discover_generations grants authority only after inspection and one fsync.
Discover(p) ==
  /\ At(p, "discover")
  /\ IF Readable
     THEN /\ SyncGenerations
          /\ Goto(p, IF Present(vis) = {} THEN "snapshots" ELSE "reconcile")
          /\ UNCHANGED outcome
     ELSE Fail(p) /\ UNCHANGED dur
  /\ UNCHANGED <<locals, vis, twin, cache>>

\* Mutant: the failures of the batch are not reported.
ReconcileUnchecked(p, gone, synced) ==
  /\ At(p, "reconcile")
  /\ gone \subseteq {b \in Live(vis) : marker[b] # "none"}
  /\ IF Superseded(vis) # {}
     THEN Goto(p, "clean") /\ UNCHANGED outcome
     ELSE Recovered(p)
  /\ WriteMarkers(Without(marker, gone, "none"), synced)
  /\ UNCHANGED <<locals, gens, blob, blobDisk, snap>>

\* reconcile_authoritative_markers: every marker of the live set is attempted,
\* the marker directory is synchronised once whatever happened.
Reconcile(p, gone, synced) ==
  /\ At(p, "reconcile")
  /\ LET marked == {b \in Live(vis) : marker[b] # "none"}
     IN  /\ gone \subseteq marked
         /\ IF gone = marked /\ synced
            THEN IF Superseded(vis) # {}
                 THEN Goto(p, "clean") /\ UNCHANGED outcome
                 ELSE Recovered(p)
            ELSE Fail(p)
  /\ WriteMarkers(Without(marker, gone, "none"), synced)
  /\ UNCHANGED <<locals, gens, blob, blobDisk, snap>>

\* cleanup_superseded up to the predecessor: _unlink_entry admits a blob only
\* with mode 0444 and one link, a marker is attempted only once its blob is
\* absent, and each directory is synchronised once after its batch.
CleanSuperseded(p, goneBlobs, goneMarkers, syncBlobs, syncMarkers) ==
  /\ At(p, "clean")
  /\ LET candidates == Candidates(vis)
         removable  == {b \in candidates \ snap : blob[b] = "ok"}
         absent     == {b \in candidates : blob[b] = "absent"} \cup goneBlobs
     IN  /\ goneBlobs \subseteq removable
         /\ goneMarkers \subseteq {b \in absent : marker[b] # "none"}
         /\ candidates = {} => syncBlobs /\ syncMarkers
         /\ IF /\ absent = candidates
               /\ \A b \in candidates \ goneMarkers : marker[b] = "none"
               /\ syncBlobs /\ syncMarkers
            THEN Goto(p, "retire") /\ UNCHANGED outcome
            ELSE Fail(p)
         /\ IF candidates = {}
            THEN UNCHANGED <<blob, blobDisk, marker, markerDisk>>
            ELSE /\ WriteBlobs(Without(blob, goneBlobs, "absent"), syncBlobs)
                 /\ WriteMarkers(Without(marker, goneMarkers, "none"),
                                 syncMarkers)
  /\ UNCHANGED <<locals, gens, snap>>

\* Mutant: a failed fsync after the unlink counts as success.
RetireUnchecked(p, synced) ==
  /\ At(p, "retire")
  /\ vis' = [n \in Gens |-> IF n \in Superseded(vis) THEN NoManifest
                                                     ELSE vis[n]]
  /\ dur' = IF synced THEN vis' ELSE dur
  /\ Recovered(p)
  /\ UNCHANGED <<locals, twin, cache>>

\* durable_unlink of the previous manifest.
Retire(p, synced) ==
  /\ At(p, "retire")
  /\ vis' = [n \in Gens |-> IF n \in Superseded(vis) THEN NoManifest
                                                     ELSE vis[n]]
  /\ IF synced
     THEN dur' = vis' /\ Recovered(p)
     ELSE UNCHANGED dur /\ Fail(p)
  /\ UNCHANGED <<locals, twin, cache>>

-----------------------------------------------------------------------------
(* The rest of the preparation: abandoned snapshots and stale markers.     *)

RecoverSnapshots(p, left) ==
  /\ At(p, "snapshots")
  /\ left \subseteq snap
  /\ snap' = left
  /\ IF left = {}
     THEN Goto(p, "maintain") /\ UNCHANGED outcome
     ELSE Fail(p)
  /\ UNCHANGED <<locals, gens, blob, blobDisk, marker, markerDisk>>

\* maintain_uncommitted_blobs reads the live set and lists the markers.
Maintain(p) ==
  /\ At(p, "maintain")
  /\ IF Readable
     THEN /\ SyncGenerations
          /\ todo' = [todo EXCEPT ![p] = {b \in Blobs : marker[b] # "none"}]
          /\ Goto(p, "scan")
          /\ UNCHANGED outcome
     ELSE Fail(p) /\ UNCHANGED <<dur, todo>>
  /\ UNCHANGED <<lock, phase, sel, cur, vis, twin, cache>>

Examined(p, b) == todo' = [todo EXCEPT ![p] = @ \ {b}] /\ UNCHANGED <<pc, outcome>>

\* A committed blob is TTL-immune.  The branch that drops its stale marker
\* never runs: recovery has just removed the markers of the same live set.

\* An unreadable marker, a missing or invalid blob, or an expired marker.
Evictable(b, unreadable) ==
  unreadable \/ blob[b] # "ok" \/ marker[b] = "expired"

\* Mutant: the marker goes although its blob may come back.
EvictMarkerFirst(p, b, unreadable, blobDone, markerGone, markerDone) ==
  /\ At(p, "scan") /\ b \in todo[p] /\ b \notin Live(vis)
  /\ Evictable(b, unreadable)
  /\ blob[b] # "unsafe" /\ b \notin snap
  /\ markerDone => markerGone
  /\ WriteBlobs(Without(blob, {b}, "absent"), blobDone)
  /\ IF markerGone
     THEN WriteMarkers(Without(marker, {b}, "none"), markerDone)
     ELSE UNCHANGED <<marker, markerDisk>>
  /\ IF markerDone THEN Examined(p, b) ELSE Fail(p) /\ UNCHANGED todo
  /\ UNCHANGED <<lock, phase, sel, cur, gens, snap>>

\* _durably_remove_blob_and_marker: the blob goes durably, then its marker.
\* An unsafe blob is never removed.
Evict(p, b, unreadable, blobDone, markerGone, markerDone) ==
  /\ At(p, "scan") /\ b \in todo[p] /\ b \notin Live(vis)
  /\ Evictable(b, unreadable)
  /\ blob[b] # "unsafe" /\ b \notin snap
  /\ markerDone => markerGone
  /\ markerGone => blobDone
  /\ WriteBlobs(Without(blob, {b}, "absent"), blobDone)
  /\ IF markerGone
     THEN WriteMarkers(Without(marker, {b}, "none"), markerDone)
     ELSE UNCHANGED <<marker, markerDisk>>
  /\ IF markerDone THEN Examined(p, b) ELSE Fail(p) /\ UNCHANGED todo
  /\ UNCHANGED <<lock, phase, sel, cur, gens, snap>>

RefuseUnsafe(p, b) ==
  /\ At(p, "scan") /\ b \in todo[p] /\ b \notin Live(vis)
  /\ blob[b] = "unsafe" \/ (b \in snap /\ Evictable(b, FALSE))
  /\ Fail(p)
  /\ UNCHANGED <<locals, gens, cache>>

Retain(p, b) ==
  /\ At(p, "scan") /\ b \in todo[p] /\ b \notin Live(vis)
  /\ ~Evictable(b, FALSE)
  /\ Examined(p, b)
  /\ UNCHANGED <<lock, phase, sel, cur, gens, cache>>

StartWork(p) ==
  /\ At(p, "scan") /\ todo[p] = {}
  /\ todo' = [todo EXCEPT ![p] = sel[p]]
  /\ Goto(p, "materialize")
  /\ UNCHANGED <<lock, phase, sel, cur, outcome, gens, cache>>

-----------------------------------------------------------------------------
(* Materialisation of one artifact.                                        *)

Hit(p, b) ==
  /\ At(p, "materialize") /\ b \in todo[p]
  /\ blob[b] = "ok"
  /\ Examined(p, b)
  /\ UNCHANGED <<lock, phase, sel, cur, gens, cache>>

RefuseCorrupt(p, b) ==
  /\ At(p, "materialize") /\ b \in todo[p]
  /\ blob[b] = "unsafe"
  /\ Fail(p)
  /\ UNCHANGED <<locals, gens, cache>>

\* os.replace of a flushed temporary whose mode was changed after the flush;
\* the blob directory is not synchronised.
PublishBlob(p, b) ==
  /\ At(p, "materialize") /\ b \in todo[p]
  /\ blob[b] = "absent"
  /\ blob' = [blob EXCEPT ![b] = "ok"]
  /\ blobDisk' = [blobDisk EXCEPT ![b] = @ \cup {"ok", "unsafe"}]
  /\ cur' = [cur EXCEPT ![p] = {b}]
  /\ todo' = [todo EXCEPT ![p] = @ \ {b}]
  /\ Goto(p, "mark")
  /\ UNCHANGED <<lock, phase, sel, outcome, gens, marker, markerDisk, snap>>

\* Mutant: the marker holds no time stamp.
MarkEmpty(p) ==
  /\ At(p, "mark")
  /\ WriteMarkers(Without(marker, cur[p], "empty"), TRUE)
  /\ cur' = [cur EXCEPT ![p] = {}]
  /\ Goto(p, "materialize")
  /\ UNCHANGED <<lock, phase, sel, todo, outcome, gens, blob, blobDisk, snap>>

\* mark_uncommitted_blob, a durable replacement.
Mark(p) ==
  /\ At(p, "mark")
  /\ WriteMarkers(Without(marker, cur[p], "fresh"), TRUE)
  /\ cur' = [cur EXCEPT ![p] = {}]
  /\ Goto(p, "materialize")
  /\ UNCHANGED <<lock, phase, sel, todo, outcome, gens, blob, blobDisk, snap>>

\* The marker may be visible or not; its blob is unlinked, if that works.
FailMark(p, renamed, unlinked) ==
  /\ At(p, "mark")
  /\ IF renamed THEN WriteMarkers(Without(marker, cur[p], "fresh"), FALSE)
                ELSE UNCHANGED <<marker, markerDisk>>
  /\ IF unlinked THEN WriteBlobs(Without(blob, cur[p], "absent"), FALSE)
                 ELSE UNCHANGED <<blob, blobDisk>>
  /\ Fail(p)
  /\ UNCHANGED <<locals, gens, snap>>

FinishMaterialize(p) ==
  /\ At(p, "materialize") /\ todo[p] = {}
  /\ Goto(p, "link")
  /\ UNCHANGED <<locals, outcome, gens, cache>>

-----------------------------------------------------------------------------
(* The snapshot, the Docker build and the end of the snapshot.             *)

\* create_artifact_snapshot: each blob is hard-linked, or copied where the
\* file system has no hard links.
CreateSnapshot(p, linked) ==
  /\ At(p, "link")
  /\ linked \subseteq sel[p]
  /\ \A b \in sel[p] : blob[b] = "ok"
  /\ snap' = snap \cup linked
  /\ Goto(p, "docker")
  /\ UNCHANGED <<locals, outcome, gens, blob, blobDisk, marker, markerDisk>>

\* The staging directory is removed again, if that works.
FailSnapshot(p, left) ==
  /\ At(p, "link")
  /\ left \subseteq {b \in sel[p] : blob[b] = "ok"}
  /\ snap' = snap \cup left
  /\ Fail(p)
  /\ UNCHANGED <<locals, gens, blob, blobDisk, marker, markerDisk>>

DockerSucceeds(p) ==
  /\ At(p, "docker")
  /\ Goto(p, "finish")
  /\ UNCHANGED <<locals, outcome, gens, cache>>

DockerFails(p) ==
  /\ At(p, "docker")
  /\ Goto(p, "abort")
  /\ UNCHANGED <<locals, outcome, gens, cache>>

\* finish_snapshot on the way to a failure result.
Abort(p, left) ==
  /\ At(p, "abort")
  /\ left \subseteq snap
  /\ snap' = left
  /\ Fail(p)
  /\ UNCHANGED <<locals, gens, blob, blobDisk, marker, markerDisk>>

\* Mutant: the commit goes ahead although the snapshot is still there.
FinishAnyway(p, left) ==
  /\ At(p, "finish")
  /\ left \subseteq snap
  /\ snap' = left
  /\ Goto(p, "verify")
  /\ UNCHANGED <<locals, outcome, gens, blob, blobDisk, marker, markerDisk>>

\* finish_snapshot after a successful build: failing it forbids the commit.
FinishSnapshot(p, left) ==
  /\ At(p, "finish")
  /\ left \subseteq snap
  /\ snap' = left
  /\ IF left = {}
     THEN Goto(p, "verify") /\ UNCHANGED outcome
     ELSE Fail(p)
  /\ UNCHANGED <<locals, gens, blob, blobDisk, marker, markerDisk>>

-----------------------------------------------------------------------------
(* commit_build_set and publish_generation.                                *)

Verify(p) ==
  /\ At(p, "verify")
  /\ IF \A b \in sel[p] : blob[b] = "ok"
     THEN Goto(p, "publish") /\ UNCHANGED outcome
     ELSE Fail(p)
  /\ UNCHANGED <<locals, gens, cache>>

\* max(valid) + 1
IsNext(n) == /\ \A m \in Present(vis) : m < n
             /\ n # 1 => n - 1 \in Present(vis)

\* The preflight, the fsync that completes an older publication, and linkat.
Publish(p) ==
  /\ At(p, "publish")
  /\ IF Readable /\ Superseded(vis) = {} /\ \E n \in Gens : IsNext(n)
     THEN /\ \E n \in Gens :
               /\ IsNext(n)
               /\ vis' = [vis EXCEPT ![n] = sel[p]]
               /\ twin' = twin \cup {n}
          /\ SyncGenerations
          /\ Goto(p, "untwin")
          /\ UNCHANGED outcome
     ELSE Fail(p) /\ UNCHANGED gens
  /\ UNCHANGED <<locals, cache>>

\* unlinkat of the private temporary name; _discard tries it once more.
Untwin(p) ==
  /\ At(p, "untwin")
  /\ twin' = {}
  /\ Goto(p, "pubsync")
  /\ UNCHANGED <<locals, outcome, vis, dur, cache>>

FailUntwin(p, discarded) ==
  /\ At(p, "untwin")
  /\ twin' = IF discarded THEN {} ELSE twin
  /\ Fail(p)
  /\ UNCHANGED <<locals, vis, dur, cache>>

\* Mutant: a visible generation is taken for a durable one.
CommitVisible(p) ==
  /\ At(p, "pubsync")
  /\ phase' = [phase EXCEPT ![p] = "commit"]
  /\ Goto(p, "reconcile")
  /\ UNCHANGED <<lock, sel, todo, cur, outcome, gens, cache>>

\* The fsync that makes the new generation authoritative.
SyncPublication(p) ==
  /\ At(p, "pubsync")
  /\ SyncGenerations
  /\ phase' = [phase EXCEPT ![p] = "commit"]
  /\ Goto(p, "reconcile")
  /\ UNCHANGED <<lock, sel, todo, cur, outcome, vis, twin, cache>>

-----------------------------------------------------------------------------
(* Failures, kills, power loss, time.                                      *)

\* An I/O error or an interruption before the step changed anything.
Fault(p) ==
  /\ pc[p] \notin {"idle", "release", "mark", "docker", "untwin", "abort"}
  /\ Fail(p)
  /\ UNCHANGED <<locals, gens, cache>>

ResetBuild(p) ==
  /\ Goto(p, "idle")
  /\ sel' = [sel EXCEPT ![p] = {}]
  /\ todo' = [todo EXCEPT ![p] = {}]
  /\ cur' = [cur EXCEPT ![p] = {}]
  /\ phase' = [phase EXCEPT ![p] = "recover"]
  /\ outcome' = [outcome EXCEPT ![p] = "none"]

\* The kernel drops the flock of a process that dies.
Kill(p) ==
  /\ ~At(p, "idle")
  /\ ResetBuild(p)
  /\ lock' = NoBuild
  /\ UNCHANGED <<gens, cache>>

PowerLoss ==
  /\ lock' = NoBuild
  /\ pc' = [p \in Builds |-> "idle"]
  /\ phase' = [p \in Builds |-> "recover"]
  /\ sel' = [p \in Builds |-> {}]
  /\ todo' = [p \in Builds |-> {}]
  /\ cur' = [p \in Builds |-> {}]
  /\ outcome' = [p \in Builds |-> "none"]
  /\ \E kept \in SUBSET {n \in Gens : vis[n] # dur[n]} :
       vis' = [n \in Gens |-> IF n \in kept THEN vis[n] ELSE dur[n]]
  /\ dur' = vis'
  /\ twin' \in SUBSET ((twin \cup {n \in Gens : dur[n] = NoManifest})
                          \cap Present(vis'))
  /\ blob' \in {f \in [Blobs -> BlobStates] :
                  \A b \in Blobs : f[b] \in blobDisk[b]}
  /\ blobDisk' = Settled(blob')
  /\ marker' \in {f \in [Blobs -> MarkerStates] :
                    \A b \in Blobs : f[b] \in markerDisk[b]}
  /\ markerDisk' = Settled(marker')
  /\ snap' \in SUBSET snap

Aged(m) == IF m = "fresh" THEN "expired" ELSE m

\* More than UNCOMMITTED_TTL_SECONDS pass.
TimePasses ==
  /\ \E b \in Blobs : "fresh" \in markerDisk[b]
  /\ marker' = [b \in Blobs |-> Aged(marker[b])]
  /\ markerDisk' = [b \in Blobs |-> {Aged(m) : m \in markerDisk[b]}]
  /\ UNCHANGED <<procs, gens, blob, blobDisk, snap>>

-----------------------------------------------------------------------------
(* The next-state relation.                                                *)

DiscoverOk(p)  == Readable /\ Discover(p)
ReconcileOk(p) ==
  Reconcile(p, {b \in Live(vis) : marker[b] # "none"}, TRUE)
CleanOk(p) ==
  CleanSuperseded(p, {b \in Candidates(vis) \ snap : blob[b] = "ok"},
                  {b \in Candidates(vis) : marker[b] # "none"}, TRUE, TRUE)
RetireOk(p)    == Retire(p, TRUE)

Recovery(p) ==
  \/ Discover(p)
  \/ \E gone \in SUBSET Blobs, synced \in BOOLEAN : Reconcile(p, gone, synced)
  \/ \E gb, gm \in SUBSET Blobs, sb, sm \in BOOLEAN :
       CleanSuperseded(p, gb, gm, sb, sm)
  \/ \E synced \in BOOLEAN : Retire(p, synced)
  \/ \E left \in SUBSET Blobs : RecoverSnapshots(p, left)

Maintenance(p) ==
  \/ Maintain(p)
  \/ \E b \in Blobs :
       \/ \E unreadable, blobDone, markerGone, markerDone \in BOOLEAN :
            Evict(p, b, unreadable, blobDone, markerGone, markerDone)
       \/ RefuseUnsafe(p, b)
       \/ Retain(p, b)
  \/ StartWork(p)

Materialization(p) ==
  \/ \E b \in Blobs : Hit(p, b) \/ RefuseCorrupt(p, b) \/ PublishBlob(p, b)
  \/ Mark(p)
  \/ \E renamed, unlinked \in BOOLEAN : FailMark(p, renamed, unlinked)
  \/ FinishMaterialize(p)

SnapshotAndDocker(p) ==
  \/ \E blobs \in SUBSET Blobs :
       \/ CreateSnapshot(p, blobs) \/ FailSnapshot(p, blobs)
       \/ FinishSnapshot(p, blobs) \/ Abort(p, blobs)
  \/ DockerSucceeds(p)
  \/ DockerFails(p)

Commit(p) ==
  \/ Verify(p)
  \/ Publish(p)
  \/ Untwin(p)
  \/ \E discarded \in BOOLEAN : FailUntwin(p, discarded)
  \/ SyncPublication(p)

\* What a build does of its own, failures included.
Step(p) ==
  \/ Acquire(p) \/ Contend(p) \/ Release(p)
  \/ Recovery(p) \/ Maintenance(p) \/ Materialization(p)
  \/ SnapshotAndDocker(p) \/ Commit(p) \/ Fault(p)

NextPowered == (\E p \in Builds : Step(p) \/ Kill(p)) \/ TimePasses

Next == NextPowered \/ PowerLoss

Spec == Init /\ [][Next]_vars

\* The machine keeps its power: builds fail and are killed, the disk is kept.
SpecPowered == Init /\ [][NextPowered]_vars

\* A build that runs keeps running; somebody builds again; and no single step
\* of recovery is defeated by a fault or a kill for ever.
Running(p) == ~At(p, "idle") /\ Step(p)

Fairness ==
  /\ \A p \in Builds : WF_vars(Running(p))
  /\ WF_vars(\E p \in Builds : Acquire(p))
  /\ SF_vars(\E p \in Builds : DiscoverOk(p))
  /\ SF_vars(\E p \in Builds : ReconcileOk(p))
  /\ SF_vars(\E p \in Builds : CleanOk(p))
  /\ SF_vars(\E p \in Builds : RetireOk(p))

FairSpec == SpecPowered /\ Fairness

-----------------------------------------------------------------------------
(* Properties.                                                             *)

\* Every variable keeps to its type; in particular a marker is absent, fresh
\* or expired, and a manifest names known blobs.
TypeOK ==
  /\ lock \in Builds \cup {NoBuild}
  /\ pc \in [Builds -> Steps]
  /\ phase \in [Builds -> {"recover", "commit"}]
  /\ sel \in [Builds -> SUBSET Blobs]
  /\ todo \in [Builds -> SUBSET Blobs]
  /\ cur \in [Builds -> SUBSET Blobs]
  /\ outcome \in [Builds -> {"none", "success", "failed", "committed"}]
  /\ vis \in [Gens -> {NoManifest} \cup SUBSET Blobs]
  /\ dur \in [Gens -> {NoManifest} \cup SUBSET Blobs]
  /\ twin \in SUBSET Gens
  /\ blob \in [Blobs -> BlobStates]
  /\ blobDisk \in [Blobs -> SUBSET BlobStates]
  /\ marker \in [Blobs -> MarkerStates]
  /\ markerDisk \in [Blobs -> SUBSET MarkerStates]
  /\ snap \in SUBSET Blobs

\* At most one build is between acquiring build.lock and releasing it, and it
\* is the one the kernel records.
MutualExclusion == \A p \in Builds : ~At(p, "idle") => lock = p

Visible == Present(vis)
Synced  == Present(dur)

\* The manifest of generation n, wherever it still is.
Body(n) == IF vis[n] # NoManifest THEN vis[n] ELSE dur[n]

\* Generations that are the newest one after a power loss, for some outcome.
MayBeNewest == {n \in Visible \cup Synced : \A m \in Visible \cap Synced : m <= n}

Protected == {b \in Blobs : \E n \in MayBeNewest : b \in Body(n)}

\* Whatever a power loss keeps, the generation directory never holds a third
\* generation or a gap: inspect_generations never meets the ambiguity on which
\* it fails closed for ever.
GenerationsUnambiguous ==
  \A m, n \in Visible \cup Synced : m < n => n = m + 1

\* While the machine keeps its power, every blob of each generation that may
\* turn out to be the authoritative one is in the store and valid, whatever
\* fails and whenever the build is killed.
CommittedComplete == \A b \in Protected : blob[b] = "ok"

\* The work of a build (maintenance, materialisation, snapshot, Docker,
\* publication) starts only on a store whose single generation is on disk and
\* whose committed blobs are durably free of uncommitted markers.
WorkStartsRecovered ==
  \A p \in Builds :
    pc[p] \in Steps \ {"idle", "release", "discover", "reconcile", "clean",
                       "retire", "untwin", "pubsync", "snapshots"}
      => /\ vis = dur /\ Superseded(vis) = {} /\ twin = {}
         /\ \A b \in Live(vis) : markerDisk[b] = {"none"}

\* Recovery runs before abandoned snapshots are removed and refuses a blob
\* with two links: while a predecessor waits for its cleanup no snapshot of any
\* build, finished, failed or killed, is left.
RecoveryNotBlockedBySnapshot == Superseded(vis) # {} => snap = {}

\* A success result means the selection is committed, alone, on disk, without
\* markers and without a snapshot; a post-commit failure means at least that
\* the selection is the durable authority.
ResultHonest ==
  \A p \in Builds : At(p, "release") =>
    /\ outcome[p] = "success" =>
         /\ vis = dur /\ Superseded(vis) = {} /\ Live(vis) = sel[p]
         /\ snap = {} /\ \A b \in sel[p] : markerDisk[b] = {"none"}
    /\ outcome[p] = "committed" => Live(vis) = sel[p] /\ Live(dur) = sel[p]

\* b is found again after any power loss: named by a durable generation, or by
\* a marker that is on disk.
DurablyTracked(b) ==
  \/ \E n \in Visible \cap Synced : b \in vis[n]
  \/ "none" \notin markerDisk[b]

\* No step, no kill and no power loss makes the store forget a blob it keeps:
\* while a tracked blob may still be on disk, a generation or a marker that is
\* certainly on disk names it.
TrackedStaysTracked ==
  [][\A b \in Blobs :
       DurablyTracked(b) /\ blobDisk'[b] # {"absent"} => DurablyTracked(b)']_vars

\* Builds always come back: with the lock held, it is eventually free again.
LockIsReleased == (lock # NoBuild) ~> (lock = NoBuild)

\* A predecessor kept as cleanup evidence is eventually retired by retried
\* builds, unless the publication left its private link behind.
RecoveryCompletes ==
  \A n \in Gens : (n \in Superseded(vis) /\ twin = {}) ~> n \notin Visible

\* The comment of publish_uncommitted_blob: an interruption cannot strand a
\* verified blob without retention state.
NoStrandedBlob ==
  lock = NoBuild =>
    \A b \in Blobs : blob[b] = "ok" =>
      marker[b] # "none" \/ \E n \in Visible : b \in vis[n]

\* The specification of interrupted publication: a later invocation can accept
\* every complete generation that became visible.
VisibleGenerationAcceptable == lock = NoBuild => Readable

\* The build store of the source implements the abstract committed set: the
\* newest visible generation is what the next build sees, the newest one at
\* the last fsync is what a power loss keeps.
Committed == INSTANCE CommittedSet WITH
  proposed <- Live(vis),
  settled  <- Live(dur),
  held     <- {b \in Blobs : blob[b] = "ok"} \ UNION {cur[p] : p \in Builds}

ImplementsCommittedSet == Committed!Spec
=============================================================================
