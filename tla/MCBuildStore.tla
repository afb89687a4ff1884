---------------------------- MODULE MCBuildStore ----------------------------
(***************************************************************************)
(* The build store on two blobs: every selection shares a blob with        *)
(* another one, so a commit can keep one digest and supersede the other.   *)
(***************************************************************************)
EXTENDS BuildStore, TLC

CONSTANTS b1, b2

MCSelections == {{b1}, {b1, b2}, {b2}}

\* The blobs are told apart by the selections only, and those are symmetric.
BlobSymmetry == Permutations(Blobs)
Symmetry == Permutations(Builds) \cup BlobSymmetry

\* Builds one after another: nobody else contends for the lock.  The power
\* goes, if at all, between two builds, when a blob may be left that is refused
\* from then on, and before a generation is published.
Spoils ==
  lock = NoBuild /\ Visible = {} /\ dur = vis /\ \E b \in Blobs : {"absent", "unsafe"} \subseteq blobDisk[b]
AloneNext ==
  \/ \E p \in Builds :
       \/ Acquire(p) \/ Release(p) \/ Recovery(p) \/ Maintenance(p) \/ Materialization(p)
       \/ SnapshotAndDocker(p) \/ Commit(p) \/ Fault(p) \/ Kill(p)
  \/ TimePasses \/ (Spoils /\ PowerLoss)
AloneFairSpec == Init /\ [][AloneNext]_vars /\ Fairness
=============================================================================
