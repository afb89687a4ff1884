---------------------------- MODULE CommittedSet ----------------------------
(***************************************************************************)
(* What the build store promises its user: one committed set of blobs that *)
(* changes as a whole.  A commit first proposes a set whose blobs are all  *)
(* held, then settles it; until it is settled a power loss may bring the   *)
(* former set back, and nothing else ever does.  Blobs are reclaimed only  *)
(* when neither the proposed nor the settled set names them.               *)
(***************************************************************************)
CONSTANT Blobs

VARIABLES
  proposed,  \* the newest committed set, as the next build sees it
  settled,   \* the committed set that survives a power loss
  held       \* the blobs in the store

vars == <<proposed, settled, held>>

Init == proposed = {} /\ settled = {} /\ held = {}

Settle ==
  /\ settled' = proposed
  /\ UNCHANGED <<proposed, held>>

Propose ==
  /\ proposed = settled
  /\ proposed' \in SUBSET held
  /\ UNCHANGED <<settled, held>>

Add ==
  /\ held' \in SUBSET Blobs /\ held \subseteq held'
  /\ UNCHANGED <<proposed, settled>>

Reclaim ==
  /\ held' \in SUBSET held /\ proposed \cap held \subseteq held' /\ settled \cap held \subseteq held'
  /\ UNCHANGED <<proposed, settled>>

\* Blobs are not flushed as carefully as manifests are: some may be gone.
LosePower ==
  /\ proposed' \in {proposed, settled}
  /\ settled' = proposed'
  /\ held' \in SUBSET Blobs

Next == Settle \/ Propose \/ Add \/ Reclaim \/ LosePower

Spec == Init /\ [][Next]_vars
=============================================================================
