----------------------------- MODULE CachedContent -----------------------------
(***************************************************************************)
(* What the commands take from the disk instead of the network: the        *)
(* runtime artifacts (ArtifactCache) and the responses (ResponseCache).    *)
(* The two share no state.                                                 *)
(***************************************************************************)
EXTENDS ArtifactCache, ResponseCache

\* What a launch mounts is the verified content of its key, and a cached
\* response is served only while it lives (artifact_cache.py, cache.py).
CachesSound == MountedIsRight /\ ServedSound
=============================================================================
