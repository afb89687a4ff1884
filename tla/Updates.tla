------------------------------- MODULE Updates -------------------------------
(***************************************************************************)
(* check-updates: the providers are asked one target after another, their  *)
(* candidates classified, and the reviewed inventory's blocks rewritten    *)
(* for every candidate that may be applied (updates.py, providers/).  The  *)
(* user merges the blocks into the inventory, which is then loaded again   *)
(* (inventory.py).                                                         *)
(*                                                                         *)
(* What the versions mean is in VersionRanges; here they are numbered in   *)
(* the order they have there, which is total. A leaf that holds an address *)
(* or a checksum is the version it belongs to. One target stands for each  *)
(* kind of entry: uv and rtk are kept like "fd", openspec like "pi", ty    *)
(* like "python" without an override.                                      *)
(***************************************************************************)
EXTENDS VersionRanges

CONSTANTS Releases,       \* the versions there are
          Betas,          \* those that are prereleases by their notation
          Marks,          \* what a provider may mark as prereleases
          Filters,        \* what --only is tried with; no filter takes all
          MaxSelected,    \* bound on the targets one check selects
          MaxChecks       \* bound on the checks of one behaviour

ASSUME UpdatesAssumption ==
  /\ Releases \subseteq Nat \ {0} /\ IsFiniteSet(Releases) /\ Betas \subseteq Releases
  /\ Marks \subseteq SUBSET Releases
  /\ MaxChecks \in Nat /\ MaxSelected \in Nat

VARIABLES entries,     \* the leaves of the inventory: version, tag, artifacts
          allowed,      \* what the override of python and of the extension allows
          upstream,    \* what the providers said in this check
          selected,    \* the targets of this check
          results,     \* what was found of those that were asked
          before,      \* the inventory as it was checked
          checks       \* checks made so far

updatesVars == <<entries, allowed, upstream, selected, results, before, checks>>

\* build_update_targets.
Targets == <<"node", "rust", "rustup", "python", "fd", "pi", "omz", "ext">>
KindOf(t) == CASE t \in {"node", "rustup"} -> "digest-refresh" [] t = "omz" -> "revision" [] OTHER -> "version"
Owner(t) == IF t = "rustup" THEN "rust" ELSE t
\* The platforms, the manifest of a Rust release; an extension's artifacts
\* are kept under their version.
Amd64 == "linux-amd64"
Arm64 == "linux-arm64"
Manifest == "manifest"
Required == {Amd64}

\* A filter is a provider, a path or the beginning of one.
Selects(filter, t) ==
  CASE filter = "rust" -> t \in {"rust", "rustup"}
    [] filter = "build" -> t # "ext" [] filter = "npm" -> t \in {"pi", "ext"} [] OTHER -> filter = t

----------------------------------------------------------------------------
(* The loader: what it accepts of the entries (validate_inventory) *)

Strict(v) == v \notin Betas                  \* X.Y.Z and nothing after it
RustLoads(e) == Strict(e["rust"].at) /\ e["rust"].art[Manifest] = e["rust"].at
RustupLoads(e) == DOMAIN e["rustup"].art = {Amd64}
PythonLoads(e, p) == e["python"].at \in p["python"]
PrebuiltLoads(e) ==
  /\ Strict(e["fd"].at) /\ e["fd"].tag = e["fd"].at /\ Required \subseteq DOMAIN e["fd"].art
  /\ \A k \in DOMAIN e["fd"].art : e["fd"].art[k] = e["fd"].at
ExtensionLoads(e, p) == e["ext"].at \in e["ext"].keys /\ e["ext"].at \in p["ext"]
Loads(e, p) ==
  RustLoads(e) /\ RustupLoads(e) /\ PythonLoads(e, p) /\ PrebuiltLoads(e) /\ Strict(e["pi"].at) /\ ExtensionLoads(e, p)

Leaf(v, keys) == [at |-> v, tag |-> v, art |-> [k \in keys |-> v], keys |-> {v}]
FirstEntries(v, platforms) ==
  [t \in Range(Targets) |->
     CASE t = "rust" -> Leaf(v, {Manifest}) [] t = "rustup" -> Leaf(v, {Amd64})
       [] t = "fd" -> Leaf(v, platforms) [] OTHER -> Leaf(v, {})]
AllowedVersions == [{"python", "ext"} -> SUBSET Releases]

NotAsked == [kind |-> "not asked"]
NoResults == [t \in {} |-> 0]
UpdatesInit ==
  /\ \E v \in Releases \ Betas, platforms \in {{Amd64}, {Amd64, Arm64}} : entries = FirstEntries(v, platforms)
  /\ allowed \in AllowedVersions
  /\ Loads(entries, allowed)
  /\ upstream = [t \in Range(Targets) |-> NotAsked]
  /\ selected = {} /\ results = NoResults /\ before = entries /\ checks = 0

----------------------------------------------------------------------------
(* The providers *)

\* What there is upstream: the versions, which of them count as prereleases (a
\* release of GitHub by its mark, whatever its tag says, a package by its
\* version), whether the required artifacts of the newest have their checksums
\* (GitHub), the dist data is good (npm).
Provided(t) ==
  {[kind |-> "down"]} \cup
  (IF t \in {"python", "fd", "pi", "ext"}
   THEN [kind : {"versions"}, versions : SUBSET Releases, betas : BOOLEAN,
         prereleases : IF t \in {"python", "fd"} THEN Marks ELSE {Betas},
         complete : IF t \in {"fd", "ext"} THEN BOOLEAN ELSE {TRUE}]
   ELSE [kind : {"one"}, version : Releases \ (IF t = "rust" THEN Betas ELSE {})])

Skip == [found |-> "skipped"]
Lost == [found |-> "unavailable"]
Candidate(v, art, keys, reason) == [found |-> "candidate", value |-> v, art |-> art, keys |-> keys, incomplete |-> reason]
NoArt == [k \in {} |-> 0]

\* A possible bug: what is older than the reviewed version is offered.
OfferedAnyway(t, v) == v # entries[t].at
Offered(t, v) == v > entries[t].at

Given(t, v) == Candidate(v, NoArt, {}, FALSE)
\* A release with the checksum of every required artifact, or none of them.
GitHubCandidate(t, v, complete) == Candidate(v, [k \in Required |-> IF complete THEN v ELSE 0], {}, FALSE)
\* An extension brings the artifact of its version, or is incomplete.
NpmCandidate(t, v, complete) ==
  IF t = "pi" THEN Given(t, v) ELSE Candidate(v, NoArt, IF complete THEN {v} ELSE {}, ~ complete)
NothingFits(t) == IF t = "python" THEN Lost ELSE Skip

\* The newest that the rule on prereleases leaves; never a downgrade.
NewestOf(t, answer) ==
  LET fit == {v \in answer.versions : answer.betas \/ v \notin answer.prereleases}
      best == Max(fit)
  IN IF fit = {} THEN NothingFits(t)
     ELSE IF ~ Offered(t, best) THEN Given(t, entries[t].at)
     ELSE CASE t = "fd" -> GitHubCandidate(t, best, answer.complete)
            [] t \in {"pi", "ext"} -> NpmCandidate(t, best, answer.complete)
            [] OTHER -> Given(t, best)

RustCandidate(v) == Given("rust", IF Offered("rust", v) THEN v ELSE entries["rust"].at)
BootstrapCandidate(t, v) ==
  Candidate(v, [k \in {x \in DOMAIN entries[t].art : entries[t].art[x] # v} |-> v], {}, FALSE)

OnlyOne(t, v) ==
  CASE t = "rust" -> RustCandidate(v) [] t = "rustup" -> BootstrapCandidate(t, v) [] OTHER -> Given(t, v)
DiscoverVersion(t, answer) ==
  CASE answer.kind = "down" -> Lost
    [] answer.kind = "versions" -> NewestOf(t, answer)
    [] answer.kind = "one" -> OnlyOne(t, answer.version)

----------------------------------------------------------------------------
(* The coordinator *)

\* A possible bug: the override of python is not asked.
ClassifyAlone(t, c) == IF c.value = entries[t].at THEN "current" ELSE "outdated"
\* _classify_candidate.
Classify(t, c) ==
  CASE t = "ext" /\ c.incomplete -> "incomplete"
    [] t = "rustup" -> IF c.value = entries[t].art[Amd64] THEN "current" ELSE "outdated"
    [] ~ (t = "ext" /\ c.incomplete) /\ t # "rustup" ->
         IF c.value = entries[t].at THEN "current"
         ELSE IF t = "python" /\ c.value \notin allowed["python"] THEN "incomplete"
         ELSE IF t = "fd" /\ \E k \in Required : k \notin DOMAIN c.art \/ c.art[k] = 0 THEN "incomplete"
         ELSE "outdated"

Result(t, d) ==
  IF d.found # "candidate" THEN [status |-> d.found, candidate |-> 0, art |-> NoArt, keys |-> {}]
  ELSE [status |-> Classify(t, d), candidate |-> d.value, art |-> d.art, keys |-> d.keys]

\* check_updates: a filter that matches nothing is refused before any request.
StartCheck ==
  /\ selected = {} /\ checks < MaxChecks
  /\ \E filters \in SUBSET Filters :
       LET chosen == {t \in Range(Targets) : filters = {} \/ \E f \in filters : Selects(f, t)} IN
       /\ chosen # {} /\ Cardinality(chosen) <= MaxSelected
       /\ selected' = chosen
  /\ upstream' = [t \in DOMAIN upstream |-> NotAsked]
  /\ before' = entries /\ checks' = checks + 1
  /\ UNCHANGED <<entries, allowed, results>>

\* The targets are asked in their order.
Remaining == selected \ DOMAIN results
Resolve ==
  /\ \E i \in DOMAIN Targets : LET next == Targets[i] IN
       /\ next \in Remaining /\ \A k \in 1..i - 1 : Targets[k] \notin Remaining
       /\ \E answer \in Provided(next) :
            /\ upstream' = [upstream EXCEPT ![next] = answer]
            /\ results' = [t \in DOMAIN results \cup {next} |->
                 IF t = next THEN Result(t, DiscoverVersion(t, answer)) ELSE results[t]]
  /\ UNCHANGED <<entries, allowed, selected, before, checks>>

----------------------------------------------------------------------------
(* The replacement blocks *)

\* A possible bug: whatever has a candidate is applied.
AppliesAnyway(r) == r.candidate # 0
Applies(r) == r.status = "outdated"
Done == selected # {} /\ Remaining = {}

\* A possible bug: the address of the toolchain's manifest is left.
VersionOnly(t, e, r) == [e EXCEPT !.at = r.candidate, !.tag = IF t = "fd" THEN r.candidate ELSE @, !.keys = @ \cup r.keys]
\* overlay_candidates: the leaves the candidate replaces, all others as they were.
Overlay(t, e, r) ==
  LET artifacts == [k \in DOMAIN e.art \cup DOMAIN r.art |-> IF k \in DOMAIN r.art THEN r.art[k] ELSE e.art[k]] IN
  CASE t = "rustup" -> [e EXCEPT !.art = artifacts]
    [] t = "rust" -> [e EXCEPT !.at = r.candidate,
                               !.art[Manifest] = IF @ = e.at THEN r.candidate ELSE @]
    [] t = "fd" -> [e EXCEPT !.at = r.candidate, !.tag = r.candidate, !.art = artifacts]
    [] OTHER -> [e EXCEPT !.at = r.candidate, !.keys = @ \cup r.keys]

Outdated == {t \in DOMAIN results : Applies(results[t])}
Blocks == {Owner(t) : t \in Outdated}
Rewritten == [t \in DOMAIN entries |-> IF t \in Outdated THEN Overlay(t, entries[t], results[t]) ELSE entries[t]]

\* serialize_suggestions: the leaves that are announced to change.
Suggested(t, r) ==
  {CASE KindOf(t) = "digest-refresh" -> "digest" [] KindOf(t) = "revision" -> "revision" [] OTHER -> "version"}
  \cup (IF t = "fd" THEN {"tag"} ELSE {}) \cup DOMAIN r.art

\* The user takes the blocks over, complete as they are, and goes on with
\* what the loader accepts; or takes nothing.
Merge ==
  /\ Done
  /\ entries' \in {entries} \cup (IF Loads(Rewritten, allowed) THEN {Rewritten} ELSE {})
  /\ selected' = {} /\ results' = NoResults
  /\ UNCHANGED <<allowed, upstream, before, checks>>

UpdatesNext == StartCheck \/ Resolve \/ Merge
UpdatesSpec == UpdatesInit /\ [][UpdatesNext]_updatesVars

----------------------------------------------------------------------------
(* The blocks of an inventory that loads, load again, but for three cases    *)
(* the coordinator does not ask about: a platform that is not required keeps *)
(* the address of the old version, an extension leaves its override, and a   *)
(* prerelease, asked for or not marked as one, comes where the inventory     *)
(* keeps none.                                                               *)
LoadsAgain ==
  LET moved(t) == t \in Outdated /\ Rewritten[t].at # entries[t].at
  IN Loads(Rewritten, allowed) = ~ (\/ moved("fd") /\ DOMAIN entries["fd"].art # Required
                                    \/ moved("ext") /\ Rewritten["ext"].at \notin allowed["ext"]
                                    \/ \E t \in {"fd", "pi"} : moved(t) /\ Rewritten[t].at \in Betas)

\* Nothing that is applied goes back, and no block is touched but the owners'.
Forward ==
  \A t \in DOMAIN entries :
    /\ KindOf(t) = "version" => Rewritten[t].at >= entries[t].at
    /\ Owner(t) \notin Blocks => Rewritten[t] = entries[t]

\* A target whose block was taken over is up to date when it is asked again.
BlocksSettled ==
  \A t \in DOMAIN entries :
    entries[t] # before[t] /\ upstream[t] # NotAsked =>
      LET d == DiscoverVersion(t, upstream[t]) IN d.found = "candidate" => Classify(t, d) = "current"

\* What the JSON announces is what the block changes, but for the digest of
\* a bootstrap artifact, an extension's artifacts and the Rust manifest.
AnnouncedTrue ==
  \A t \in Outdated \ {"node", "omz"} :
    LET old == entries[t]
        new == Rewritten[t]
    IN {k \in {"version", "tag", Amd64, Arm64} :
          CASE k = "version" -> new.at # old.at
            [] k = "tag" -> new.tag # old.tag
            [] OTHER -> k \in DOMAIN old.art /\ new.art[k] # old.art[k]}
       = Suggested(t, results[t]) \ (IF t = "rustup" THEN {"digest"} ELSE {})

\* Together: what check-updates proposes can be taken over and then holds.
UpdatesSound == BlocksSettled /\ (Done => LoadsAgain /\ Forward /\ AnnouncedTrue)

\* Versions mean what their notation promises (semver.py, semver_range.py,
\* constraints.py), and what check-updates proposes can be taken over and then
\* holds (updates.py).
VersioningSound == VersionsSound /\ UpdatesSound
=============================================================================
