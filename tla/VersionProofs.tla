---------------------------- MODULE VersionProofs ----------------------------
(***************************************************************************)
(* Proofs about the versions and what is done with them: a check for       *)
(* updates and the blocks it rewrites (Updates), for any releases and any  *)
(* sequence of checks, and the comparisons (VersionRanges), for versions   *)
(* with parts of any size and any prereleases.                             *)
(***************************************************************************)
EXTENDS Updates, FiniteSetTheorems, WellFoundedInduction, TLAPS

\* A finite set of numbers has a greatest.
LEMMA GreatestExists ==
  ASSUME NEW S, IsFiniteSet(S), S \subseteq Nat, S # {} PROVE \E x \in S : \A y \in S : x >= y
<1> DEFINE Without(T) == IsFiniteSet(T) /\ T \subseteq Nat /\ T # {} /\ ~ \E x \in T : \A y \in T : x >= y
           Sizes == {n \in Nat : \E T \in SUBSET S : Without(T) /\ Cardinality(T) = n}
<1> SUFFICES ASSUME Without(S) PROVE FALSE
  OBVIOUS
<1>1. Cardinality(S) \in Sizes
  BY FS_CardinalityType
<1>2. PICK n \in Sizes : \A m \in Sizes : ~ (<<m, n>> \in OpToRel(<, Nat))
  <2> HIDE DEF Sizes
  <2>1. Sizes \subseteq Nat
    BY DEF Sizes
  <2> QED
    BY <1>1, <2>1, WFMin, NatLessThanWellFounded, Zenon
<1>3. \A m \in Sizes : ~ (m < n)
  <2> HIDE DEF Sizes
  <2>1. Sizes \subseteq Nat
    BY DEF Sizes
  <2> QED
    BY <1>2, <2>1, Zenon DEF OpToRel
<1>4. PICK T \in SUBSET S : Without(T) /\ Cardinality(T) = n
  OBVIOUS
<1>5. PICK x \in T : TRUE
  BY <1>4
<1>6. IsFiniteSet(T \ {x}) /\ Cardinality(T \ {x}) = n - 1 /\ n - 1 \in Nat
  <2>1. IsFiniteSet(T \ {x}) /\ Cardinality(T \ {x}) = n - 1
    BY <1>4, <1>5, FS_RemoveElement
  <2> QED
    BY <2>1, FS_CardinalityType
<1>7. ~ Without(T \ {x})
  <2> SUFFICES ASSUME Without(T \ {x}) PROVE FALSE
    OBVIOUS
  <2>1. n - 1 \in Sizes
    BY <1>4, <1>6
  <2> QED
    BY <1>3, <1>6, <2>1
<1>8. CASE T \ {x} = {}
  BY <1>4, <1>5, <1>8
<1>9. CASE T \ {x} # {}
  <2>1. PICK m \in T \ {x} : \A y \in T \ {x} : m >= y
    BY <1>4, <1>6, <1>7, <1>9
  <2>2. m \in Nat /\ x \in Nat /\ T \subseteq Nat
    BY <1>4, <1>5
  <2>3. \E z \in T : \A y \in T : z >= y
    <3>1. CASE m >= x
      BY <2>1, <2>2, <3>1
    <3>2. CASE x >= m
      BY <1>5, <2>1, <2>2, <3>2
    <3> QED
      BY <2>2, <3>1, <3>2
  <2> QED
    BY <1>4, <2>3
<1> QED
  BY <1>8, <1>9

LEMMA GreatestIs ==
  ASSUME NEW S, IsFiniteSet(S), S \subseteq Nat, S # {}
  PROVE  Max(S) \in S /\ \A y \in S : Max(S) >= y
BY GreatestExists DEF Max

-----------------------------------------------------------------------------
(* A check for updates                                                     *)

Named == {"node", "rust", "rustup", "python", "fd", "pi", "omz", "ext"}
ByVersions == {"python", "fd", "pi", "ext"}

LEMMA TargetsAre ==
  Range(Targets) = Named /\ DOMAIN Targets = 1..8 /\ \A i \in 1..8 : Targets[i] \in Named
<1>1. DOMAIN Targets = 1..8
  BY DEF Targets
<1>2. \A i \in 1..8 : Targets[i] \in Named
  BY DEF Targets, Named
<1>3. \A t \in Named : \E i \in 1..8 : Targets[i] = t
  <2>1. /\ Targets[1] = "node" /\ Targets[2] = "rust" /\ Targets[3] = "rustup" /\ Targets[4] = "python"
        /\ Targets[5] = "fd" /\ Targets[6] = "pi" /\ Targets[7] = "omz" /\ Targets[8] = "ext"
    BY DEF Targets
  <2> HIDE DEF Targets
  <2> QED
    BY <2>1 DEF Named
<1> QED
  BY <1>1, <1>2, <1>3 DEF Range

\* What an inventory is: its leaves, and which artifacts an entry has.
Leaves == [at : Releases, tag : Releases, art : UNION {[K -> Releases] : K \in SUBSET {Amd64, Arm64, Manifest}},
           keys : SUBSET Releases]
ArtifactsOf(t) ==
  CASE t = "rust" -> {{Manifest}} [] t = "rustup" -> {{Amd64}} [] t = "fd" -> {{Amd64}, {Amd64, Arm64}} [] OTHER -> {{}}
Inventory(e) == e \in [Named -> Leaves] /\ \A t \in Named : DOMAIN e[t].art \in ArtifactsOf(t)

\* What the check in hand has found is what its answers come to.
FoundOf(t) == upstream[t] \in Provided(t) /\ results[t] = Result(t, DiscoverVersion(t, upstream[t]))

UpdatesInv ==
  /\ Inventory(entries) /\ Loads(entries, allowed)
  /\ DOMAIN upstream = Named /\ upstream = [t \in Named |-> upstream[t]]
  /\ selected \subseteq Named /\ DOMAIN results \subseteq selected
  /\ \A t \in DOMAIN results : FoundOf(t)
  /\ selected # {} => before = entries
  /\ DOMAIN before = Named
  /\ BlocksSettled

LEMMA AnswersAre ==
  ASSUME NEW t \in Named, NEW answer \in Provided(t)
  PROVE  \/ answer.kind = "down"
         \/ t \in ByVersions /\ answer.kind = "versions" /\ answer.versions \subseteq Releases
         \/ /\ t \notin ByVersions /\ answer.kind = "one" /\ answer.version \in Releases
            /\ t = "rust" => answer.version \notin Betas
<1>1. CASE t \in ByVersions
  <2>1. t \in {"python", "fd", "pi", "ext"}
    BY <1>1 DEF ByVersions
  <2>2. PICK M, C : Provided(t) = {[kind |-> "down"]} \cup
                   [kind : {"versions"}, versions : SUBSET Releases, betas : BOOLEAN, prereleases : M, complete : C]
    BY <2>1 DEF Provided
  <2> QED
    BY <1>1, <2>2
<1>2. CASE t \notin ByVersions
  <2>1. t \notin {"python", "fd", "pi", "ext"}
    BY <1>2 DEF ByVersions
  <2>2. Provided(t) = {[kind |-> "down"]} \cup
                        [kind : {"one"}, version : Releases \ (IF t = "rust" THEN Betas ELSE {})]
    BY <2>1 DEF Provided
  <2> QED
    BY <1>2, <2>2
<1> QED
  BY <1>1, <1>2

Fit(answer) == {v \in answer.versions : answer.betas \/ v \notin answer.prereleases}

\* The newest of an answer is a release.
LEMMA NewestIs ==
  ASSUME NEW t \in ByVersions, NEW answer \in Provided(t), answer.kind = "versions", Fit(answer) # {}
  PROVE  Max(Fit(answer)) \in Fit(answer) /\ Max(Fit(answer)) \in Releases
<1>1. answer.versions \subseteq Releases
  BY AnswersAre DEF ByVersions, Named
<1>2. Fit(answer) \subseteq Releases
  BY <1>1 DEF Fit
<1>3. IsFiniteSet(Fit(answer)) /\ Fit(answer) \subseteq Nat
  BY <1>2, UpdatesAssumption, FS_Subset
<1> QED
  BY <1>2, <1>3, GreatestIs

\* What makes a target outdated, and what is then to replace its leaves.
ChangeOf(t) ==
  LET e == entries[t]
      r == results[t]
      v == r.candidate
  IN /\ v \in Releases /\ v > 0
     /\ t \in ByVersions => /\ upstream[t].kind = "versions" /\ Fit(upstream[t]) # {}
                            /\ v = Max(Fit(upstream[t]))
     /\ t \notin ByVersions => upstream[t].kind = "one" /\ upstream[t].version = v
     /\ t \in ByVersions \cup {"rust"} => v > e.at
     /\ t \in {"node", "omz"} => v # e.at
     /\ t = "rust" => v \notin Betas
     /\ t = "python" => v \in allowed["python"]
     /\ t = "fd" => r.art = [k \in Required |-> v]
     /\ t = "rustup" => r.art = [k \in {Amd64} |-> v] /\ v # e.art[Amd64]
     /\ t \notin {"fd", "rustup"} => r.art = NoArt
     /\ r.keys = IF t = "ext" THEN {v} ELSE {}

\* What a provider of versions finds, when it is a candidate.
LEMMA NewestFound ==
  ASSUME NEW t \in ByVersions, NEW answer \in Provided(t), DiscoverVersion(t, answer).found = "candidate"
  PROVE  /\ answer.kind = "versions" /\ Fit(answer) # {}
         /\ ~ Offered(t, Max(Fit(answer))) => DiscoverVersion(t, answer) = Given(t, entries[t].at)
         /\ Offered(t, Max(Fit(answer))) =>
              DiscoverVersion(t, answer) = CASE t = "fd" -> GitHubCandidate(t, Max(Fit(answer)), answer.complete)
                                             [] t \in {"pi", "ext"} -> NpmCandidate(t, Max(Fit(answer)), answer.complete)
                                             [] OTHER -> Given(t, Max(Fit(answer)))
<1>1. answer.kind \in {"down", "versions"}
  BY AnswersAre DEF ByVersions, Named
<1>2. answer.kind = "versions"
  BY <1>1 DEF DiscoverVersion, Lost
<1>3. DiscoverVersion(t, answer) = NewestOf(t, answer)
  BY <1>2 DEF DiscoverVersion
<1>4. Fit(answer) = {v \in answer.versions : answer.betas \/ v \notin answer.prereleases}
  BY DEF Fit
<1>5. Fit(answer) # {}
  <2>1. NothingFits(t).found # "candidate"
    BY DEF NothingFits, Lost, Skip
  <2>2. Fit(answer) = {} => NewestOf(t, answer) = NothingFits(t)
    BY <1>4 DEF NewestOf
  <2> QED
    BY <1>3, <2>1, <2>2
<1> QED
  BY <1>2, <1>3, <1>4, <1>5 DEF NewestOf

LEMMA OutdatedByVersions ==
  ASSUME UpdatesInv, NEW t \in ByVersions, t \in Outdated PROVE ChangeOf(t)
<1> DEFINE answer == upstream[t]
           d == DiscoverVersion(t, answer)
           best == Max(Fit(answer))
<1>1. t \in DOMAIN results /\ t \in Named /\ results[t].status = "outdated"
  BY DEF Outdated, Applies, ByVersions, Named
<1>2. results[t] = Result(t, d) /\ answer \in Provided(t)
  BY <1>1 DEF UpdatesInv, FoundOf
<1>3. entries[t].at \in Nat /\ entries[t].at \in Releases
  <2>1. entries[t] \in Leaves
    BY <1>1 DEF UpdatesInv, Inventory
  <2> QED
    BY <2>1, UpdatesAssumption DEF Leaves
<1>4. d.found = "candidate"
  <2>1. CASE answer.kind = "down"
    <3>1. d.found = "unavailable"
      BY <2>1 DEF DiscoverVersion, Lost
    <3> HIDE DEF d
    <3> QED
      BY <1>1, <1>2, <3>1 DEF Result
  <2>2. CASE answer.kind = "versions"
    <3>1. d = NewestOf(t, answer)
      BY <2>2 DEF DiscoverVersion
    <3>2. NewestOf(t, answer).found \in {"candidate", "skipped", "unavailable"}
      BY DEF NewestOf, NothingFits, Lost, Skip, Given, GitHubCandidate, NpmCandidate, Candidate
    <3> HIDE DEF d
    <3> QED
      BY <1>1, <1>2, <3>1, <3>2 DEF Result
  <2> QED
    BY <1>1, <1>2, <2>1, <2>2, AnswersAre DEF ByVersions
<1>5. /\ Classify(t, d) = "outdated" /\ results[t].candidate = d.value
      /\ results[t].art = d.art /\ results[t].keys = d.keys
  <2> HIDE DEF d
  <2> QED
    BY <1>1, <1>2, <1>4 DEF Result
<1>6. /\ answer.kind = "versions" /\ Fit(answer) # {}
      /\ ~ Offered(t, best) => d = Given(t, entries[t].at)
      /\ Offered(t, best) => d = CASE t = "fd" -> GitHubCandidate(t, best, answer.complete)
                                   [] t \in {"pi", "ext"} -> NpmCandidate(t, best, answer.complete)
                                   [] OTHER -> Given(t, best)
  BY <1>2, <1>4, NewestFound
<1>7. best \in Releases /\ best \in Nat /\ best > 0
  BY <1>2, <1>6, NewestIs, UpdatesAssumption
<1> HIDE DEF d, best
<1>8. Offered(t, best)
  <2>1. d = Given(t, entries[t].at) => Classify(t, d) = "current"
    BY DEF Given, Candidate, Classify, ByVersions
  <2> QED
    BY <1>5, <1>6, <2>1
<1>9. best > entries[t].at
  BY <1>8 DEF Offered
<1>10. CASE t = "python"
  <2>1. d = Candidate(best, NoArt, {}, FALSE)
    BY <1>6, <1>8, <1>10 DEF Given
  <2>2. d.value = best /\ d.art = NoArt /\ d.keys = {}
    BY <2>1 DEF Candidate
  <2>3. best \in allowed["python"]
    BY <1>3, <1>5, <1>7, <1>9, <1>10, <2>2 DEF Classify
  <2> QED
    BY <1>5, <1>6, <1>7, <1>9, <1>10, <2>2, <2>3 DEF ChangeOf, ByVersions, best
<1>11. CASE t = "fd"
  <2>1. d = Candidate(best, [k \in Required |-> IF answer.complete THEN best ELSE 0], {}, FALSE)
    BY <1>6, <1>8, <1>11 DEF GitHubCandidate
  <2>2. /\ d.value = best /\ d.keys = {}
        /\ d.art = [k \in Required |-> IF answer.complete THEN best ELSE 0]
    BY <2>1 DEF Candidate
  <2>3. answer.complete
    <3>1. \A k \in Required : d.art[k] # 0
      BY <1>3, <1>5, <1>7, <1>9, <1>11, <2>2 DEF Classify
    <3>2. Amd64 \in Required
      BY DEF Required
    <3> QED
      BY <2>2, <3>1, <3>2
  <2>4. d.art = [k \in Required |-> best]
    BY <2>2, <2>3
  <2> QED
    BY <1>5, <1>6, <1>7, <1>9, <1>11, <2>2, <2>4 DEF ChangeOf, ByVersions, best
<1>12. CASE t = "pi"
  <2>1. d = Candidate(best, NoArt, {}, FALSE)
    BY <1>6, <1>8, <1>12 DEF NpmCandidate, Given
  <2>2. d.value = best /\ d.art = NoArt /\ d.keys = {}
    BY <2>1 DEF Candidate
  <2> QED
    BY <1>5, <1>6, <1>7, <1>9, <1>12, <2>2 DEF ChangeOf, ByVersions, best
<1>13. CASE t = "ext"
  <2>1. d = Candidate(best, NoArt, IF answer.complete THEN {best} ELSE {}, ~ answer.complete)
    BY <1>6, <1>8, <1>13 DEF NpmCandidate
  <2>2. /\ d.value = best /\ d.art = NoArt /\ d.keys = (IF answer.complete THEN {best} ELSE {})
        /\ d.incomplete = ~ answer.complete
    BY <2>1 DEF Candidate
  <2>3. answer.complete
    BY <1>5, <1>13, <2>2 DEF Classify
  <2> QED
    BY <1>5, <1>6, <1>7, <1>9, <1>13, <2>2, <2>3 DEF ChangeOf, ByVersions, best
<1> QED
  BY <1>10, <1>11, <1>12, <1>13 DEF ByVersions


LEMMA OutdatedByOne ==
  ASSUME UpdatesInv, NEW t \in Named, t \notin ByVersions, t \in Outdated PROVE ChangeOf(t)
<1> DEFINE v == upstream[t].version
           d == DiscoverVersion(t, upstream[t])
<1>1. t \in DOMAIN results /\ results[t].status = "outdated"
  BY DEF Outdated, Applies
<1>2. results[t] = Result(t, d) /\ upstream[t] \in Provided(t)
  BY <1>1 DEF UpdatesInv, FoundOf
<1>3. entries[t].at \in Nat /\ entries[t].at \in Releases
  <2>1. entries[t] \in Leaves
    BY DEF UpdatesInv, Inventory
  <2> QED
    BY <2>1, UpdatesAssumption DEF Leaves
<1>4. upstream[t].kind = "one" /\ v \in Releases /\ v \in Nat /\ v > 0 /\ (t = "rust" => v \notin Betas)
  <2>1. upstream[t].kind # "down"
    <3> SUFFICES ASSUME upstream[t].kind = "down" PROVE FALSE
      OBVIOUS
    <3>1. d.found = "unavailable"
      BY DEF DiscoverVersion, Lost
    <3> HIDE DEF d
    <3> QED
      BY <1>1, <1>2, <3>1 DEF Result
  <2>2. /\ upstream[t].kind = "one" /\ v \in Releases
        /\ t = "rust" => v \notin Betas
    BY <1>2, <2>1, AnswersAre
  <2> HIDE DEF d, v
  <2>3. v \in Nat /\ v > 0
    BY <2>2, UpdatesAssumption
  <2> QED
    BY <2>2, <2>3
<1>5. d = OnlyOne(t, v)
  BY <1>4 DEF DiscoverVersion
<1> HIDE DEF d, v
<1>6. d.found = "candidate"
  BY <1>5 DEF OnlyOne, RustCandidate, BootstrapCandidate, Given, Candidate
<1>7. /\ Classify(t, d) = "outdated" /\ results[t].candidate = d.value
      /\ results[t].art = d.art /\ results[t].keys = d.keys
  BY <1>1, <1>2, <1>6 DEF Result
<1>8. CASE t = "rust"
  <2>1. d = Candidate(IF Offered("rust", v) THEN v ELSE entries["rust"].at, NoArt, {}, FALSE)
    BY <1>5, <1>8 DEF OnlyOne, RustCandidate, Given
  <2>2. d.value = (IF Offered("rust", v) THEN v ELSE entries["rust"].at) /\ d.art = NoArt /\ d.keys = {}
    BY <2>1 DEF Candidate
  <2>3. d.value # entries[t].at
    BY <1>7, <1>8 DEF Classify
  <2>4. d.value = v /\ v > entries[t].at
    BY <1>8, <2>2, <2>3 DEF Offered
  <2> QED
    BY <1>4, <1>7, <1>8, <2>2, <2>4 DEF ChangeOf, ByVersions, v
<1>9. CASE t = "rustup"
  <2>1. DOMAIN entries[t].art = {Amd64}
    BY <1>9 DEF UpdatesInv, Loads, RustupLoads
  <2>2. d = Candidate(v, [k \in {x \in DOMAIN entries[t].art : entries[t].art[x] # v} |-> v], {}, FALSE)
    BY <1>5, <1>9 DEF OnlyOne, BootstrapCandidate
  <2>3. /\ d.value = v /\ d.art = [k \in {x \in DOMAIN entries[t].art : entries[t].art[x] # v} |-> v]
        /\ d.keys = {}
    BY <2>2 DEF Candidate
  <2>4. v # entries[t].art[Amd64]
    BY <1>7, <1>9, <2>3 DEF Classify
  <2>5. {x \in DOMAIN entries[t].art : entries[t].art[x] # v} = {Amd64}
    BY <2>1, <2>4
  <2>6. d.art = [k \in {Amd64} |-> v]
    BY <2>3, <2>5
  <2> QED
    BY <1>4, <1>7, <1>9, <2>3, <2>4, <2>6 DEF ChangeOf, ByVersions, v
<1>10. CASE t \in {"node", "omz"}
  <2>1. d = Candidate(v, NoArt, {}, FALSE)
    BY <1>5, <1>10 DEF OnlyOne, Given
  <2>2. d.value = v /\ d.art = NoArt /\ d.keys = {}
    BY <2>1 DEF Candidate
  <2>3. v # entries[t].at
    BY <1>7, <1>10, <2>2 DEF Classify
  <2> QED
    BY <1>4, <1>7, <1>10, <2>2, <2>3 DEF ChangeOf, ByVersions, v
<1> QED
  BY <1>8, <1>9, <1>10 DEF ByVersions, Named

LEMMA Changes == ASSUME UpdatesInv, NEW t \in Outdated PROVE t \in Named /\ ChangeOf(t)
<1>1. t \in Named
  BY DEF Outdated, UpdatesInv
<1> QED
  BY <1>1, OutdatedByVersions, OutdatedByOne

\* The leaves of an entry after its block was rewritten.
RewrittenOf(t) ==
  LET old == entries[t]
      new == Rewritten[t]
      v == results[t].candidate
  IN /\ new.at = IF t = "rustup" THEN old.at ELSE v
     /\ new.tag = IF t = "fd" THEN v ELSE old.tag
     /\ new.keys = IF t = "ext" THEN old.keys \cup {v} ELSE old.keys
     /\ DOMAIN new.art = DOMAIN old.art
     /\ \A k \in DOMAIN old.art :
          new.art[k] = IF t \in {"rust", "rustup"} \/ (t = "fd" /\ k \in Required) THEN v ELSE old.art[k]

LEMMA EntryIs ==
  ASSUME UpdatesInv, NEW t \in Named
  PROVE  /\ entries[t] \in Leaves /\ DOMAIN entries[t].art \in ArtifactsOf(t)
         /\ entries[t] = [at |-> entries[t].at, tag |-> entries[t].tag, art |-> entries[t].art, keys |-> entries[t].keys]
         /\ entries[t].at \in Releases /\ entries[t].tag \in Releases /\ entries[t].keys \subseteq Releases
         /\ \A k \in DOMAIN entries[t].art : entries[t].art[k] \in Releases
         /\ entries[t].art = [k \in DOMAIN entries[t].art |-> entries[t].art[k]]
<1>1. entries[t] \in Leaves /\ DOMAIN entries[t].art \in ArtifactsOf(t)
  BY DEF UpdatesInv, Inventory
<1>2. PICK K \in SUBSET {Amd64, Arm64, Manifest} : entries[t].art \in [K -> Releases]
  BY <1>1 DEF Leaves
<1> QED
  BY <1>1, <1>2 DEF Leaves

LEMMA Rewrites ==
  ASSUME UpdatesInv
  PROVE  /\ Rewritten = [t \in Named |-> Rewritten[t]]
         /\ \A t \in Named \ Outdated : Rewritten[t] = entries[t]
         /\ \A t \in Outdated : /\ RewrittenOf(t)
                               /\ Rewritten[t] = Overlay(t, entries[t], results[t])
<1>1. DOMAIN entries = Named
  BY DEF UpdatesInv, Inventory
<1>2. /\ Rewritten = [t \in Named |-> Rewritten[t]]
      /\ \A t \in Named : Rewritten[t] = IF t \in Outdated THEN Overlay(t, entries[t], results[t]) ELSE entries[t]
  BY <1>1 DEF Rewritten
<1>3. ASSUME NEW t \in Outdated PROVE RewrittenOf(t)
  <2> DEFINE e == entries[t]
             r == results[t]
             v == r.candidate
             new == Overlay(t, e, r)
             artifacts == [k \in DOMAIN e.art \cup DOMAIN r.art |-> IF k \in DOMAIN r.art THEN r.art[k] ELSE e.art[k]]
  <2>1. t \in Named /\ ChangeOf(t) /\ Rewritten[t] = new
    BY <1>2, Changes
  <2>2. /\ e = [at |-> e.at, tag |-> e.tag, art |-> e.art, keys |-> e.keys]
        /\ DOMAIN e.art \in ArtifactsOf(t)
    BY <2>1, EntryIs
  <2>3. CASE t = "rustup"
    <3>1. r.art = [k \in {Amd64} |-> v] /\ r.keys = {} /\ DOMAIN e.art = {Amd64}
      BY <2>1, <2>2, <2>3 DEF ChangeOf, ArtifactsOf
    <3>2. new = [e EXCEPT !.art = artifacts]
      BY <2>3 DEF Overlay
    <3>3. new.at = e.at /\ new.tag = e.tag /\ new.keys = e.keys /\ new.art = artifacts
      <4> HIDE DEF artifacts, e
      <4> QED
        BY <2>2, <3>2
    <3>4. DOMAIN artifacts = DOMAIN e.art /\ \A k \in DOMAIN e.art : artifacts[k] = v
      <4> HIDE DEF e, r, v
      <4> QED
        BY <3>1
    <3> HIDE DEF artifacts
    <3>5. /\ Rewritten[t].art = artifacts
          /\ Rewritten[t].at = e.at /\ Rewritten[t].tag = e.tag /\ Rewritten[t].keys = e.keys
      BY <2>1, <3>3
    <3> QED
      BY <2>3, <3>4, <3>5 DEF RewrittenOf
  <2>4. CASE t = "rust"
    <3>1. DOMAIN e.art = {Manifest} /\ e.art[Manifest] = e.at
      BY <2>2, <2>4 DEF ArtifactsOf, UpdatesInv, Loads, RustLoads
    <3>2. new = [e EXCEPT !.at = v, !.art[Manifest] = IF @ = e.at THEN v ELSE @]
      BY <2>4 DEF Overlay
    <3>3. new.at = v /\ new.tag = e.tag /\ new.keys = e.keys /\ new.art = [e.art EXCEPT ![Manifest] = v]
      <4> HIDE DEF e, v
      <4> QED
        BY <2>2, <3>1, <3>2
    <3> QED
      BY <2>1, <2>4, <3>1, <3>3 DEF RewrittenOf
  <2>5. CASE t = "fd"
    <3>1. r.art = [k \in Required |-> v] /\ r.keys = {} /\ Required \subseteq DOMAIN e.art
      BY <2>1, <2>2, <2>5 DEF ChangeOf, ArtifactsOf, Required
    <3>2. new = [e EXCEPT !.at = v, !.tag = v, !.art = artifacts]
      BY <2>5 DEF Overlay
    <3>3. new.at = v /\ new.tag = v /\ new.keys = e.keys /\ new.art = artifacts
      <4> HIDE DEF artifacts, e, v
      <4> QED
        BY <2>2, <3>2
    <3>4. DOMAIN artifacts = DOMAIN e.art /\ \A k \in DOMAIN e.art : artifacts[k] = IF k \in Required THEN v ELSE e.art[k]
      <4> HIDE DEF e, r, v
      <4> QED
        BY <3>1
    <3> HIDE DEF artifacts
    <3>5. /\ Rewritten[t].art = artifacts
          /\ Rewritten[t].at = v /\ Rewritten[t].tag = v /\ Rewritten[t].keys = e.keys
      BY <2>1, <3>3
    <3> QED
      BY <2>5, <3>4, <3>5 DEF RewrittenOf
  <2>6. CASE t \notin {"rust", "rustup", "fd"}
    <3>1. r.keys = IF t = "ext" THEN {v} ELSE {}
      BY <2>1 DEF ChangeOf
    <3>2. new = [e EXCEPT !.at = v, !.keys = @ \cup r.keys]
      BY <2>6 DEF Overlay
    <3>3. new.at = v /\ new.tag = e.tag /\ new.keys = e.keys \cup r.keys /\ new.art = e.art
      <4> HIDE DEF e, r, v
      <4> QED
        BY <2>2, <3>2
    <3> QED
      BY <2>1, <2>6, <3>1, <3>3 DEF RewrittenOf
  <2> QED
    BY <2>3, <2>4, <2>5, <2>6
<1> QED
  BY <1>2, <1>3, Changes

\* What the loader needs of an entry whose block was not rewritten it has.
LEMMA LoadsAgainHolds == ASSUME UpdatesInv PROVE LoadsAgain
<1> DEFINE W == Rewritten
           Moved(t) == t \in Outdated /\ W[t].at # entries[t].at
<1>1. /\ \A t \in Named \ Outdated : W[t] = entries[t]
      /\ \A t \in Outdated : t \in Named /\ RewrittenOf(t) /\ ChangeOf(t)
      /\ Loads(entries, allowed)
  BY Rewrites, Changes DEF UpdatesInv
<1>2. RustLoads(W)
  <2>1. CASE "rust" \in Outdated
    <3>1. DOMAIN entries["rust"].art = {Manifest}
      BY EntryIs DEF Named, ArtifactsOf
    <3>2. RewrittenOf("rust") /\ ChangeOf("rust")
      BY <1>1, <2>1
    <3>3. results["rust"].candidate \notin Betas
      BY <3>2 DEF ChangeOf
    <3>4. W["rust"].at = results["rust"].candidate /\ W["rust"].art[Manifest] = results["rust"].candidate
      BY <3>1, <3>2 DEF RewrittenOf
    <3> QED
      BY <3>3, <3>4 DEF RustLoads, Strict
  <2>2. CASE "rust" \notin Outdated
    BY <1>1, <2>2 DEF Loads, RustLoads, Named
  <2> QED
    BY <2>1, <2>2
<1>3. RustupLoads(W)
  <2>1. CASE "rustup" \in Outdated
    BY <1>1, <2>1 DEF Loads, RustupLoads, RewrittenOf
  <2>2. CASE "rustup" \notin Outdated
    BY <1>1, <2>2 DEF Loads, RustupLoads, Named
  <2> QED
    BY <2>1, <2>2
<1>4. PythonLoads(W, allowed)
  <2>1. CASE "python" \in Outdated
    BY <1>1, <2>1 DEF PythonLoads, RewrittenOf, ChangeOf
  <2>2. CASE "python" \notin Outdated
    BY <1>1, <2>2 DEF Loads, PythonLoads, Named
  <2> QED
    BY <2>1, <2>2
<1>5. PrebuiltLoads(W) = ~ (Moved("fd") /\ (DOMAIN entries["fd"].art # Required \/ W["fd"].at \in Betas))
  <2>1. CASE "fd" \in Outdated
    <3> DEFINE v == results["fd"].candidate
               e == entries["fd"]
    <3>1. /\ W["fd"].at = v /\ W["fd"].tag = v /\ DOMAIN W["fd"].art = DOMAIN e.art
          /\ \A k \in DOMAIN e.art : W["fd"].art[k] = IF k \in Required THEN v ELSE e.art[k]
      BY <1>1, <2>1 DEF RewrittenOf
    <3>2. v > e.at /\ v \in Releases
      BY <1>1, <2>1 DEF ChangeOf, ByVersions
    <3>3. e.at \in Nat /\ v \in Nat
      BY <3>2, EntryIs, UpdatesAssumption DEF Named
    <3>4. Required \subseteq DOMAIN e.art /\ \A k \in DOMAIN e.art : e.art[k] = e.at
      BY <1>1 DEF Loads, PrebuiltLoads
    <3>5. Moved("fd") /\ v # e.at
      BY <2>1, <3>1, <3>2, <3>3
    <3> HIDE DEF v, e, W, Moved
    <3>6. (\A k \in DOMAIN W["fd"].art : W["fd"].art[k] = W["fd"].at) = (DOMAIN e.art = Required)
      BY <3>1, <3>4, <3>5
    <3> QED
      BY <3>1, <3>4, <3>5, <3>6 DEF PrebuiltLoads, Strict, e
  <2>2. CASE "fd" \notin Outdated
    <3>1. W["fd"] = entries["fd"]
      BY <1>1, <2>2 DEF Named
    <3> HIDE DEF W
    <3> QED
      BY <1>1, <2>2, <3>1 DEF Loads, PrebuiltLoads
  <2> QED
    BY <2>1, <2>2
<1>6. Strict(W["pi"].at) = ~ (Moved("pi") /\ W["pi"].at \in Betas)
  <2>1. CASE "pi" \in Outdated
    <3>1. results["pi"].candidate > entries["pi"].at /\ W["pi"].at = results["pi"].candidate
      BY <1>1, <2>1 DEF RewrittenOf, ChangeOf, ByVersions
    <3>2. entries["pi"].at \in Nat /\ results["pi"].candidate \in Nat
      BY <1>1, <2>1, EntryIs, UpdatesAssumption DEF Named, ChangeOf
    <3> HIDE DEF W
    <3> QED
      BY <2>1, <3>1, <3>2 DEF Strict
  <2>2. CASE "pi" \notin Outdated
    <3>1. W["pi"] = entries["pi"]
      BY <1>1, <2>2 DEF Named
    <3> HIDE DEF W
    <3> QED
      BY <1>1, <2>2, <3>1 DEF Loads, Strict
  <2> QED
    BY <2>1, <2>2
<1>7. ExtensionLoads(W, allowed) = ~ (Moved("ext") /\ W["ext"].at \notin allowed["ext"])
  <2>1. CASE "ext" \in Outdated
    <3>0. RewrittenOf("ext") /\ ChangeOf("ext")
      BY <1>1, <2>1
    <3>3. results["ext"].candidate > entries["ext"].at
      BY <3>0 DEF ChangeOf, ByVersions
    <3>4. W["ext"].at = results["ext"].candidate /\ W["ext"].keys = entries["ext"].keys \cup {results["ext"].candidate}
      BY <3>0 DEF RewrittenOf
    <3>1. /\ results["ext"].candidate > entries["ext"].at /\ W["ext"].at = results["ext"].candidate
          /\ results["ext"].candidate \in W["ext"].keys
      BY <3>3, <3>4
    <3>2. entries["ext"].at \in Nat /\ results["ext"].candidate \in Nat
      BY <1>1, <2>1, EntryIs, UpdatesAssumption DEF Named, ChangeOf
    <3> HIDE DEF W
    <3> QED
      BY <2>1, <3>1, <3>2 DEF ExtensionLoads
  <2>2. CASE "ext" \notin Outdated
    <3>1. W["ext"] = entries["ext"]
      BY <1>1, <2>2 DEF Named
    <3> HIDE DEF W
    <3> QED
      BY <1>1, <2>2, <3>1 DEF Loads, ExtensionLoads
  <2> QED
    BY <2>1, <2>2
<1>8. Loads(W, allowed) = (PrebuiltLoads(W) /\ Strict(W["pi"].at) /\ ExtensionLoads(W, allowed))
  BY <1>2, <1>3, <1>4 DEF Loads
<1> HIDE DEF W
<1>9. Loads(W, allowed) = ~ (\/ Moved("fd") /\ DOMAIN entries["fd"].art # Required
                             \/ Moved("ext") /\ W["ext"].at \notin allowed["ext"]
                             \/ \E t \in {"fd", "pi"} : Moved(t) /\ W[t].at \in Betas)
  <2> HIDE DEF Moved
  <2> QED
    BY <1>5, <1>6, <1>7, <1>8
<1> QED
  BY <1>9 DEF LoadsAgain, W

LEMMA ForwardHolds == ASSUME UpdatesInv PROVE Forward
<1> SUFFICES ASSUME NEW t \in Named
             PROVE  /\ KindOf(t) = "version" => Rewritten[t].at >= entries[t].at
                    /\ Owner(t) \notin Blocks => Rewritten[t] = entries[t]
  BY DEF Forward, UpdatesInv, Inventory
<1>1. entries[t].at \in Nat
  BY EntryIs, UpdatesAssumption
<1>2. CASE t \notin Outdated
  <2>1. Rewritten[t] = entries[t]
    BY <1>2, Rewrites
  <2> QED
    BY <1>1, <2>1
<1>3. CASE t \in Outdated
  <2>1. Owner(t) \in Blocks
    BY <1>3 DEF Blocks
  <2>2. KindOf(t) = "version" => t \in ByVersions \cup {"rust"}
    BY DEF KindOf, Named, ByVersions
  <2>3. KindOf(t) = "version" => results[t].candidate > entries[t].at /\ Rewritten[t].at = results[t].candidate
    BY <1>3, <2>2, Rewrites, Changes DEF ChangeOf, RewrittenOf, ByVersions
  <2>4. results[t].candidate \in Nat
    BY <1>3, Changes, UpdatesAssumption DEF ChangeOf
  <2> QED
    BY <1>1, <2>1, <2>3, <2>4
<1> QED
  BY <1>2, <1>3

LEMMA AnnouncedHolds == ASSUME UpdatesInv PROVE AnnouncedTrue
<1> SUFFICES ASSUME NEW t \in Outdated, t \notin {"node", "omz"}
             PROVE  {k \in {"version", "tag", Amd64, Arm64} :
                       CASE k = "version" -> Rewritten[t].at # entries[t].at
                         [] k = "tag" -> Rewritten[t].tag # entries[t].tag
                         [] OTHER -> k \in DOMAIN entries[t].art /\ Rewritten[t].art[k] # entries[t].art[k]}
                    = Suggested(t, results[t]) \ (IF t = "rustup" THEN {"digest"} ELSE {})
  BY DEF AnnouncedTrue
<1> DEFINE e == entries[t]
           v == results[t].candidate
           new == Rewritten[t]
           Changed == {k \in {"version", "tag", Amd64, Arm64} :
                       CASE k = "version" -> new.at # e.at
                         [] k = "tag" -> new.tag # e.tag
                         [] OTHER -> k \in DOMAIN e.art /\ new.art[k] # e.art[k]}
<1>1. t \in Named /\ ChangeOf(t) /\ RewrittenOf(t)
  BY Rewrites, Changes
<1>2. /\ e.at \in Nat /\ v \in Nat /\ DOMAIN e.art \in ArtifactsOf(t)
  BY <1>1, EntryIs, UpdatesAssumption DEF ChangeOf
<1>3. Amd64 = "linux-amd64" /\ Arm64 = "linux-arm64" /\ Manifest = "manifest" /\ Required = {"linux-amd64"}
  BY DEF Amd64, Arm64, Manifest, Required
<1>4. Changed = (IF new.at # e.at THEN {"version"} ELSE {}) \cup (IF new.tag # e.tag THEN {"tag"} ELSE {})
                \cup {k \in {Amd64, Arm64} : k \in DOMAIN e.art /\ new.art[k] # e.art[k]}
  <2> HIDE DEF e, new
  <2> QED
    BY <1>3
<1> HIDE DEF Changed
<1>5. CASE t = "fd"
  <2>1. /\ v > e.at /\ new.at = v /\ new.tag = v /\ e.tag = e.at
        /\ \A k \in DOMAIN e.art : /\ e.art[k] = e.at
                                 /\ new.art[k] = IF k \in Required THEN v ELSE e.art[k]
        /\ Required \subseteq DOMAIN e.art
    BY <1>1, <1>5 DEF ChangeOf, RewrittenOf, ByVersions, UpdatesInv, Loads, PrebuiltLoads
  <2>2. {k \in {Amd64, Arm64} : k \in DOMAIN e.art /\ new.art[k] # e.art[k]} = Required
    <3> HIDE DEF e, new, v
    <3> QED
      BY <1>2, <1>3, <2>1
  <2>3. Changed = {"version", "tag"} \cup Required
    <3> HIDE DEF e, new, v
    <3> QED
      BY <1>2, <1>4, <2>1, <2>2
  <2>4. Suggested(t, results[t]) = {"version", "tag"} \cup Required
    <3>1. results[t].art = [k \in Required |-> v]
      BY <1>1, <1>5 DEF ChangeOf
    <3>2. KindOf(t) = "version"
      BY <1>5 DEF KindOf
    <3>3. DOMAIN results[t].art = Required
      BY <3>1
    <3> QED
      BY <1>5, <3>2, <3>3 DEF Suggested
  <2> QED
    BY <1>5, <2>3, <2>4 DEF Changed
<1>6. CASE t = "rustup"
  <2>1. /\ new.at = e.at /\ new.tag = e.tag /\ DOMAIN e.art = {Amd64}
        /\ new.art[Amd64] = v /\ v # e.art[Amd64]
    BY <1>1, <1>2, <1>6 DEF ChangeOf, RewrittenOf, ArtifactsOf
  <2>2. Changed = {Amd64}
    <3> HIDE DEF e, new, v
    <3> QED
      BY <1>3, <1>4, <2>1
  <2>3. Suggested(t, results[t]) = {"digest"} \cup {Amd64}
    <3>1. results[t].art = [k \in {Amd64} |-> v]
      BY <1>1, <1>6 DEF ChangeOf
    <3>2. KindOf(t) = "digest-refresh"
      BY <1>6 DEF KindOf
    <3>3. DOMAIN results[t].art = {Amd64}
      BY <3>1
    <3> QED
      BY <1>6, <3>2, <3>3 DEF Suggested
  <2> QED
    BY <1>3, <1>6, <2>2, <2>3 DEF Changed
<1>7. CASE t \in {"rust", "python", "pi", "ext"}
  <2>1. v > e.at /\ new.at = v /\ new.tag = e.tag
    BY <1>1, <1>7 DEF ChangeOf, RewrittenOf, ByVersions
  <2>2. Amd64 \notin DOMAIN e.art /\ Arm64 \notin DOMAIN e.art
    BY <1>2, <1>3, <1>7 DEF ArtifactsOf
  <2>3. Changed = {"version"}
    <3> HIDE DEF e, new, v
    <3> QED
      BY <1>2, <1>4, <2>1, <2>2
  <2>4. Suggested(t, results[t]) = {"version"}
    <3>1. DOMAIN results[t].art = {}
      BY <1>1, <1>7 DEF ChangeOf, NoArt
    <3>2. KindOf(t) = "version"
      BY <1>7 DEF KindOf
    <3> QED
      BY <1>7, <3>1, <3>2 DEF Suggested
  <2> QED
    BY <1>7, <2>3, <2>4 DEF Changed
<1> QED
  BY <1>1, <1>5, <1>6, <1>7 DEF Named

\* The blocks leave an inventory of the same entries.
LEMMA RewrittenInventory == ASSUME UpdatesInv PROVE Inventory(Rewritten)
<1> SUFFICES ASSUME NEW t \in Named
             PROVE  Rewritten[t] \in Leaves /\ DOMAIN Rewritten[t].art \in ArtifactsOf(t)
  BY Rewrites DEF Inventory
<1>1. CASE t \notin Outdated
  BY <1>1, Rewrites, EntryIs
<1>2. CASE t \in Outdated
  <2> DEFINE e == entries[t]
             r == results[t]
             v == r.candidate
             artifacts == [k \in DOMAIN e.art \cup DOMAIN r.art |-> IF k \in DOMAIN r.art THEN r.art[k] ELSE e.art[k]]
  <2>1. /\ RewrittenOf(t) /\ v \in Releases /\ Rewritten[t] = Overlay(t, e, r)
        /\ \A k \in DOMAIN e.art : e.art[k] \in Releases
        /\ e.at \in Releases /\ e.tag \in Releases /\ e.keys \subseteq Releases
        /\ DOMAIN e.art \in ArtifactsOf(t)
        /\ e.art = [k \in DOMAIN e.art |-> e.art[k]]
    BY <1>2, Changes, Rewrites, EntryIs DEF ChangeOf
  <2>2. /\ Rewritten[t].at \in Releases /\ Rewritten[t].tag \in Releases /\ Rewritten[t].keys \subseteq Releases
        /\ DOMAIN Rewritten[t].art = DOMAIN e.art
        /\ \A k \in DOMAIN Rewritten[t].art : Rewritten[t].art[k] \in Releases
    BY <2>1 DEF RewrittenOf
  <2>3. /\ Rewritten[t] = [at |-> Rewritten[t].at, tag |-> Rewritten[t].tag,
                           art |-> Rewritten[t].art, keys |-> Rewritten[t].keys]
        /\ Rewritten[t].art = [k \in DOMAIN Rewritten[t].art |-> Rewritten[t].art[k]]
    <3>1. e = [at |-> e.at, tag |-> e.tag, art |-> e.art, keys |-> e.keys]
      BY EntryIs
    <3> HIDE DEF e, r, v
    <3>2. CASE t = "rustup"
      <4>1. Rewritten[t] = [e EXCEPT !.art = artifacts]
        BY <2>1, <3>2 DEF Overlay
      <4>2. artifacts = [k \in DOMAIN artifacts |-> artifacts[k]]
        OBVIOUS
      <4> HIDE DEF artifacts
      <4> QED
        BY <3>1, <4>1, <4>2
    <3>3. CASE t = "rust"
      <4>1. Rewritten[t] = [e EXCEPT !.at = v, !.art[Manifest] = IF @ = e.at THEN v ELSE @]
        BY <2>1, <3>3 DEF Overlay, v
      <4>2. PICK y : Rewritten[t] = [e EXCEPT !.at = v, !.art = [e.art EXCEPT ![Manifest] = y]]
        BY <3>1, <4>1
      <4>3. PICK f : f = [e.art EXCEPT ![Manifest] = y] /\ f = [k \in DOMAIN f |-> f[k]]
        BY <2>1
      <4> QED
        BY <3>1, <4>2, <4>3
    <3>4. CASE t = "fd"
      <4>1. Rewritten[t] = [e EXCEPT !.at = v, !.tag = v, !.art = artifacts]
        BY <2>1, <3>4 DEF Overlay, v
      <4>2. artifacts = [k \in DOMAIN artifacts |-> artifacts[k]]
        OBVIOUS
      <4> HIDE DEF artifacts
      <4> QED
        BY <3>1, <4>1, <4>2
    <3>5. CASE t \notin {"rust", "rustup", "fd"}
      <4>1. Rewritten[t] = [e EXCEPT !.at = v, !.keys = @ \cup r.keys]
        BY <2>1, <3>5 DEF Overlay, v
      <4>2. Rewritten[t].art = e.art
        BY <3>1, <4>1
      <4> QED
        BY <2>1, <3>1, <4>1, <4>2
    <3> QED
      BY <3>2, <3>3, <3>4, <3>5
  <2>4. DOMAIN Rewritten[t].art \in SUBSET {Amd64, Arm64, Manifest}
    BY <2>1, <2>2 DEF ArtifactsOf
  <2>5. Rewritten[t].art \in [DOMAIN Rewritten[t].art -> Releases]
    BY <2>2, <2>3
  <2>6. Rewritten[t] \in Leaves
    BY <2>2, <2>3, <2>4, <2>5 DEF Leaves
  <2> QED
    BY <2>1, <2>2, <2>6
<1> QED
  BY <1>1, <1>2

\* An entry that holds the newest its provider has is up to date.
AtNewest(t) ==
  /\ entries[t].at \in Nat
  /\ t \in ByVersions => /\ upstream[t].kind = "versions" /\ Fit(upstream[t]) # {}
                         /\ entries[t].at = Max(Fit(upstream[t]))
  /\ t \notin ByVersions => upstream[t].kind = "one"
  /\ t \in {"node", "rust", "omz"} => entries[t].at = upstream[t].version
  /\ t = "rustup" => entries[t].art[Amd64] = upstream[t].version
Settled(t) ==
  LET d == DiscoverVersion(t, upstream[t]) IN d.found = "candidate" => Classify(t, d) = "current"

LEMMA NewestSettles == \A t \in Named : AtNewest(t) => Settled(t)
<1> SUFFICES ASSUME NEW t \in Named, AtNewest(t) PROVE Settled(t)
  OBVIOUS
<1> DEFINE answer == upstream[t]
           d == DiscoverVersion(t, answer)
<1>1. CASE t \in ByVersions
  <2>1. /\ answer.kind = "versions" /\ Fit(answer) # {} /\ entries[t].at \in Nat
        /\ entries[t].at = Max(Fit(answer))
    BY <1>1 DEF AtNewest
  <2>2. ~ Offered(t, Max(Fit(answer)))
    BY <2>1 DEF Offered
  <2>3. d = NewestOf(t, answer)
    BY <2>1 DEF DiscoverVersion
  <2>4. NewestOf(t, answer) = Given(t, entries[t].at)
    BY <2>1, <2>2 DEF NewestOf, Fit
  <2>5. d = Candidate(entries[t].at, NoArt, {}, FALSE)
    BY <2>3, <2>4 DEF Given
  <2> HIDE DEF d
  <2>6. d.value = entries[t].at /\ d.incomplete = FALSE
    BY <2>5 DEF Candidate
  <2>7. Classify(t, d) = "current"
    BY <1>1, <2>6 DEF Classify, ByVersions
  <2> QED
    BY <2>7 DEF Settled, d
<1>2. CASE t = "rustup"
  <2>1. answer.kind = "one" /\ answer.version = entries[t].art[Amd64]
    BY <1>2 DEF AtNewest, ByVersions
  <2>2. d = BootstrapCandidate(t, answer.version)
    BY <1>2, <2>1 DEF DiscoverVersion, OnlyOne
  <2>3. d.value = answer.version
    BY <2>2 DEF BootstrapCandidate, Candidate
  <2> HIDE DEF d
  <2>4. Classify(t, d) = "current"
    BY <1>2, <2>1, <2>3 DEF Classify
  <2> QED
    BY <2>4 DEF Settled, d
<1>3. CASE t \in {"node", "rust", "omz"}
  <2>1. answer.kind = "one" /\ answer.version = entries[t].at
    BY <1>3 DEF AtNewest, ByVersions
  <2>2. d = OnlyOne(t, entries[t].at)
    BY <2>1 DEF DiscoverVersion
  <2>3. d = Candidate(entries[t].at, NoArt, {}, FALSE)
    BY <1>3, <2>2 DEF OnlyOne, RustCandidate, Given
  <2> HIDE DEF d
  <2>4. d.value = entries[t].at
    BY <2>3 DEF Candidate
  <2>5. Classify(t, d) = "current"
    BY <1>3, <2>4 DEF Classify
  <2> QED
    BY <2>5 DEF Settled, d
<1> QED
  BY <1>1, <1>2, <1>3 DEF Named, ByVersions

\* An answer comes to the same while the inventory is the same.
LEMMA SameFound ==
  ASSUME UNCHANGED <<entries, allowed>>, NEW t \in Named, upstream'[t] = upstream[t]
  PROVE  /\ Settled(t)' = Settled(t)
         /\ results'[t] = results[t] => FoundOf(t)' = FoundOf(t)
<1>1. entries' = entries /\ allowed' = allowed
  OBVIOUS
<1>2. Settled(t)' = Settled(t)
  BY <1>1 DEF Settled, DiscoverVersion, Lost, NewestOf, NothingFits, Skip, Offered, Given, GitHubCandidate,
    NpmCandidate, Candidate, OnlyOne, RustCandidate, BootstrapCandidate, Classify
<1>3. ASSUME results'[t] = results[t] PROVE FoundOf(t)' = FoundOf(t)
  BY <1>1, <1>3 DEF FoundOf, Provided, Result, DiscoverVersion, Lost, NewestOf, NothingFits, Skip, Offered, Given, GitHubCandidate,
    NpmCandidate, Candidate, OnlyOne, RustCandidate, BootstrapCandidate, Classify
<1> QED
  BY <1>2, <1>3

LEMMA UpdatesInitially == UpdatesInit => UpdatesInv
<1> SUFFICES ASSUME UpdatesInit PROVE UpdatesInv
  OBVIOUS
<1>1. Inventory(entries)
  <2>1. PICK v \in Releases \ Betas, platforms \in {{Amd64}, {Amd64, Arm64}} :
          entries = [t \in Range(Targets) |->
             CASE t = "rust" -> Leaf(v, {Manifest}) [] t = "rustup" -> Leaf(v, {Amd64})
               [] t = "fd" -> Leaf(v, platforms) [] OTHER -> Leaf(v, {})]
    BY DEF UpdatesInit, FirstEntries
  <2>2. ASSUME NEW K \in SUBSET {Amd64, Arm64, Manifest} PROVE Leaf(v, K) \in Leaves /\ DOMAIN Leaf(v, K).art = K
    <3>1. [k \in K |-> v] \in [K -> Releases] /\ DOMAIN [k \in K |-> v] = K
      OBVIOUS
    <3> QED
      BY <3>1 DEF Leaf, Leaves
  <2> DEFINE KeysOf(t) == CASE t = "rust" -> {Manifest} [] t = "rustup" -> {Amd64} [] t = "fd" -> platforms [] OTHER -> {}
  <2>3. DOMAIN entries = Named /\ entries = [t \in Named |-> Leaf(v, KeysOf(t))]
    BY <2>1, TargetsAre
  <2>4. ASSUME NEW t \in Named PROVE KeysOf(t) \in ArtifactsOf(t) /\ KeysOf(t) \in SUBSET {Amd64, Arm64, Manifest}
    BY DEF ArtifactsOf
  <2> HIDE DEF KeysOf
  <2>5. \A t \in Named : entries[t] = Leaf(v, KeysOf(t))
    BY <2>3
  <2>6. \A t \in Named : entries[t] \in Leaves /\ DOMAIN entries[t].art = KeysOf(t)
    BY <2>2, <2>4, <2>5
  <2>7. entries \in [Named -> Leaves]
    BY <2>3, <2>5, <2>6
  <2> QED
    BY <2>4, <2>6, <2>7 DEF Inventory
<1>2. upstream = [t \in Named |-> NotAsked]
  BY TargetsAre DEF UpdatesInit
<1>3. DOMAIN upstream = Named /\ upstream = [t \in Named |-> upstream[t]]
  BY <1>2
<1>4. DOMAIN entries = Named
  BY <1>1 DEF Inventory
<1>5. selected = {} /\ DOMAIN results = {} /\ before = entries /\ Loads(entries, allowed)
  BY DEF UpdatesInit, NoResults
<1> QED
  BY <1>1, <1>3, <1>4, <1>5 DEF UpdatesInv, BlocksSettled

\* What the inventory owes to itself stays while it is the same.
LEMMA InventoryStays ==
  ASSUME Inventory(entries), Loads(entries, allowed), UNCHANGED <<entries, allowed>>
  PROVE  Inventory(entries)' /\ Loads(entries, allowed)'
BY DEF Inventory, Loads, RustLoads, RustupLoads, PythonLoads, PrebuiltLoads, ExtensionLoads

LEMMA StartCheckKeeps == ASSUME UpdatesInv, StartCheck PROVE UpdatesInv'
<1>1. /\ selected = {} /\ upstream' = [t \in DOMAIN upstream |-> NotAsked] /\ before' = entries
      /\ UNCHANGED <<entries, allowed, results>>
  BY DEF StartCheck
<1>2. selected' \subseteq Named
  BY TargetsAre DEF StartCheck
<1>3. DOMAIN results = {} /\ DOMAIN upstream = Named /\ DOMAIN entries = Named
  BY <1>1 DEF UpdatesInv, Inventory
<1>4. DOMAIN upstream' = Named /\ upstream' = [t \in Named |-> upstream'[t]]
  BY <1>1, <1>3
<1>5. Inventory(entries)' /\ Loads(entries, allowed)'
  BY <1>1, InventoryStays DEF UpdatesInv
<1>6. BlocksSettled'
  BY <1>1 DEF BlocksSettled
<1> QED
  BY <1>1, <1>2, <1>3, <1>4, <1>5, <1>6 DEF UpdatesInv

LEMMA ResolveKeeps == ASSUME UpdatesInv, Resolve PROVE UpdatesInv'
<1>0. PICK next \in Remaining : \E answer \in Provided(next) :
        /\ upstream' = [upstream EXCEPT ![next] = answer]
        /\ results' = [t \in DOMAIN results \cup {next} |->
             IF t = next THEN Result(t, DiscoverVersion(t, answer)) ELSE results[t]]
  BY DEF Resolve
<1>1. PICK answer \in Provided(next) :
        /\ upstream' = [upstream EXCEPT ![next] = answer]
        /\ results' = [t \in DOMAIN results \cup {next} |->
             IF t = next THEN Result(t, DiscoverVersion(t, answer)) ELSE results[t]]
  BY <1>0
<1>2. UNCHANGED <<entries, allowed, selected, before>>
  BY DEF Resolve
<1>3. next \in selected /\ next \notin DOMAIN results /\ selected # {} /\ selected \subseteq Named /\ next \in Named
  BY DEF Remaining, UpdatesInv
<1>4. DOMAIN upstream = Named /\ before = entries /\ DOMAIN results \subseteq selected
  BY <1>3 DEF UpdatesInv
<1>5. /\ DOMAIN upstream' = Named /\ upstream' = [t \in Named |-> upstream'[t]]
      /\ upstream'[next] = answer /\ \A t \in Named \ {next} : upstream'[t] = upstream[t]
  BY <1>1, <1>3, <1>4
<1>6. /\ DOMAIN results' = DOMAIN results \cup {next}
      /\ results'[next] = Result(next, DiscoverVersion(next, answer))
      /\ \A t \in DOMAIN results : results'[t] = results[t]
  BY <1>1, <1>3
<1>7. ASSUME NEW t \in DOMAIN results' PROVE FoundOf(t)'
  <2>1. CASE t = next
    <3>1. entries' = entries /\ allowed' = allowed /\ upstream'[t] = answer
      BY <1>2, <1>5, <2>1
    <3>2. Result(t, DiscoverVersion(t, upstream[t]))' = Result(t, DiscoverVersion(t, answer))
      BY <3>1 DEF Result, DiscoverVersion, Lost, NewestOf, NothingFits, Skip, Offered, Given, GitHubCandidate,
        NpmCandidate, Candidate, OnlyOne, RustCandidate, BootstrapCandidate, Classify
    <3>3. upstream'[t] \in Provided(t)
      BY <1>5, <2>1
    <3>4. results'[t] = Result(t, DiscoverVersion(t, answer))
      BY <1>6, <2>1
    <3> QED
      BY <3>2, <3>3, <3>4 DEF FoundOf
  <2>2. CASE t # next
    <3>1. t \in DOMAIN results /\ t \in Named
      BY <1>3, <1>4, <1>6, <2>2
    <3>2. upstream'[t] = upstream[t] /\ results'[t] = results[t] /\ FoundOf(t)
      BY <1>5, <1>6, <2>2, <3>1 DEF UpdatesInv
    <3> QED
      BY <1>2, <3>1, <3>2, SameFound
  <2> QED
    BY <2>1, <2>2
<1>8. Inventory(entries)' /\ Loads(entries, allowed)'
  BY <1>2, InventoryStays DEF UpdatesInv
<1>9. BlocksSettled'
  BY <1>2, <1>4 DEF BlocksSettled
<1>10. DOMAIN before' = Named /\ (selected' # {} => before' = entries')
  BY <1>2, <1>4 DEF UpdatesInv
<1>11. selected' \subseteq Named /\ DOMAIN results' \subseteq selected'
  BY <1>2, <1>3, <1>4, <1>6
<1> QED
  BY <1>5, <1>7, <1>8, <1>9, <1>10, <1>11 DEF UpdatesInv

LEMMA MergeKeeps == ASSUME UpdatesInv, Merge PROVE UpdatesInv'
<1>1. /\ selected # {} /\ selected' = {} /\ DOMAIN results' = {}
      /\ UNCHANGED <<allowed, upstream, before>>
      /\ entries' = entries \/ (Loads(Rewritten, allowed) /\ entries' = Rewritten)
  BY DEF Merge, Done, NoResults
<1>2. before = entries /\ DOMAIN before = Named /\ DOMAIN upstream = Named /\ upstream = [t \in Named |-> upstream[t]]
  BY <1>1 DEF UpdatesInv
<1>3. /\ DOMAIN upstream' = Named /\ upstream' = [t \in Named |-> upstream'[t]] /\ DOMAIN before' = Named
      /\ selected' \subseteq Named /\ DOMAIN results' \subseteq selected'
  BY <1>1, <1>2
<1>4. CASE entries' = entries
  <2>1. Inventory(entries)' /\ Loads(entries, allowed)'
    BY <1>1, <1>4, InventoryStays DEF UpdatesInv
  <2>2. BlocksSettled'
    BY <1>1, <1>2, <1>4 DEF BlocksSettled
  <2> QED
    BY <1>1, <1>3, <2>1, <2>2 DEF UpdatesInv
<1>5. CASE Loads(Rewritten, allowed) /\ entries' = Rewritten
  <2>1. Inventory(entries')
    BY <1>5, RewrittenInventory
  <2>2. Inventory(entries)' /\ Loads(entries, allowed)'
    <3>1. Inventory(entries)'
      BY <2>1 DEF Inventory
    <3>2. Loads(entries', allowed')
      BY <1>1, <1>5
    <3>3. Loads(entries, allowed)'
      BY <3>2 DEF Loads, RustLoads, RustupLoads, PythonLoads, PrebuiltLoads, ExtensionLoads
    <3> QED
      BY <3>1, <3>3
  <2>3. ASSUME NEW t \in Outdated PROVE t \in Named /\ AtNewest(t)'
    <3>1. t \in Named /\ ChangeOf(t) /\ RewrittenOf(t)
      BY Changes, Rewrites
    <3>2. entries'[t] = Rewritten[t] /\ upstream'[t] = upstream[t]
      BY <1>1, <1>5
    <3>3. entries'[t] \in Leaves
      BY <2>1, <3>1 DEF Inventory
    <3>4. entries'[t].at \in Nat
      BY <3>3, UpdatesAssumption DEF Leaves
    <3>5. t # "rustup" => entries'[t].at = results[t].candidate
      BY <3>1, <3>2 DEF RewrittenOf
    <3>6. t = "rustup" => entries'[t].art[Amd64] = results[t].candidate
      <4> SUFFICES ASSUME t = "rustup" PROVE entries'[t].art[Amd64] = results[t].candidate
        OBVIOUS
      <4>1. DOMAIN entries[t].art = {Amd64}
        <5>1. DOMAIN entries[t].art \in ArtifactsOf(t)
          BY <3>1, EntryIs
        <5> QED
          BY <5>1 DEF ArtifactsOf
      <4> QED
        BY <3>1, <3>2, <4>1 DEF RewrittenOf
    <3>7. t \in ByVersions => /\ upstream'[t].kind = "versions" /\ Fit(upstream'[t]) # {}
                              /\ entries'[t].at = Max(Fit(upstream'[t]))
      <4>1. t \in ByVersions => t # "rustup"
        BY DEF ByVersions
      <4> QED
        BY <3>1, <3>2, <3>5, <4>1 DEF ChangeOf
    <3>8. t \notin ByVersions => upstream'[t].kind = "one" /\ upstream'[t].version = results[t].candidate
      BY <3>1, <3>2 DEF ChangeOf
    <3>9. t \in {"node", "rust", "omz"} => entries'[t].at = upstream'[t].version
      BY <3>5, <3>8 DEF ByVersions
    <3>10. t = "rustup" => entries'[t].art[Amd64] = upstream'[t].version
      BY <3>6, <3>8 DEF ByVersions
    <3>11. Fit(upstream[t])' = Fit(upstream'[t])
      BY DEF Fit
    <3> QED
      BY <3>1, <3>4, <3>7, <3>8, <3>9, <3>10, <3>11 DEF AtNewest
  <2>4. (\A t \in Named : AtNewest(t) => Settled(t))'
    BY NewestSettles, PTL
  <2>5. \A t \in Named \ Outdated : entries'[t] = before'[t]
    BY <1>1, <1>2, <1>5, Rewrites
  <2>6. \A t \in Named : entries'[t] # before'[t] => Settled(t)'
    BY <2>3, <2>4, <2>5
  <2>7. DOMAIN entries' = Named
    BY <2>1 DEF Inventory
  <2>8. BlocksSettled'
    BY <2>6, <2>7 DEF BlocksSettled, Settled
  <2> QED
    BY <1>1, <1>3, <2>2, <2>8 DEF UpdatesInv
<1> QED
  BY <1>1, <1>4, <1>5

LEMMA UpdatesStands == ASSUME UpdatesInv, UNCHANGED updatesVars PROVE UpdatesInv'
<1>1. UNCHANGED <<entries, allowed, upstream, selected, results, before>>
  BY DEF updatesVars
<1>2. Inventory(entries)' /\ Loads(entries, allowed)'
  BY <1>1, InventoryStays DEF UpdatesInv
<1>3. \A t \in DOMAIN results' : FoundOf(t)'
  <2>1. DOMAIN results' \subseteq Named /\ \A t \in DOMAIN results' : FoundOf(t)
    BY <1>1 DEF UpdatesInv
  <2> QED
    BY <1>1, <2>1, SameFound
<1>4. BlocksSettled'
  <2>1. DOMAIN entries = Named /\ DOMAIN entries' = Named
    BY <1>1 DEF UpdatesInv, Inventory
  <2>2. \A t \in Named : entries[t] # before[t] /\ upstream[t] # NotAsked => Settled(t)
    BY <2>1 DEF UpdatesInv, BlocksSettled, Settled
  <2>3. \A t \in Named : entries'[t] # before'[t] /\ upstream'[t] # NotAsked => Settled(t)'
    BY <1>1, <2>2, SameFound
  <2> QED
    BY <2>1, <2>3 DEF BlocksSettled, Settled
<1> QED
  BY <1>1, <1>2, <1>3, <1>4 DEF UpdatesInv

LEMMA UpdatesInvariant == UpdatesSpec => []UpdatesInv
<1>1. ASSUME UpdatesInv, [UpdatesNext]_updatesVars PROVE UpdatesInv'
  BY <1>1, StartCheckKeeps, ResolveKeeps, MergeKeeps, UpdatesStands DEF UpdatesNext
<1> QED
  BY <1>1, UpdatesInitially, PTL DEF UpdatesSpec

\* check-updates: the blocks it proposes load again but for the three cases
\* it does not ask about, nothing goes back, what is announced changes, and
\* what was taken over is up to date when it is asked again (updates.py,
\* inventory.py), for any releases, answers and filters and any number of checks.
THEOREM UpdatesAreSound == UpdatesSpec => []UpdatesSound
<1>1. UpdatesInv => UpdatesSound
  BY LoadsAgainHolds, ForwardHolds, AnnouncedHolds DEF UpdatesSound, UpdatesInv
<1> QED
  BY <1>1, UpdatesInvariant, PTL

-----------------------------------------------------------------------------
(* Precedence is a total order                                             *)

\* A set of numbers has a least.
LEMMA LeastIs ==
  ASSUME NEW S, S \subseteq Nat, S # {} PROVE Min(S) \in S /\ \A y \in S : Min(S) <= y
<1>1. PICK n \in S : \A m \in S : ~ (<<m, n>> \in OpToRel(<, Nat))
  BY WFMin, NatLessThanWellFounded, Zenon
<1>2. \A m \in S : n <= m
  <2> TAKE m \in S
  <2>1. m \in Nat /\ n \in Nat
    OBVIOUS
  <2>2. ~ (m < n)
    BY <1>1, <2>1, Zenon DEF OpToRel
  <2> QED
    BY <2>1, <2>2
<1>3. \E x \in S : \A y \in S : x <= y
  BY <1>2
<1> QED
  BY <1>3 DEF Min

Identifiers == {0, 1} \X Nat
Labels == Seq(Identifiers)

LEMMA PairLess ==
  ASSUME NEW a \in Identifiers, NEW b \in Identifiers
  PROVE  LessIn(a, b) <=> (a[1] < b[1] \/ (a[1] = b[1] /\ a[2] < b[2]))
<1>1. DOMAIN a = 1..2 /\ a[1] \in Nat /\ a[2] \in Nat /\ b[1] \in Nat /\ b[2] \in Nat /\ a = <<a[1], a[2]>> /\ b = <<b[1], b[2]>>
  BY DEF Identifiers
<1>2. LessIn(a, b) => (a[1] < b[1] \/ (a[1] = b[1] /\ a[2] < b[2]))
  <2> SUFFICES ASSUME LessIn(a, b) PROVE a[1] < b[1] \/ (a[1] = b[1] /\ a[2] < b[2])
    OBVIOUS
  <2>1. PICK i \in 1..2 : a[i] < b[i] /\ \A k \in 1..(i - 1) : a[k] = b[k]
    BY <1>1 DEF LessIn
  <2>2. CASE i = 1
    BY <2>1, <2>2
  <2>3. CASE i = 2
    BY <2>1, <2>3
  <2> QED
    BY <2>2, <2>3
<1>3. a[1] < b[1] => LessIn(a, b)
  <2> SUFFICES ASSUME a[1] < b[1] PROVE LessIn(a, b)
    OBVIOUS
  <2>1. 1 \in DOMAIN a /\ a[1] < b[1] /\ \A k \in 1..(1 - 1) : a[k] = b[k]
    BY <1>1
  <2> QED
    BY <2>1 DEF LessIn
<1>4. a[1] = b[1] /\ a[2] < b[2] => LessIn(a, b)
  <2> SUFFICES ASSUME a[1] = b[1], a[2] < b[2] PROVE LessIn(a, b)
    OBVIOUS
  <2>1. 2 \in DOMAIN a /\ a[2] < b[2] /\ \A k \in 1..(2 - 1) : a[k] = b[k]
    BY <1>1
  <2> QED
    BY <2>1 DEF LessIn
<1> QED
  BY <1>2, <1>3, <1>4

LEMMA TripleLess ==
  ASSUME NEW a \in Nat, NEW b \in Nat, NEW c \in Nat, NEW x \in Nat, NEW y \in Nat, NEW z \in Nat
  PROVE  LessIn(<<a, b, c>>, <<x, y, z>>) <=> (a < x \/ (a = x /\ (b < y \/ (b = y /\ c < z))))
<1> DEFINE s == <<a, b, c>>
           t == <<x, y, z>>
<1>1. DOMAIN s = 1..3 /\ s[1] = a /\ s[2] = b /\ s[3] = c /\ t[1] = x /\ t[2] = y /\ t[3] = z
  OBVIOUS
<1> HIDE DEF s, t
<1>2. LessIn(s, t) => (a < x \/ (a = x /\ (b < y \/ (b = y /\ c < z))))
  <2> SUFFICES ASSUME LessIn(s, t) PROVE a < x \/ (a = x /\ (b < y \/ (b = y /\ c < z)))
    OBVIOUS
  <2>1. PICK i \in 1..3 : s[i] < t[i] /\ \A k \in 1..(i - 1) : s[k] = t[k]
    BY <1>1 DEF LessIn
  <2>2. CASE i = 1
    BY <1>1, <2>1, <2>2
  <2>3. CASE i = 2
    <3>1. s[1] = t[1] /\ s[2] < t[2]
      BY <2>1, <2>3
    <3> QED
      BY <1>1, <3>1
  <2>4. CASE i = 3
    <3>1. s[1] = t[1] /\ s[2] = t[2] /\ s[3] < t[3]
      BY <2>1, <2>4
    <3> QED
      BY <1>1, <3>1
  <2> QED
    BY <2>2, <2>3, <2>4
<1>3. a < x => LessIn(s, t)
  <2> SUFFICES ASSUME a < x PROVE LessIn(s, t)
    OBVIOUS
  <2>1. 1 \in DOMAIN s /\ s[1] < t[1] /\ \A k \in 1..(1 - 1) : s[k] = t[k]
    BY <1>1
  <2> QED
    BY <2>1 DEF LessIn
<1>4. a = x /\ b < y => LessIn(s, t)
  <2> SUFFICES ASSUME a = x, b < y PROVE LessIn(s, t)
    OBVIOUS
  <2>1. 2 \in DOMAIN s /\ s[2] < t[2] /\ \A k \in 1..(2 - 1) : s[k] = t[k]
    BY <1>1
  <2> QED
    BY <2>1 DEF LessIn
<1>5. a = x /\ b = y /\ c < z => LessIn(s, t)
  <2> SUFFICES ASSUME a = x, b = y, c < z PROVE LessIn(s, t)
    OBVIOUS
  <2>0. \A k \in 1..(3 - 1) : k = 1 \/ k = 2
    OBVIOUS
  <2>1. 3 \in DOMAIN s /\ s[3] < t[3] /\ \A k \in 1..(3 - 1) : s[k] = t[k]
    BY <1>1, <2>0
  <2> QED
    BY <2>1 DEF LessIn
<1> QED
  BY <1>2, <1>3, <1>4, <1>5 DEF s, t

\* The prereleases differ first where the first is less, or the first ends there.
Agree(a, b, n) == \A k \in 1..n : a[k] = b[k]
FirstLess(a, b) == \E i \in 1..Len(a) : i <= Len(b) /\ Agree(a, b, i - 1) /\ LessIn(a[i], b[i])
Begun(a, b) == Len(a) < Len(b) /\ Agree(a, b, Len(a))

LEMMA PrereleaseLessIs ==
  ASSUME NEW a \in Labels, NEW b \in Labels
  PROVE  /\ PrereleaseLess(a, b) <=> (FirstLess(a, b) \/ Begun(a, b))
         /\ a # b => FirstLess(a, b) \/ Begun(a, b) \/ FirstLess(b, a) \/ Begun(b, a)
<1> DEFINE m == IF Len(a) < Len(b) THEN Len(a) ELSE Len(b)
           differ == {i \in 1..m : a[i] # b[i]}
<1>1. Len(a) \in Nat /\ Len(b) \in Nat /\ m \in Nat /\ m <= Len(a) /\ m <= Len(b) /\ (m = Len(a) \/ m = Len(b))
  BY DEF Labels
<1>2. \A i \in 1..Len(a) : a[i] \in Identifiers
  BY DEF Labels
<1>3. \A i \in 1..Len(b) : b[i] \in Identifiers
  BY DEF Labels
<1>4. PrereleaseLess(a, b) <=> IF differ = {} THEN Len(a) < Len(b) ELSE LessIn(a[Min(differ)], b[Min(differ)])
  BY DEF PrereleaseLess
<1> HIDE DEF m, differ
<1>5. CASE differ = {}
  <2>1. \A i \in 1..m : a[i] = b[i]
    BY <1>5 DEF differ
  <2>2. ~ FirstLess(a, b)
    <3> SUFFICES ASSUME FirstLess(a, b) PROVE FALSE
      OBVIOUS
    <3>1. PICK i \in 1..Len(a) : i <= Len(b) /\ LessIn(a[i], b[i])
      BY DEF FirstLess
    <3>2. i \in 1..m
      BY <1>1, <3>1 DEF m
    <3>3. a[i] = b[i] /\ a[i] \in Identifiers
      BY <1>2, <2>1, <3>2
    <3>4. a[i][1] \in Nat /\ a[i][2] \in Nat
      BY <3>3 DEF Identifiers
    <3>5. a[i][1] < a[i][1] \/ a[i][2] < a[i][2]
      BY <3>1, <3>3, PairLess
    <3> QED
      BY <3>4, <3>5
  <2>3. Len(a) < Len(b) => Begun(a, b)
    BY <1>1, <2>1 DEF Begun, Agree, m
  <2>4. Len(b) < Len(a) => Begun(b, a)
    BY <1>1, <2>1 DEF Begun, Agree, m
  <2>5. Len(a) = Len(b) => a = b
    <3> SUFFICES ASSUME Len(a) = Len(b) PROVE a = b
      OBVIOUS
    <3>1. m = Len(a)
      BY <1>1
    <3>2. a \in Seq(Identifiers) /\ b \in Seq(Identifiers)
      BY DEF Labels
    <3>3. DOMAIN a = 1..Len(a) /\ DOMAIN b = 1..Len(a)
      BY <3>2
    <3>4. \A i \in 1..Len(a) : a[i] = b[i]
      BY <2>1, <3>1
    <3> QED
      BY <3>2, <3>3, <3>4
  <2>6. Begun(a, b) => Len(a) < Len(b)
    BY DEF Begun
  <2>7. PrereleaseLess(a, b) <=> Len(a) < Len(b)
    BY <1>4, <1>5
  <2>8. Len(a) < Len(b) \/ Len(b) < Len(a) \/ Len(a) = Len(b)
    BY <1>1
  <2> QED
    BY <2>2, <2>3, <2>4, <2>5, <2>6, <2>7, <2>8
<1>6. CASE differ # {}
  <2> DEFINE i == Min(differ)
  <2>0. differ \subseteq Nat
    BY DEF differ
  <2>1. i \in differ /\ \A k \in differ : i <= k
    BY <1>6, <2>0, LeastIs
  <2> HIDE DEF i
  <2>2. /\ i \in 1..Len(a) /\ i \in 1..Len(b) /\ i \in 1..m /\ a[i] # b[i]
        /\ a[i] \in Identifiers /\ b[i] \in Identifiers
    BY <1>1, <1>2, <1>3, <2>1 DEF differ
  <2>3. \A k \in 1..(i - 1) : a[k] = b[k]
    <3> TAKE k \in 1..(i - 1)
    <3>1. k \in 1..m /\ ~ (i <= k)
      BY <1>1, <2>2
    <3> QED
      BY <2>1, <3>1 DEF differ
  <2>4. LessIn(a[i], b[i]) \/ LessIn(b[i], a[i])
    <3>1. /\ a[i] = <<a[i][1], a[i][2]>> /\ b[i] = <<b[i][1], b[i][2]>>
          /\ a[i][1] \in Nat /\ a[i][2] \in Nat /\ b[i][1] \in Nat /\ b[i][2] \in Nat
      BY <2>2 DEF Identifiers
    <3>2. a[i][1] # b[i][1] \/ a[i][2] # b[i][2]
      BY <2>2, <3>1
    <3> QED
      BY <2>2, <3>1, <3>2, PairLess
  <2>5. LessIn(a[i], b[i]) => FirstLess(a, b)
    BY <1>1, <2>2, <2>3 DEF FirstLess, Agree
  <2>6. LessIn(b[i], a[i]) => FirstLess(b, a)
    BY <1>1, <2>2, <2>3 DEF FirstLess, Agree
  <2>7. FirstLess(a, b) => LessIn(a[i], b[i])
    <3> SUFFICES ASSUME FirstLess(a, b) PROVE LessIn(a[i], b[i])
      OBVIOUS
    <3>1. PICK j \in 1..Len(a) : j <= Len(b) /\ (\A k \in 1..(j - 1) : a[k] = b[k]) /\ LessIn(a[j], b[j])
      BY DEF FirstLess, Agree
    <3>2. ~ (i < j)
      BY <2>2, <3>1
    <3>3. ~ (j < i)
      <4> SUFFICES ASSUME j < i PROVE FALSE
        OBVIOUS
      <4>1. a[j] = b[j] /\ a[j] \in Identifiers
        BY <1>2, <2>2, <2>3, <3>1
      <4>2. a[j][1] \in Nat /\ a[j][2] \in Nat
        BY <4>1 DEF Identifiers
      <4>3. a[j][1] < a[j][1] \/ a[j][2] < a[j][2]
        BY <3>1, <4>1, PairLess
      <4> QED
        BY <4>2, <4>3
    <3>4. i = j
      BY <2>2, <3>2, <3>3
    <3> QED
      BY <3>1, <3>4
  <2>8. ~ Begun(a, b)
    BY <2>2 DEF Begun, Agree
  <2>9. PrereleaseLess(a, b) <=> LessIn(a[i], b[i])
    BY <1>4, <1>6 DEF i
  <2> QED
    BY <2>4, <2>5, <2>6, <2>7, <2>8, <2>9
<1> QED
  BY <1>5, <1>6

LEMMA PairOrder ==
  ASSUME NEW a \in Identifiers, NEW b \in Identifiers, NEW c \in Identifiers
  PROVE  ~ LessIn(a, a) /\ (LessIn(a, b) /\ LessIn(b, c) => LessIn(a, c))
<1>1. \A x \in Identifiers : x[1] \in Nat /\ x[2] \in Nat
  BY DEF Identifiers
<1>2. ~ LessIn(a, a)
  BY <1>1, PairLess
<1>3. LessIn(a, b) /\ LessIn(b, c) => LessIn(a, c)
  <2>1. /\ LessIn(a, b) <=> (a[1] < b[1] \/ (a[1] = b[1] /\ a[2] < b[2]))
        /\ LessIn(b, c) <=> (b[1] < c[1] \/ (b[1] = c[1] /\ b[2] < c[2]))
        /\ LessIn(a, c) <=> (a[1] < c[1] \/ (a[1] = c[1] /\ a[2] < c[2]))
    BY PairLess
  <2>2. a[1] \in Nat /\ a[2] \in Nat /\ b[1] \in Nat /\ b[2] \in Nat /\ c[1] \in Nat /\ c[2] \in Nat
    BY <1>1
  <2> QED
    BY <2>1, <2>2
<1> QED
  BY <1>2, <1>3

LEMMA LabelOrder ==
  ASSUME NEW a \in Labels, NEW b \in Labels, NEW c \in Labels
  PROVE  /\ ~ PrereleaseLess(a, a)
         /\ a # b => PrereleaseLess(a, b) \/ PrereleaseLess(b, a)
         /\ PrereleaseLess(a, b) /\ PrereleaseLess(b, c) => PrereleaseLess(a, c)
<1>1. Len(a) \in Nat /\ Len(b) \in Nat /\ Len(c) \in Nat
  BY DEF Labels
<1>2. /\ \A i \in 1..Len(a) : a[i] \in Identifiers
      /\ \A i \in 1..Len(b) : b[i] \in Identifiers
      /\ \A i \in 1..Len(c) : c[i] \in Identifiers
  BY DEF Labels
<1>3. ~ PrereleaseLess(a, a)
  <2>1. ~ FirstLess(a, a)
    <3> SUFFICES ASSUME FirstLess(a, a) PROVE FALSE
      OBVIOUS
    <3>1. PICK i \in 1..Len(a) : LessIn(a[i], a[i])
      BY DEF FirstLess
    <3> QED
      BY <1>2, <3>1, PairOrder
  <2>2. ~ Begun(a, a)
    BY <1>1 DEF Begun
  <2> QED
    BY <2>1, <2>2, PrereleaseLessIs
<1>4. a # b => PrereleaseLess(a, b) \/ PrereleaseLess(b, a)
  BY PrereleaseLessIs
<1>5. ASSUME PrereleaseLess(a, b), PrereleaseLess(b, c) PROVE PrereleaseLess(a, c)
  <2>1. FirstLess(a, b) \/ Begun(a, b)
    BY <1>5, PrereleaseLessIs
  <2>2. FirstLess(b, c) \/ Begun(b, c)
    BY <1>5, PrereleaseLessIs
  <2>3. CASE FirstLess(a, b) /\ FirstLess(b, c)
    <3>1. PICK i \in 1..Len(a) : i <= Len(b) /\ (\A k \in 1..(i - 1) : a[k] = b[k]) /\ LessIn(a[i], b[i])
      BY <2>3 DEF FirstLess, Agree
    <3>2. PICK j \in 1..Len(b) : j <= Len(c) /\ (\A k \in 1..(j - 1) : b[k] = c[k]) /\ LessIn(b[j], c[j])
      BY <2>3 DEF FirstLess, Agree
    <3>3. CASE i < j
      <4>1. LessIn(a[i], c[i]) /\ i <= Len(c)
        <5>1. b[i] = c[i]
          BY <3>1, <3>2, <3>3
        <5> QED
          BY <1>1, <3>1, <3>2, <3>3, <5>1
      <4>2. \A k \in 1..(i - 1) : a[k] = c[k]
        BY <3>1, <3>2, <3>3
      <4>3. FirstLess(a, c)
        BY <4>1, <4>2 DEF FirstLess, Agree
      <4> QED
        BY <4>3, PrereleaseLessIs
    <3>4. CASE j < i
      <4>1. LessIn(a[j], c[j]) /\ j \in 1..Len(a)
        <5>1. a[j] = b[j]
          BY <3>1, <3>2, <3>4
        <5> QED
          BY <1>1, <3>1, <3>2, <3>4, <5>1
      <4>2. \A k \in 1..(j - 1) : a[k] = c[k]
        BY <3>1, <3>2, <3>4
      <4>3. FirstLess(a, c)
        BY <3>2, <4>1, <4>2 DEF FirstLess, Agree
      <4> QED
        BY <4>3, PrereleaseLessIs
    <3>5. CASE i = j
      <4>1. LessIn(a[i], c[i])
        <5>1. i \in 1..Len(b) /\ i \in 1..Len(c)
          BY <1>1, <3>1, <3>2, <3>5
        <5>2. a[i] \in Identifiers /\ b[i] \in Identifiers /\ c[i] \in Identifiers
          BY <1>2, <5>1
        <5> QED
          BY <3>1, <3>2, <3>5, <5>2, PairOrder
      <4>2. \A k \in 1..(i - 1) : a[k] = c[k]
        BY <3>1, <3>2, <3>5
      <4>3. FirstLess(a, c)
        BY <3>2, <3>5, <4>1, <4>2 DEF FirstLess, Agree
      <4> QED
        BY <4>3, PrereleaseLessIs
    <3> QED
      BY <3>3, <3>4, <3>5
  <2>4. CASE FirstLess(a, b) /\ Begun(b, c)
    <3>1. PICK i \in 1..Len(a) : i <= Len(b) /\ (\A k \in 1..(i - 1) : a[k] = b[k]) /\ LessIn(a[i], b[i])
      BY <2>4 DEF FirstLess, Agree
    <3>2. Len(b) < Len(c) /\ \A k \in 1..Len(b) : b[k] = c[k]
      BY <2>4 DEF Begun, Agree
    <3>3. b[i] = c[i] /\ i <= Len(c)
      BY <1>1, <3>1, <3>2
    <3>4. \A k \in 1..(i - 1) : a[k] = c[k]
      BY <1>1, <3>1, <3>2
    <3>5. FirstLess(a, c)
      BY <3>1, <3>3, <3>4 DEF FirstLess, Agree
    <3> QED
      BY <3>5, PrereleaseLessIs
  <2>5. CASE Begun(a, b) /\ FirstLess(b, c)
    <3>1. Len(a) < Len(b) /\ \A k \in 1..Len(a) : a[k] = b[k]
      BY <2>5 DEF Begun, Agree
    <3>2. PICK j \in 1..Len(b) : j <= Len(c) /\ (\A k \in 1..(j - 1) : b[k] = c[k]) /\ LessIn(b[j], c[j])
      BY <2>5 DEF FirstLess, Agree
    <3>3. CASE j <= Len(a)
      <4>1. j \in 1..Len(a) /\ a[j] = b[j]
        BY <1>1, <3>1, <3>2, <3>3
      <4>2. \A k \in 1..(j - 1) : a[k] = c[k]
        BY <1>1, <3>1, <3>2, <3>3
      <4>3. FirstLess(a, c)
        BY <3>2, <4>1, <4>2 DEF FirstLess, Agree
      <4> QED
        BY <4>3, PrereleaseLessIs
    <3>4. CASE Len(a) < j
      <4>1. Len(a) < Len(c) /\ \A k \in 1..Len(a) : a[k] = c[k]
        BY <1>1, <3>1, <3>2, <3>4
      <4>2. Begun(a, c)
        BY <4>1 DEF Begun, Agree
      <4> QED
        BY <4>2, PrereleaseLessIs
    <3> QED
      BY <1>1, <3>3, <3>4
  <2>6. CASE Begun(a, b) /\ Begun(b, c)
    <3>1. Len(a) < Len(b) /\ \A k \in 1..Len(a) : a[k] = b[k]
      BY <2>6 DEF Begun, Agree
    <3>2. Len(b) < Len(c) /\ \A k \in 1..Len(b) : b[k] = c[k]
      BY <2>6 DEF Begun, Agree
    <3>3. Len(a) < Len(c) /\ \A k \in 1..Len(a) : a[k] = c[k]
      BY <1>1, <3>1, <3>2
    <3>4. Begun(a, c)
      BY <3>3 DEF Begun, Agree
    <3> QED
      BY <3>4, PrereleaseLessIs
  <2> QED
    BY <2>1, <2>2, <2>3, <2>4, <2>5, <2>6
<1> QED
  BY <1>3, <1>4, <1>5

\* The versions with parts and prereleases of any size.
Versions == Nat \X Nat \X Nat \X Labels

LEMMA VersionIs ==
  ASSUME NEW v \in Versions
  PROVE  /\ v = <<v[1], v[2], v[3], v[4]>> /\ Triple(v) = <<v[1], v[2], v[3]>>
         /\ v[1] \in Nat /\ v[2] \in Nat /\ v[3] \in Nat /\ v[4] \in Labels
BY DEF Versions, Triple

LEMMA LessIs ==
  ASSUME NEW v \in Versions, NEW w \in Versions
  PROVE  Less(v, w) <=> \/ LessIn(Triple(v), Triple(w))
                        \/ Triple(v) = Triple(w) /\ v[4] # <<>> /\ (w[4] = <<>> \/ PrereleaseLess(v[4], w[4]))
BY DEF Less

Lower3(v, w) == v[1] < w[1] \/ (v[1] = w[1] /\ (v[2] < w[2] \/ (v[2] = w[2] /\ v[3] < w[3])))

LEMMA TriplesLess ==
  ASSUME NEW v \in Versions, NEW w \in Versions PROVE LessIn(Triple(v), Triple(w)) <=> Lower3(v, w)
<1> DEFINE a == v[1]
           b == v[2]
           c == v[3]
           x == w[1]
           y == w[2]
           z == w[3]
<1>1. Triple(v) = <<a, b, c>> /\ Triple(w) = <<x, y, z>>
  BY DEF Triple
<1>2. a \in Nat /\ b \in Nat /\ c \in Nat /\ x \in Nat /\ y \in Nat /\ z \in Nat
  BY VersionIs
<1>3. Lower3(v, w) <=> (a < x \/ (a = x /\ (b < y \/ (b = y /\ c < z))))
  BY DEF Lower3
<1> HIDE DEF a, b, c, x, y, z
<1> QED
  BY <1>1, <1>2, <1>3, TripleLess

LEMMA TripleOrder ==
  ASSUME NEW u \in Versions, NEW v \in Versions, NEW w \in Versions
  PROVE  /\ ~ LessIn(Triple(v), Triple(v))
         /\ Triple(v) # Triple(w) => LessIn(Triple(v), Triple(w)) \/ LessIn(Triple(w), Triple(v))
         /\ LessIn(Triple(u), Triple(v)) /\ LessIn(Triple(v), Triple(w)) => LessIn(Triple(u), Triple(w))
<1>0. /\ u[1] \in Nat /\ u[2] \in Nat /\ u[3] \in Nat /\ v[1] \in Nat /\ v[2] \in Nat /\ v[3] \in Nat
      /\ w[1] \in Nat /\ w[2] \in Nat /\ w[3] \in Nat
  BY VersionIs
<1>1. /\ Triple(u) = <<u[1], u[2], u[3]>> /\ u[1] \in Nat /\ u[2] \in Nat /\ u[3] \in Nat
      /\ Triple(v) = <<v[1], v[2], v[3]>> /\ v[1] \in Nat /\ v[2] \in Nat /\ v[3] \in Nat
      /\ Triple(w) = <<w[1], w[2], w[3]>> /\ w[1] \in Nat /\ w[2] \in Nat /\ w[3] \in Nat
  BY VersionIs
<1>2. /\ LessIn(Triple(v), Triple(v)) <=> Lower3(v, v)
      /\ LessIn(Triple(v), Triple(w)) <=> Lower3(v, w)
      /\ LessIn(Triple(w), Triple(v)) <=> Lower3(w, v)
      /\ LessIn(Triple(u), Triple(v)) <=> Lower3(u, v)
      /\ LessIn(Triple(u), Triple(w)) <=> Lower3(u, w)
  BY TriplesLess
<1>3. ~ Lower3(v, v)
  BY <1>0 DEF Lower3
<1>4. Triple(v) # Triple(w) => Lower3(v, w) \/ Lower3(w, v)
  <2>1. Triple(v) # Triple(w) => v[1] # w[1] \/ v[2] # w[2] \/ v[3] # w[3]
    BY <1>1
  <2> QED
    BY <1>0, <2>1 DEF Lower3
<1>5. Lower3(u, v) /\ Lower3(v, w) => Lower3(u, w)
  BY <1>0 DEF Lower3
<1> QED
  BY <1>2, <1>3, <1>4, <1>5

\* Precedence (SemanticVersion.__lt__, __eq__) is a strict total order on all
\* versions: two different ones are ordered one way, and the order is transitive.
LEMMA PrecedenceOrders ==
  ASSUME NEW u \in Versions, NEW v \in Versions, NEW w \in Versions
  PROVE  /\ ~ Less(v, v)
         /\ v # w => Less(v, w) \/ Less(w, v)
         /\ Less(u, v) /\ Less(v, w) => Less(u, w)
<1>1. /\ u[4] \in Labels /\ v[4] \in Labels /\ w[4] \in Labels
      /\ v = <<v[1], v[2], v[3], v[4]>> /\ w = <<w[1], w[2], w[3], w[4]>>
      /\ Triple(v) = <<v[1], v[2], v[3]>> /\ Triple(w) = <<w[1], w[2], w[3]>>
  BY VersionIs
<1>2. ~ Less(v, v)
  BY <1>1, LessIs, TripleOrder, LabelOrder
<1>3. v # w => Less(v, w) \/ Less(w, v)
  <2>1. v # w => Triple(v) # Triple(w) \/ v[4] # w[4]
    BY <1>1
  <2>2. Triple(v) # Triple(w) => Less(v, w) \/ Less(w, v)
    BY LessIs, TripleOrder
  <2>3. Triple(v) = Triple(w) /\ v[4] # w[4] => Less(v, w) \/ Less(w, v)
    BY <1>1, LessIs, LabelOrder
  <2> QED
    BY <2>1, <2>2, <2>3
<1>4. ASSUME Less(u, v), Less(v, w) PROVE Less(u, w)
  <2>1. CASE LessIn(Triple(u), Triple(v)) /\ LessIn(Triple(v), Triple(w))
    BY <2>1, LessIs, TripleOrder
  <2>2. CASE LessIn(Triple(u), Triple(v)) /\ Triple(v) = Triple(w)
    BY <2>2, LessIs
  <2>3. CASE Triple(u) = Triple(v) /\ LessIn(Triple(v), Triple(w))
    BY <2>3, LessIs
  <2>4. CASE /\ ~ LessIn(Triple(u), Triple(v)) /\ ~ LessIn(Triple(v), Triple(w))
             /\ Triple(u) = Triple(v) /\ Triple(v) = Triple(w)
    <3>1. u[4] # <<>> /\ (v[4] = <<>> \/ PrereleaseLess(u[4], v[4]))
      BY <1>4, <2>4, LessIs
    <3>2. v[4] # <<>> /\ (w[4] = <<>> \/ PrereleaseLess(v[4], w[4]))
      BY <1>4, <2>4, LessIs
    <3>3. w[4] = <<>> \/ PrereleaseLess(u[4], w[4])
      BY <1>1, <3>1, <3>2, LabelOrder
    <3> QED
      BY <2>4, <3>1, <3>3, LessIs
  <2>5. /\ LessIn(Triple(u), Triple(v)) \/ Triple(u) = Triple(v)
        /\ LessIn(Triple(v), Triple(w)) \/ Triple(v) = Triple(w)
    BY <1>4, LessIs
  <2> QED
    BY <2>1, <2>2, <2>3, <2>4, <2>5
<1> QED
  BY <1>2, <1>3, <1>4

-----------------------------------------------------------------------------
(* What a branch of bounds takes                                           *)

Lex(p, q, r, a, b, c) == p < a \/ (p = a /\ (q < b \/ (q = b /\ r < c)))
\* A prerelease is asked for by a bound on its own release.
OwnRelease(v, a, b, c, pre) == v[4] = <<>> \/ (pre # <<>> /\ v[1] = a /\ v[2] = b /\ v[3] = c)

LEMMA BelowTriple ==
  ASSUME NEW v \in Versions, NEW a \in Nat, NEW b \in Nat, NEW c \in Nat
  PROVE  /\ LessIn(Triple(v), <<a, b, c>>) <=> Lex(v[1], v[2], v[3], a, b, c)
         /\ LessIn(<<a, b, c>>, Triple(v)) <=> Lex(a, b, c, v[1], v[2], v[3])
         /\ Triple(v) = <<a, b, c>> <=> (v[1] = a /\ v[2] = b /\ v[3] = c)
<1> DEFINE x == v[1]
           y == v[2]
           z == v[3]
<1>1. x \in Nat /\ y \in Nat /\ z \in Nat /\ Triple(v) = <<x, y, z>>
  BY VersionIs
<1> HIDE DEF x, y, z
<1>2. LessIn(Triple(v), <<a, b, c>>) <=> Lex(x, y, z, a, b, c)
  BY <1>1, TripleLess DEF Lex
<1>3. LessIn(<<a, b, c>>, Triple(v)) <=> Lex(a, b, c, x, y, z)
  BY <1>1, TripleLess DEF Lex
<1>4. Triple(v) = <<a, b, c>> <=> (x = a /\ y = b /\ z = c)
  BY <1>1
<1> QED
  BY <1>2, <1>3, <1>4 DEF x, y, z

LEMMA ZeroIsLeast ==
  /\ Zero \in Labels /\ Zero # <<>> /\ <<>> \in Labels
  /\ \A x \in Labels : x # <<>> => ~ PrereleaseLess(x, Zero)
<1>1. /\ Zero \in Labels /\ Len(Zero) = 1 /\ Zero[1] = <<0, 0>> /\ <<0, 0>> \in Identifiers
      /\ Zero # <<>> /\ <<>> \in Labels
  BY DEF Zero, Labels, Identifiers
<1> HIDE DEF Zero
<1>2. ASSUME NEW x \in Labels, x # <<>> PROVE ~ PrereleaseLess(x, Zero)
  <2>1. Len(x) \in Nat /\ Len(x) # 0 /\ \A i \in 1..Len(x) : x[i] \in Identifiers
    BY <1>2 DEF Labels
  <2>2. ~ Begun(x, Zero)
    BY <1>1, <2>1 DEF Begun
  <2>3. ~ FirstLess(x, Zero)
    <3> SUFFICES ASSUME FirstLess(x, Zero) PROVE FALSE
      OBVIOUS
    <3>1. PICK i \in 1..Len(x) : i <= 1 /\ LessIn(x[i], Zero[i])
      BY <1>1 DEF FirstLess
    <3>2. i = 1 /\ x[1] \in Identifiers /\ LessIn(x[1], Zero[1])
      BY <2>1, <3>1
    <3>3. x[1][1] < <<0, 0>>[1] \/ x[1][2] < <<0, 0>>[2]
      BY <1>1, <3>2, PairLess
    <3>4. x[1][1] \in Nat /\ x[1][2] \in Nat
      BY <3>2 DEF Identifiers
    <3> QED
      BY <3>3, <3>4
  <2> QED
    BY <1>1, <2>2, <2>3, PrereleaseLessIs
<1> QED
  BY <1>1, <1>2

\* Whatever is below a release with the prerelease -0, is of an earlier release.
LEMMA BelowIs ==
  ASSUME NEW v \in Versions, NEW a \in Nat, NEW b \in Nat, NEW c \in Nat
  PROVE  SatisfiesBound(Below(a, b, c), v) <=> Lex(v[1], v[2], v[3], a, b, c)
<1> DEFINE w == <<a, b, c, Zero>>
<1>1. w \in Versions /\ w[4] = Zero /\ Triple(w) = <<a, b, c>>
  BY ZeroIsLeast DEF Versions, Triple
<1>2. SatisfiesBound(Below(a, b, c), v) <=> Less(v, w)
  BY DEF SatisfiesBound, Below, Bound
<1>3. v[4] \in Labels
  BY VersionIs
<1> HIDE DEF w
<1>4. Less(v, w) <=> LessIn(Triple(v), Triple(w))
  BY <1>1, <1>3, LessIs, ZeroIsLeast
<1> QED
  BY <1>1, <1>2, <1>4, BelowTriple

LEMMA ReachesIs ==
  ASSUME NEW v \in Versions, NEW a \in Nat, NEW b \in Nat, NEW c \in Nat, NEW pre \in Labels
  PROVE  /\ Reaches(<<a, b, c, pre>>, v) => ~ Lex(v[1], v[2], v[3], a, b, c)
         /\ Reaches(<<a, b, c, pre>>, v) <=> \/ From(a, b, c, pre) = From(0, 0, 0, <<>>)
                                             \/ SatisfiesBound(From(a, b, c, pre), v)
         /\ v[4] = <<>> /\ pre = <<>> => (Reaches(<<a, b, c, pre>>, v) <=> ~ Lex(v[1], v[2], v[3], a, b, c))
<1> DEFINE w == <<a, b, c, pre>>
<1>1. w \in Versions /\ w[1] = a /\ w[2] = b /\ w[3] = c /\ w[4] = pre /\ Triple(w) = <<a, b, c>>
  BY DEF Versions, Triple
<1>2. v[1] \in Nat /\ v[2] \in Nat /\ v[3] \in Nat /\ v = <<v[1], v[2], v[3], v[4]>>
  BY VersionIs
<1>3. Reaches(w, v) <=> \/ From(a, b, c, pre) = From(0, 0, 0, <<>>)
                        \/ SatisfiesBound(From(a, b, c, pre), v)
  <2>1. SatisfiesBound(From(a, b, c, pre), v) <=> AtMost(w, v)
    BY DEF SatisfiesBound, From, Bound, AtMost
  <2>2. From(a, b, c, pre) = From(0, 0, 0, <<>>) <=> w = <<0, 0, 0, <<>>>>
    BY DEF From, Bound
  <2> QED
    BY <2>1, <2>2 DEF Reaches
<1>4. Less(w, v) <=> \/ Lex(a, b, c, v[1], v[2], v[3])
                     \/ Triple(w) = Triple(v) /\ pre # <<>> /\ (v[4] = <<>> \/ PrereleaseLess(pre, v[4]))
  <2> HIDE DEF w
  <2>1. Less(w, v) <=> \/ LessIn(Triple(w), Triple(v))
                       \/ Triple(w) = Triple(v) /\ w[4] # <<>> /\ (v[4] = <<>> \/ PrereleaseLess(w[4], v[4]))
    BY <1>1, LessIs
  <2>2. LessIn(Triple(w), Triple(v)) <=> Lex(a, b, c, v[1], v[2], v[3])
    BY <1>1, BelowTriple
  <2> QED
    BY <1>1, <2>1, <2>2
<1>5. Triple(w) = Triple(v) <=> (v[1] = a /\ v[2] = b /\ v[3] = c)
  BY <1>1, BelowTriple
<1>6. w = v <=> (v[1] = a /\ v[2] = b /\ v[3] = c /\ v[4] = pre)
  BY <1>1, <1>2
<1>7. w = <<0, 0, 0, <<>>>> => a = 0 /\ b = 0 /\ c = 0
  OBVIOUS
<1> HIDE DEF w
<1>8. Reaches(w, v) => ~ Lex(v[1], v[2], v[3], a, b, c)
  BY <1>2, <1>4, <1>5, <1>6, <1>7 DEF Reaches, AtMost, Lex
<1>9. v[4] = <<>> /\ pre = <<>> => (Reaches(w, v) <=> ~ Lex(v[1], v[2], v[3], a, b, c))
  BY <1>2, <1>4, <1>5, <1>6, <1>8 DEF Reaches, AtMost, Lex
<1> QED
  BY <1>3, <1>8, <1>9 DEF w

\* A branch holds with its bounds, and a prerelease by one of them.
Held(S, v) == \A bound \in S : bound = From(0, 0, 0, <<>>) \/ SatisfiesBound(bound, v)
Opted(S, v) == v[4] = <<>> \/ OptsIn(S, v)

LEMMA CollapsedMatches ==
  ASSUME NEW S, NEW v PROVE BranchMatches(Collapsed(S), v) <=> Held(S, v) /\ Opted(S, v)
<1>1. From(0, 0, 0, <<>>).version[4] = <<>>
  BY DEF From, Bound
<1>2. OptsIn(Collapsed(S), v) <=> OptsIn(S, v)
  BY <1>1 DEF OptsIn, Collapsed
<1> QED
  BY <1>2 DEF BranchMatches, Collapsed, Held, Opted

LEMMA SidesMatch ==
  ASSUME NEW v
  PROVE  /\ \A S, T : Held(S \cup T, v) <=> Held(S, v) /\ Held(T, v)
         /\ \A S, T : Opted(S \cup T, v) <=> Opted(S, v) \/ Opted(T, v)
         /\ Held({}, v) /\ (Opted({}, v) <=> v[4] = <<>>)
BY DEF Held, Opted, OptsIn

LEMMA BoundOpts ==
  ASSUME NEW v \in Versions, NEW a \in Nat, NEW b \in Nat, NEW c \in Nat, NEW pre \in Labels, NEW op
  PROVE  Opted({Bound(op, a, b, c, pre)}, v) <=> OwnRelease(v, a, b, c, pre)
<1>1. OptsIn({Bound(op, a, b, c, pre)}, v) <=> pre # <<>> /\ Triple(v) = <<a, b, c>>
  BY DEF OptsIn, Bound, Triple
<1>2. Triple(v) = <<a, b, c>> <=> (v[1] = a /\ v[2] = b /\ v[3] = c)
  BY DEF Triple
<1> QED
  BY <1>1, <1>2 DEF OwnRelease, Opted

LEMMA FromMatches ==
  ASSUME NEW v \in Versions, NEW a \in Nat, NEW b \in Nat, NEW c \in Nat, NEW pre \in Labels
  PROVE  /\ Held({From(a, b, c, pre)}, v) <=> Reaches(<<a, b, c, pre>>, v)
         /\ Opted({From(a, b, c, pre)}, v) <=> OwnRelease(v, a, b, c, pre)
<1>1. Held({From(a, b, c, pre)}, v) <=> Reaches(<<a, b, c, pre>>, v)
  BY ReachesIs DEF Held
<1>2. From(a, b, c, pre) = Bound(">=", a, b, c, pre)
  BY DEF From
<1> QED
  BY <1>1, <1>2, BoundOpts

LEMMA BelowMatches ==
  ASSUME NEW v \in Versions, NEW a \in Nat, NEW b \in Nat, NEW c \in Nat
  PROVE  /\ Held({Below(a, b, c)}, v) <=> Lex(v[1], v[2], v[3], a, b, c)
         /\ Held({Below(a, b, c)}, v) => (Opted({Below(a, b, c)}, v) <=> v[4] = <<>>)
<1>1. Below(a, b, c) # From(0, 0, 0, <<>>)
  BY DEF Below, From, Bound
<1>2. Held({Below(a, b, c)}, v) <=> Lex(v[1], v[2], v[3], a, b, c)
  BY <1>1, BelowIs DEF Held
<1>3. Opted({Below(a, b, c)}, v) <=> OwnRelease(v, a, b, c, Zero)
  BY BoundOpts, ZeroIsLeast DEF Below
<1>4. v[1] \in Nat /\ v[2] \in Nat /\ v[3] \in Nat
  BY VersionIs
<1> QED
  BY <1>2, <1>3, <1>4 DEF OwnRelease, Lex

LEMMA FromBelowMatches ==
  ASSUME NEW v \in Versions, NEW a \in Nat, NEW b \in Nat, NEW c \in Nat, NEW pre \in Labels,
         NEW x \in Nat, NEW y \in Nat, NEW z \in Nat
  PROVE  BranchMatches(Collapsed({From(a, b, c, pre), Below(x, y, z)}), v) <=>
           Reaches(<<a, b, c, pre>>, v) /\ Lex(v[1], v[2], v[3], x, y, z) /\ OwnRelease(v, a, b, c, pre)
<1> DEFINE F == {From(a, b, c, pre)}
           B == {Below(x, y, z)}
<1>1. {From(a, b, c, pre), Below(x, y, z)} = F \cup B
  OBVIOUS
<1>2. /\ Held(F, v) <=> Reaches(<<a, b, c, pre>>, v)
      /\ Opted(F, v) <=> OwnRelease(v, a, b, c, pre)
  BY FromMatches
<1>3. /\ Held(B, v) <=> Lex(v[1], v[2], v[3], x, y, z)
      /\ Held(B, v) => (Opted(B, v) <=> v[4] = <<>>)
  BY BelowMatches
<1> HIDE DEF F, B
<1>4. BranchMatches(Collapsed(F \cup B), v) <=> (Held(F, v) /\ Held(B, v)) /\ (Opted(F, v) \/ Opted(B, v))
  BY CollapsedMatches, SidesMatch
<1>5. v[4] = <<>> => OwnRelease(v, a, b, c, pre)
  BY DEF OwnRelease
<1> QED
  BY <1>1, <1>2, <1>3, <1>4, <1>5

LEMMA OneMatches ==
  ASSUME NEW v \in Versions, NEW a \in Nat, NEW b \in Nat, NEW c \in Nat, NEW pre \in Labels
  PROVE  /\ BranchMatches(Collapsed({From(a, b, c, pre)}), v) <=>
              Reaches(<<a, b, c, pre>>, v) /\ OwnRelease(v, a, b, c, pre)
         /\ BranchMatches(Collapsed({Below(a, b, c)}), v) <=> Lex(v[1], v[2], v[3], a, b, c) /\ v[4] = <<>>
         /\ BranchMatches(Collapsed({}), v) <=> v[4] = <<>>
<1>1. BranchMatches(Collapsed({From(a, b, c, pre)}), v) <=>
              Reaches(<<a, b, c, pre>>, v) /\ OwnRelease(v, a, b, c, pre)
  BY FromMatches, CollapsedMatches
<1>2. BranchMatches(Collapsed({Below(a, b, c)}), v) <=> Lex(v[1], v[2], v[3], a, b, c) /\ v[4] = <<>>
  BY BelowMatches, CollapsedMatches
<1>3. BranchMatches(Collapsed({}), v) <=> v[4] = <<>>
  BY SidesMatch, CollapsedMatches
<1> QED
  BY <1>1, <1>2, <1>3

-----------------------------------------------------------------------------
(* Tokens                                                                  *)

\* The parts of a token, and those of the versions it is asked about.
LEMMA SemVersionIs ==
  ASSUME NEW v \in SemVersions
  PROVE  v \in Versions /\ v[1] \in 0..MaxPart /\ v[2] \in 0..MaxPart /\ v[3] \in 0..MaxPart
<1>1. {<<>>} \cup Prereleases \subseteq Labels
  BY RangeAssumption, ZeroIsLeast DEF Labels, Identifiers
<1> QED
  BY <1>1, RangeAssumption DEF SemVersions, Versions, PartNumbers

LEMMA TokenIs ==
  ASSUME NEW t \in RangeToken
  PROVE  /\ t.a \in 0..MaxPart \/ t.a = X
         /\ t.b \in 0..MaxPart \/ t.b = X
         /\ t.c \in 0..MaxPart \/ t.c = X
         /\ t.pre \in Labels /\ t.op \in {"", "=", "<", "<=", ">", ">=", "^", "~"}
         /\ X \in Nat /\ MaxPart < X /\ MaxPart \in Nat
<1>1. t.pre \in Labels
  <2>1. {<<>>} \cup Prereleases \subseteq Labels
    BY RangeAssumption, ZeroIsLeast DEF Labels, Identifiers
  <2> QED
    BY <2>1 DEF RangeToken
<1>2. /\ t.a \in PartNumbers \cup {X} /\ t.b \in PartNumbers \cup {X} /\ t.c \in PartNumbers \cup {X}
      /\ t.op \in {"", "=", "<", "<=", ">", ">=", "^", "~"}
  BY DEF RangeToken
<1>3. X \in Nat /\ MaxPart < X /\ MaxPart \in Nat
  BY RangeAssumption DEF X
<1> QED
  BY <1>1, <1>2, <1>3 DEF PartNumbers

LEMMA LowestIs ==
  ASSUME NEW t \in RangeToken
  PROVE  /\ t.a # X /\ t.b = X => Lowest(t) = <<t.a, 0, 0, <<>>>>
         /\ t.a # X /\ t.b # X /\ t.c = X => Lowest(t) = <<t.a, t.b, 0, <<>>>>
         /\ t.a # X /\ t.b # X /\ t.c # X => Lowest(t) = <<t.a, t.b, t.c, t.pre>>
         /\ Full(t) <=> t.a # X /\ t.b # X /\ t.c # X
BY DEF Lowest, Full

\* A prerelease counts where the token asks for it.
LEMMA NamedIs ==
  ASSUME NEW t \in RangeToken, NEW v \in SemVersions
  PROVE  /\ ~ Full(t) => (PrereleaseNamed(t, v) <=> v[4] = <<>>)
         /\ Full(t) => (PrereleaseNamed(t, v) <=> OwnRelease(v, t.a, t.b, t.c, t.pre))
<1>1. ~ Full(t) => (PrereleaseNamed(t, v) <=> v[4] = <<>>)
  BY DEF PrereleaseNamed
<1>2. ASSUME Full(t) PROVE PrereleaseNamed(t, v) <=> OwnRelease(v, t.a, t.b, t.c, t.pre)
  <2>1. Lowest(t) = <<t.a, t.b, t.c, t.pre>>
    BY <1>2, LowestIs
  <2>2. Triple(Lowest(t)) = Triple(v) <=> (v[1] = t.a /\ v[2] = t.b /\ v[3] = t.c)
    BY <2>1 DEF Triple
  <2> QED
    BY <1>2, <2>2 DEF PrereleaseNamed, OwnRelease
<1> QED
  BY <1>1, <1>2

LEMMA CaretMeans ==
  ASSUME NEW t \in RangeToken, NEW v \in SemVersions, t.op = "^"
  PROVE  BranchMatches(DesugarToken(t), v) <=> Means(t, v) /\ PrereleaseNamed(t, v)
<1> DEFINE a == t.a
           b == t.b
           c == t.c
           pre == t.pre
           p == v[1]
           q == v[2]
           r == v[3]
<1>1. /\ a \in 0..MaxPart \/ a = X
      /\ b \in 0..MaxPart \/ b = X
      /\ c \in 0..MaxPart \/ c = X
      /\ pre \in Labels /\ X \in Nat /\ MaxPart < X /\ MaxPart \in Nat
  BY TokenIs
<1>2. v \in Versions /\ p \in 0..MaxPart /\ q \in 0..MaxPart /\ r \in 0..MaxPart
  BY SemVersionIs
<1>3. DesugarToken(t) = Collapsed(ReplaceCaret(a, b, c, pre))
  BY DEF DesugarToken
<1>4. Means(t, v) <=> SameLead(t, v) /\ (a # X => Reaches(Lowest(t), v))
  BY DEF Means
<1>5. <<>> \in Labels
  BY ZeroIsLeast
<1>6. Triple(v) = <<a, b, c>> <=> p = a /\ q = b /\ r = c
  BY DEF Triple
<1>7. CASE a = X
  <2>0. SameLead(t, v)
    BY <1>7 DEF SameLead
  <2>1. Means(t, v)
    BY <1>4, <1>7, <2>0
  <2>2. BranchMatches(DesugarToken(t), v) <=> v[4] = <<>>
    BY <1>1, <1>2, <1>3, <1>5, <1>7, OneMatches DEF ReplaceCaret
  <2> QED
    BY <1>7, <2>1, <2>2, NamedIs, LowestIs
<1>8. CASE a # X /\ b = X
  <2>1. SameLead(t, v) <=> p = a
    BY <1>8 DEF SameLead
  <2>2. BranchMatches(DesugarToken(t), v) <=>
          Reaches(<<a, 0, 0, <<>>>>, v) /\ Lex(p, q, r, a + 1, 0, 0) /\ OwnRelease(v, a, 0, 0, <<>>)
    <3>1. ReplaceCaret(a, b, c, pre) = {From(a, 0, 0, <<>>), Below(a + 1, 0, 0)}
      BY <1>8 DEF ReplaceCaret
    <3>2. a \in Nat /\ a + 1 \in Nat /\ 0 \in Nat
      BY <1>1, <1>8
    <3> HIDE DEF a, b, c, pre, p, q, r
    <3>3. v \in Versions
      BY <1>2
    <3>4. BranchMatches(Collapsed({From(a, 0, 0, <<>>), Below(a + 1, 0, 0)}), v) <=>
            Reaches(<<a, 0, 0, <<>>>>, v) /\ Lex(v[1], v[2], v[3], a + 1, 0, 0) /\ OwnRelease(v, a, 0, 0, <<>>)
      BY <1>5, <3>2, <3>3, FromBelowMatches
    <3> QED
      BY <1>3, <3>1, <3>4 DEF p, q, r
  <2>3. PrereleaseNamed(t, v) <=> v[4] = <<>>
    BY <1>8, NamedIs, LowestIs
  <2>4. Lowest(t) = <<a, 0, 0, <<>>>>
    BY <1>8, LowestIs
  <2>5. Reaches(<<a, 0, 0, <<>>>>, v) => ~ Lex(p, q, r, a, 0, 0)
    <3>1. a \in Nat /\ 0 \in Nat
      BY <1>1, <1>8
    <3> HIDE DEF a
    <3> QED
      BY <1>2, <1>5, <3>1, ReachesIs
  <2> HIDE DEF a, b, c, p, q, r
  <2>6. ~ Lex(p, q, r, a, 0, 0) => (p = a <=> Lex(p, q, r, a + 1, 0, 0))
    BY <1>1, <1>2, <1>8 DEF Lex
  <2> QED
    BY <1>4, <1>8, <2>1, <2>2, <2>3, <2>4, <2>5, <2>6 DEF OwnRelease
<1>9. CASE a # X /\ b # X /\ c = X
  <2>1. SameLead(t, v) <=> IF a > 0 THEN p = a ELSE p = 0 /\ q = b
    BY <1>1, <1>9 DEF SameLead
  <2> DEFINE x == IF a = 0 THEN a ELSE a + 1
             y == IF a = 0 THEN b + 1 ELSE 0
  <2>0. a \in Nat /\ b \in Nat /\ x \in Nat /\ y \in Nat
    BY <1>1, <1>9
  <2>2. BranchMatches(DesugarToken(t), v) <=>
          Reaches(<<a, b, 0, <<>>>>, v) /\ Lex(p, q, r, x, y, 0) /\ OwnRelease(v, a, b, 0, <<>>)
    <3>1. ReplaceCaret(a, b, c, pre) = {From(a, b, 0, <<>>), Below(x, y, 0)}
      BY <1>9 DEF ReplaceCaret
    <3> HIDE DEF a, b, c, pre, p, q, r, x, y
    <3>2. v \in Versions /\ 0 \in Nat
      BY <1>2
    <3>3. BranchMatches(Collapsed({From(a, b, 0, <<>>), Below(x, y, 0)}), v) <=>
            Reaches(<<a, b, 0, <<>>>>, v) /\ Lex(v[1], v[2], v[3], x, y, 0) /\ OwnRelease(v, a, b, 0, <<>>)
      BY <1>5, <2>0, <3>2, FromBelowMatches
    <3> QED
      BY <1>3, <3>1, <3>3 DEF p, q, r
  <2>3. PrereleaseNamed(t, v) <=> v[4] = <<>>
    BY <1>9, NamedIs, LowestIs
  <2>4. Lowest(t) = <<a, b, 0, <<>>>>
    BY <1>9, LowestIs
  <2>5. Reaches(<<a, b, 0, <<>>>>, v) => ~ Lex(p, q, r, a, b, 0)
    BY <1>2, <1>5, <2>0, ReachesIs
  <2> HIDE DEF a, b, c, p, q, r
  <2>6. ~ Lex(p, q, r, a, b, 0) => ((IF a > 0 THEN p = a ELSE p = 0 /\ q = b) <=> Lex(p, q, r, x, y, 0))
    BY <1>2, <2>0 DEF Lex
  <2> QED
    BY <1>4, <1>9, <2>1, <2>2, <2>3, <2>4, <2>5, <2>6 DEF OwnRelease
<1>10. CASE a # X /\ b # X /\ c # X
  <2>1. SameLead(t, v) <=> IF a > 0 THEN p = a ELSE IF b > 0 THEN p = 0 /\ q = b ELSE p = a /\ q = b /\ r = c
    BY <1>1, <1>6, <1>10 DEF SameLead
  <2> DEFINE x == IF a > 0 THEN a + 1 ELSE a
             y == IF a > 0 THEN 0 ELSE IF b > 0 THEN b + 1 ELSE b
             z == IF a > 0 THEN 0 ELSE IF b > 0 THEN 0 ELSE c + 1
  <2>0. a \in Nat /\ b \in Nat /\ c \in Nat /\ x \in Nat /\ y \in Nat /\ z \in Nat
    BY <1>1, <1>10
  <2>2. BranchMatches(DesugarToken(t), v) <=>
          Reaches(<<a, b, c, pre>>, v) /\ Lex(p, q, r, x, y, z) /\ OwnRelease(v, a, b, c, pre)
    <3>1. ReplaceCaret(a, b, c, pre) = {From(a, b, c, pre), Below(x, y, z)}
      BY <1>10 DEF ReplaceCaret, CaretBelow
    <3> HIDE DEF a, b, c, pre, p, q, r, x, y, z
    <3>2. v \in Versions /\ pre \in Labels
      BY <1>1, <1>2
    <3>3. BranchMatches(Collapsed({From(a, b, c, pre), Below(x, y, z)}), v) <=>
            Reaches(<<a, b, c, pre>>, v) /\ Lex(v[1], v[2], v[3], x, y, z) /\ OwnRelease(v, a, b, c, pre)
      BY <2>0, <3>2, FromBelowMatches
    <3> QED
      BY <1>3, <3>1, <3>3 DEF p, q, r
  <2>3. PrereleaseNamed(t, v) <=> OwnRelease(v, a, b, c, pre)
    BY <1>10, NamedIs, LowestIs
  <2>4. Lowest(t) = <<a, b, c, pre>>
    BY <1>10, LowestIs
  <2>5. Reaches(<<a, b, c, pre>>, v) => ~ Lex(p, q, r, a, b, c)
    BY <1>1, <1>2, <2>0, ReachesIs
  <2> HIDE DEF a, b, c, pre, p, q, r
  <2>6. ~ Lex(p, q, r, a, b, c) =>
          ((IF a > 0 THEN p = a ELSE IF b > 0 THEN p = 0 /\ q = b ELSE p = a /\ q = b /\ r = c) <=> Lex(p, q, r, x, y, z))
    BY <1>2, <2>0 DEF Lex
  <2> QED
    BY <1>4, <1>10, <2>1, <2>2, <2>3, <2>4, <2>5, <2>6
<1> QED
  BY <1>7, <1>8, <1>9, <1>10

LEMMA TildeMeans ==
  ASSUME NEW t \in RangeToken, NEW v \in SemVersions, t.op = "~"
  PROVE  BranchMatches(DesugarToken(t), v) <=> Means(t, v) /\ PrereleaseNamed(t, v)
<1> DEFINE a == t.a
           b == t.b
           c == t.c
           pre == t.pre
           p == v[1]
           q == v[2]
           r == v[3]
<1>1. /\ a \in 0..MaxPart \/ a = X
      /\ b \in 0..MaxPart \/ b = X
      /\ c \in 0..MaxPart \/ c = X
      /\ pre \in Labels /\ X \in Nat /\ MaxPart < X /\ MaxPart \in Nat
  BY TokenIs
<1>2. v \in Versions /\ p \in 0..MaxPart /\ q \in 0..MaxPart /\ r \in 0..MaxPart
  BY SemVersionIs
<1>3. DesugarToken(t) = Collapsed(ReplaceTilde(a, b, c, pre))
  BY DEF DesugarToken
<1>4. Means(t, v) <=> (a = X \/ (p = a /\ (b = X \/ q = b))) /\ (a # X => Reaches(Lowest(t), v))
  BY DEF Means
<1>5. <<>> \in Labels
  BY ZeroIsLeast
<1>6. CASE a = X
  <2>1. BranchMatches(DesugarToken(t), v) <=> v[4] = <<>>
    BY <1>1, <1>2, <1>3, <1>5, <1>6, OneMatches DEF ReplaceTilde
  <2> QED
    BY <1>4, <1>6, <2>1, NamedIs, LowestIs
<1>7. CASE a # X /\ b = X
  <2>1. ReplaceTilde(a, b, c, pre) = {From(a, 0, 0, <<>>), Below(a + 1, 0, 0)}
    BY <1>7 DEF ReplaceTilde
  <2>2. a \in Nat /\ a + 1 \in Nat /\ 0 \in Nat
    BY <1>1, <1>7
  <2>3. PrereleaseNamed(t, v) <=> v[4] = <<>>
    BY <1>7, NamedIs, LowestIs
  <2>4. Lowest(t) = <<a, 0, 0, <<>>>>
    BY <1>7, LowestIs
  <2> HIDE DEF a, b, c, pre, p, q, r
  <2>5. BranchMatches(DesugarToken(t), v) <=>
          Reaches(<<a, 0, 0, <<>>>>, v) /\ Lex(p, q, r, a + 1, 0, 0) /\ OwnRelease(v, a, 0, 0, <<>>)
    <3>1. v \in Versions
      BY <1>2
    <3>2. BranchMatches(Collapsed({From(a, 0, 0, <<>>), Below(a + 1, 0, 0)}), v) <=>
            Reaches(<<a, 0, 0, <<>>>>, v) /\ Lex(v[1], v[2], v[3], a + 1, 0, 0) /\ OwnRelease(v, a, 0, 0, <<>>)
      BY <1>5, <2>2, <3>1, FromBelowMatches
    <3> QED
      BY <1>3, <2>1, <3>2 DEF p, q, r
  <2>6. Reaches(<<a, 0, 0, <<>>>>, v) => ~ Lex(p, q, r, a, 0, 0)
    BY <1>2, <1>5, <2>2, ReachesIs DEF p, q, r
  <2>7. ~ Lex(p, q, r, a, 0, 0) => (p = a <=> Lex(p, q, r, a + 1, 0, 0))
    BY <1>2, <2>2 DEF Lex
  <2> QED
    BY <1>4, <1>7, <2>3, <2>4, <2>5, <2>6, <2>7 DEF OwnRelease
<1>8. CASE a # X /\ b # X
  <2> DEFINE l == IF c = X THEN 0 ELSE c
             m == IF c = X THEN <<>> ELSE pre
  <2>1. ReplaceTilde(a, b, c, pre) = {From(a, b, l, m), Below(a, b + 1, 0)}
    BY <1>8 DEF ReplaceTilde
  <2>2. a \in Nat /\ b \in Nat /\ l \in Nat /\ m \in Labels /\ b + 1 \in Nat /\ 0 \in Nat
    BY <1>1, <1>5, <1>8
  <2>3. PrereleaseNamed(t, v) <=> OwnRelease(v, a, b, l, m)
    <3>1. CASE c = X
      <4>1. PrereleaseNamed(t, v) <=> v[4] = <<>>
        BY <1>8, <3>1, NamedIs, LowestIs
      <4> QED
        BY <3>1, <4>1 DEF OwnRelease
    <3>2. CASE c # X
      BY <1>8, <3>2, NamedIs, LowestIs
    <3> QED
      BY <3>1, <3>2
  <2>4. Lowest(t) = <<a, b, l, m>>
    BY <1>8, LowestIs
  <2> HIDE DEF a, b, c, pre, p, q, r, l, m
  <2>5. BranchMatches(DesugarToken(t), v) <=>
          Reaches(<<a, b, l, m>>, v) /\ Lex(p, q, r, a, b + 1, 0) /\ OwnRelease(v, a, b, l, m)
    <3>1. v \in Versions
      BY <1>2
    <3>2. BranchMatches(Collapsed({From(a, b, l, m), Below(a, b + 1, 0)}), v) <=>
            Reaches(<<a, b, l, m>>, v) /\ Lex(v[1], v[2], v[3], a, b + 1, 0) /\ OwnRelease(v, a, b, l, m)
      BY <2>2, <3>1, FromBelowMatches
    <3> QED
      BY <1>3, <2>1, <3>2 DEF p, q, r
  <2>6. Reaches(<<a, b, l, m>>, v) => ~ Lex(p, q, r, a, b, l)
    BY <1>2, <2>2, ReachesIs DEF p, q, r
  <2>7. ~ Lex(p, q, r, a, b, l) => ((p = a /\ q = b) <=> Lex(p, q, r, a, b + 1, 0))
    BY <1>2, <2>2 DEF Lex
  <2> QED
    BY <1>4, <1>8, <2>3, <2>4, <2>5, <2>6, <2>7
<1> QED
  BY <1>6, <1>7, <1>8

Comparisons == {"", "=", "<", "<=", ">", ">="}

LEMMA AllOpenMeans ==
  ASSUME NEW t \in RangeToken, NEW v \in SemVersions, t.op \in Comparisons, t.a = X
  PROVE  BranchMatches(DesugarToken(t), v) <=> Means(t, v) /\ PrereleaseNamed(t, v)
<1>1. DesugarToken(t) = Collapsed(IF t.op \in {">", "<"} THEN {Below(0, 0, 0)} ELSE {})
  BY DEF DesugarToken, ReplaceXRange, Comparisons
<1>2. v \in Versions /\ v[1] \in 0..MaxPart /\ v[2] \in 0..MaxPart /\ v[3] \in 0..MaxPart /\ <<>> \in Labels
  BY SemVersionIs, ZeroIsLeast
<1>3. ~ Full(t) /\ (PrereleaseNamed(t, v) <=> v[4] = <<>>)
  BY NamedIs, LowestIs
<1>4. CASE t.op \in {">", "<"}
  <2>1. ~ Means(t, v)
    BY <1>3, <1>4 DEF Means, Beyond, Short
  <2>2. ~ Lex(v[1], v[2], v[3], 0, 0, 0)
    BY <1>2, RangeAssumption DEF Lex
  <2>3. DesugarToken(t) = Collapsed({Below(0, 0, 0)})
    BY <1>1, <1>4
  <2> QED
    BY <1>2, <2>1, <2>2, <2>3, OneMatches
<1>5. CASE t.op \notin {">", "<"}
  <2>1. Means(t, v)
    BY <1>3, <1>5 DEF Means, Begins, Comparisons
  <2>2. DesugarToken(t) = Collapsed({})
    BY <1>1, <1>5
  <2> QED
    BY <1>2, <1>3, <2>1, <2>2, OneMatches
<1> QED
  BY <1>4, <1>5

LEMMA OpenMeans ==
  ASSUME NEW t \in RangeToken, NEW v \in SemVersions, t.op \in Comparisons, t.a # X, t.b = X \/ t.c = X
  PROVE  BranchMatches(DesugarToken(t), v) <=> Means(t, v) /\ PrereleaseNamed(t, v)
<1> DEFINE a == t.a
           b == t.b
           c == t.c
           p == v[1]
           q == v[2]
           r == v[3]
           f == IF b = X THEN 0 ELSE b
           m == IF b = X THEN a + 1 ELSE a
           n == IF b = X THEN 0 ELSE b + 1
<1>1. a \in Nat /\ f \in Nat /\ m \in Nat /\ n \in Nat /\ 0 \in Nat /\ (b = X \/ b \in Nat)
  <2>1. (a \in 0..MaxPart \/ a = X) /\ (b \in 0..MaxPart \/ b = X) /\ MaxPart \in Nat
    BY TokenIs
  <2> QED
    BY <2>1
<1>2. v \in Versions /\ p \in 0..MaxPart /\ q \in 0..MaxPart /\ r \in 0..MaxPart /\ <<>> \in Labels /\ MaxPart \in Nat
  BY SemVersionIs, ZeroIsLeast, RangeAssumption
<1>3. DesugarToken(t) = Collapsed(ReplaceOpen(t.op, a, b))
  BY DEF DesugarToken, ReplaceXRange, Comparisons
<1>4. ReplaceOpen(t.op, a, b) = CASE t.op = ">" -> {From(m, n, 0, <<>>)}
                                  [] t.op = ">=" -> {From(a, f, 0, <<>>)}
                                  [] t.op = "<=" -> {Below(m, n, 0)}
                                  [] t.op = "<" -> {Below(a, f, 0)}
                                  [] OTHER -> {From(a, f, 0, <<>>), Below(m, n, 0)}
  BY DEF ReplaceOpen
<1>5. ~ Full(t) /\ (PrereleaseNamed(t, v) <=> v[4] = <<>>)
  BY NamedIs, LowestIs
<1>6. Lowest(t) = <<a, f, 0, <<>>>>
  BY LowestIs
<1>7. /\ Begins(t, v) <=> p = a /\ (b = X \/ q = b)
      /\ Short(t, v) <=> Lex(p, q, r, a, f, 0)
      /\ Beyond(t, v) <=> Lex(a, f, 0, p, q, r) /\ ~ (p = a /\ (b = X \/ q = b))
  <2>1. Begins(t, v) <=> p = a /\ (b = X \/ q = b)
    BY DEF Begins
  <2>2. Triple(Lowest(t)) = <<a, f, 0>>
    BY <1>6 DEF Triple
  <2> HIDE DEF a, f, p, q, r
  <2>3. /\ LessIn(Triple(v), <<a, f, 0>>) <=> Lex(p, q, r, a, f, 0)
        /\ LessIn(<<a, f, 0>>, Triple(v)) <=> Lex(a, f, 0, p, q, r)
    BY <1>1, <1>2, BelowTriple DEF p, q, r
  <2> QED
    BY <2>1, <2>2, <2>3 DEF Short, Beyond, a
<1>8. /\ Reaches(<<a, f, 0, <<>>>>, v) => ~ Lex(p, q, r, a, f, 0)
      /\ v[4] = <<>> => (Reaches(<<a, f, 0, <<>>>>, v) <=> ~ Lex(p, q, r, a, f, 0))
      /\ Reaches(<<m, n, 0, <<>>>>, v) => ~ Lex(p, q, r, m, n, 0)
      /\ v[4] = <<>> => (Reaches(<<m, n, 0, <<>>>>, v) <=> ~ Lex(p, q, r, m, n, 0))
  <2> HIDE DEF a, f, m, n, p, q, r
  <2> QED
    BY <1>1, <1>2, ReachesIs DEF p, q, r
<1>9. /\ OwnRelease(v, a, f, 0, <<>>) <=> v[4] = <<>>
      /\ OwnRelease(v, m, n, 0, <<>>) <=> v[4] = <<>>
  BY DEF OwnRelease
<1>10. /\ Lex(a, f, 0, p, q, r) /\ ~ (p = a /\ (b = X \/ q = b)) <=> ~ Lex(p, q, r, m, n, 0)
       /\ ((p = a /\ (b = X \/ q = b)) \/ Lex(p, q, r, a, f, 0)) <=> Lex(p, q, r, m, n, 0)
       /\ (~ Lex(p, q, r, a, f, 0) /\ Lex(p, q, r, m, n, 0)) <=> (p = a /\ (b = X \/ q = b))
  <2>1. CASE b = X
    <3>1. f = 0 /\ m = a + 1 /\ n = 0
      BY <2>1
    <3> HIDE DEF a, b, f, m, n, p, q, r
    <3> QED
      BY <1>1, <1>2, <2>1, <3>1 DEF Lex
  <2>2. CASE b # X
    <3>1. f = b /\ m = a /\ n = b + 1
      BY <2>2
    <3> HIDE DEF a, b, f, m, n, p, q, r
    <3> QED
      BY <1>1, <1>2, <2>2, <3>1 DEF Lex
  <2> QED
    BY <2>1, <2>2
<1> HIDE DEF a, b, c, f, m, n, p, q, r
<1>11. /\ BranchMatches(Collapsed({From(a, f, 0, <<>>)}), v) <=> Reaches(<<a, f, 0, <<>>>>, v) /\ v[4] = <<>>
       /\ BranchMatches(Collapsed({From(m, n, 0, <<>>)}), v) <=> Reaches(<<m, n, 0, <<>>>>, v) /\ v[4] = <<>>
  BY <1>1, <1>2, <1>9, OneMatches
<1>12. /\ BranchMatches(Collapsed({Below(a, f, 0)}), v) <=> Lex(p, q, r, a, f, 0) /\ v[4] = <<>>
       /\ BranchMatches(Collapsed({Below(m, n, 0)}), v) <=> Lex(p, q, r, m, n, 0) /\ v[4] = <<>>
  BY <1>1, <1>2, OneMatches DEF p, q, r
<1>13. BranchMatches(Collapsed({From(a, f, 0, <<>>), Below(m, n, 0)}), v) <=>
         Reaches(<<a, f, 0, <<>>>>, v) /\ Lex(p, q, r, m, n, 0) /\ v[4] = <<>>
  BY <1>1, <1>2, <1>9, FromBelowMatches DEF p, q, r
<1>14. CASE t.op = ">"
  <2>1. Means(t, v) <=> Beyond(t, v)
    BY <1>5, <1>14 DEF Means
  <2>2. DesugarToken(t) = Collapsed({From(m, n, 0, <<>>)})
    BY <1>3, <1>4, <1>14
  <2> QED
    BY <1>5, <1>7, <1>8, <1>10, <1>11, <2>1, <2>2
<1>15. CASE t.op = ">="
  <2>1. Means(t, v) <=> Reaches(Lowest(t), v)
    BY <1>5, <1>15 DEF Means
  <2>2. DesugarToken(t) = Collapsed({From(a, f, 0, <<>>)})
    BY <1>3, <1>4, <1>15
  <2> QED
    BY <1>5, <1>6, <1>11, <2>1, <2>2
<1>16. CASE t.op = "<="
  <2>1. Means(t, v) <=> Begins(t, v) \/ Short(t, v)
    BY <1>5, <1>16 DEF Means
  <2>2. DesugarToken(t) = Collapsed({Below(m, n, 0)})
    BY <1>3, <1>4, <1>16
  <2> QED
    BY <1>5, <1>7, <1>10, <1>12, <2>1, <2>2
<1>17. CASE t.op = "<"
  <2>1. Means(t, v) <=> Short(t, v)
    BY <1>5, <1>17 DEF Means
  <2>2. DesugarToken(t) = Collapsed({Below(a, f, 0)})
    BY <1>3, <1>4, <1>17
  <2> QED
    BY <1>5, <1>7, <1>12, <2>1, <2>2
<1>18. CASE t.op \in {"", "="}
  <2>1. Means(t, v) <=> Begins(t, v)
    BY <1>5, <1>18 DEF Means
  <2>2. DesugarToken(t) = Collapsed({From(a, f, 0, <<>>), Below(m, n, 0)})
    BY <1>3, <1>4, <1>18
  <2> QED
    BY <1>5, <1>7, <1>8, <1>10, <1>13, <2>1, <2>2
<1> QED
  BY <1>14, <1>15, <1>16, <1>17, <1>18 DEF Comparisons

LEMMA FullMeans ==
  ASSUME NEW t \in RangeToken, NEW v \in SemVersions, t.op \in Comparisons, t.a # X, t.b # X, t.c # X
  PROVE  BranchMatches(DesugarToken(t), v) <=> Means(t, v) /\ PrereleaseNamed(t, v)
<1> DEFINE a == t.a
           b == t.b
           c == t.c
           pre == t.pre
           low == <<a, b, c, pre>>
           op == IF t.op = "" THEN "=" ELSE t.op
           bound == Bound(op, a, b, c, pre)
<1>1. a \in Nat /\ b \in Nat /\ c \in Nat /\ pre \in Labels
  <2>1. /\ a \in 0..MaxPart \/ a = X
        /\ b \in 0..MaxPart \/ b = X
        /\ c \in 0..MaxPart \/ c = X
        /\ pre \in Labels /\ MaxPart \in Nat
    BY TokenIs
  <2> QED
    BY <2>1
<1>2. v \in Versions
  BY SemVersionIs
<1>3. DesugarToken(t) = Collapsed({bound})
  BY DEF DesugarToken, ReplaceXRange, Comparisons
<1>4. Full(t) /\ Lowest(t) = low
  BY LowestIs
<1>5. PrereleaseNamed(t, v) <=> OwnRelease(v, a, b, c, pre)
  BY <1>4, NamedIs
<1>6. Opted({bound}, v) <=> PrereleaseNamed(t, v)
  <2> HIDE DEF a, b, c, pre, op
  <2> QED
    BY <1>1, <1>2, <1>5, BoundOpts
<1>7. Held({bound}, v) <=> Means(t, v)
  <2>1. bound.op = op /\ bound.version = low
    BY DEF Bound
  <2>2. Held({bound}, v) <=> bound = From(0, 0, 0, <<>>) \/ SatisfiesBound(bound, v)
    BY DEF Held
  <2>3. CASE t.op = ">="
    <3>1. bound = From(a, b, c, pre)
      BY <2>3 DEF From
    <3>2. Means(t, v) <=> Reaches(low, v)
      BY <1>4, <2>3 DEF Means
    <3> HIDE DEF a, b, c, pre, bound
    <3> QED
      BY <1>1, <1>2, <2>2, <3>1, <3>2, ReachesIs
  <2>4. CASE t.op # ">="
    <3>1. bound # From(0, 0, 0, <<>>)
      <4>1. From(0, 0, 0, <<>>).op = ">="
        BY DEF From, Bound
      <4> QED
        BY <2>1, <2>4, <4>1
    <3> HIDE DEF bound, low
    <3>2. CASE t.op \in {"", "="}
      <4>1. SatisfiesBound(bound, v) <=> v = low
        BY <2>1, <3>2 DEF SatisfiesBound
      <4>2. Means(t, v) <=> v = low
        BY <1>4, <3>2 DEF Means
      <4> QED
        BY <2>2, <3>1, <4>1, <4>2
    <3>3. CASE t.op = "<="
      <4>1. SatisfiesBound(bound, v) <=> AtMost(v, low)
        BY <2>1, <3>3 DEF SatisfiesBound, AtMost
      <4>2. Means(t, v) <=> AtMost(v, low)
        BY <1>4, <3>3 DEF Means
      <4> QED
        BY <2>2, <3>1, <4>1, <4>2
    <3>4. CASE t.op = ">"
      <4>1. SatisfiesBound(bound, v) <=> Less(low, v)
        BY <2>1, <3>4 DEF SatisfiesBound
      <4>2. Means(t, v) <=> Less(low, v)
        BY <1>4, <3>4 DEF Means
      <4> QED
        BY <2>2, <3>1, <4>1, <4>2
    <3>5. CASE t.op = "<"
      <4>1. SatisfiesBound(bound, v) <=> Less(v, low)
        BY <2>1, <3>5 DEF SatisfiesBound
      <4>2. Means(t, v) <=> Less(v, low)
        BY <1>4, <3>5 DEF Means
      <4> QED
        BY <2>2, <3>1, <4>1, <4>2
    <3> QED
      BY <2>4, <3>2, <3>3, <3>4, <3>5 DEF Comparisons
  <2> QED
    BY <2>3, <2>4
<1> QED
  BY <1>3, <1>6, <1>7, CollapsedMatches

\* A token of a range takes exactly the versions its notation means.
LEMMA TokenMeans ==
  ASSUME NEW t \in RangeToken, NEW v \in SemVersions
  PROVE  BranchMatches(DesugarToken(t), v) <=> Means(t, v) /\ PrereleaseNamed(t, v)
<1>1. t.op \in Comparisons \cup {"^", "~"}
  BY DEF RangeToken, Comparisons
<1> QED
  BY <1>1, CaretMeans, TildeMeans, AllOpenMeans, OpenMeans, FullMeans

-----------------------------------------------------------------------------
(* Hyphen ranges                                                           *)

LEMMA HyphenFromMeans ==
  ASSUME NEW t \in Plain, NEW v \in SemVersions
  PROVE  /\ Held(HyphenFrom(t), v) <=> Means([t EXCEPT !.op = ">="], v)
         /\ Opted(HyphenFrom(t), v) <=> PrereleaseNamed(t, v)
<1> DEFINE s == [t EXCEPT !.op = ">="]
<1>1. t \in RangeToken /\ s \in RangeToken /\ s.op = ">=" /\ s.a = t.a /\ s.b = t.b /\ s.c = t.c /\ s.pre = t.pre
  BY DEF Plain, RangeToken
<1> HIDE DEF s
<1>2. Lowest(s) = Lowest(t) /\ (Full(s) <=> Full(t))
  BY <1>1 DEF Lowest, Full
<1>3. Means(s, v) <=> (t.a = X \/ Reaches(Lowest(t), v))
  BY <1>1, <1>2, LowestIs DEF Means
<1>4. v \in Versions /\ <<>> \in Labels /\ t.pre \in Labels
  BY <1>1, SemVersionIs, ZeroIsLeast, TokenIs
<1>5. CASE t.a = X
  <2>1. HyphenFrom(t) = {}
    BY <1>5 DEF HyphenFrom
  <2>2. PrereleaseNamed(t, v) <=> v[4] = <<>>
    BY <1>1, <1>5, LowestIs, NamedIs
  <2> QED
    BY <1>3, <1>5, <2>1, <2>2, SidesMatch DEF s
<1>6. CASE t.a # X
  <2> DEFINE a == t.a
             b == IF t.b = X THEN 0 ELSE t.b
             c == IF t.b = X \/ t.c = X THEN 0 ELSE t.c
             pre == IF t.b = X \/ t.c = X THEN <<>> ELSE t.pre
  <2>1. a \in Nat /\ b \in Nat /\ c \in Nat /\ pre \in Labels
    <3>1. /\ t.a \in 0..MaxPart \/ t.a = X
          /\ t.b \in 0..MaxPart \/ t.b = X
          /\ t.c \in 0..MaxPart \/ t.c = X
          /\ MaxPart \in Nat
      BY <1>1, TokenIs
    <3> QED
      BY <1>4, <1>6, <3>1
  <2>2. HyphenFrom(t) = {From(a, b, c, pre)}
    BY <1>6 DEF HyphenFrom
  <2>3. Lowest(t) = <<a, b, c, pre>>
    BY <1>1, <1>6, LowestIs
  <2>4. PrereleaseNamed(t, v) <=> OwnRelease(v, a, b, c, pre)
    <3>1. CASE t.b = X \/ t.c = X
      <4>1. PrereleaseNamed(t, v) <=> v[4] = <<>>
        BY <1>1, <3>1, LowestIs, NamedIs
      <4> QED
        BY <3>1, <4>1 DEF OwnRelease
    <3>2. CASE t.b # X /\ t.c # X
      BY <1>1, <1>6, <3>2, LowestIs, NamedIs
    <3> QED
      BY <3>1, <3>2
  <2> HIDE DEF a, b, c, pre
  <2> QED
    BY <1>3, <1>4, <1>6, <2>1, <2>2, <2>3, <2>4, FromMatches DEF s
<1> QED
  BY <1>5, <1>6

LEMMA HyphenToMeans ==
  ASSUME NEW t \in Plain, NEW v \in SemVersions
  PROVE  /\ Held(HyphenTo(t), v) <=> Means([t EXCEPT !.op = "<="], v)
         /\ Held(HyphenTo(t), v) => (Opted(HyphenTo(t), v) <=> PrereleaseNamed(t, v))
<1> DEFINE s == [t EXCEPT !.op = "<="]
<1>1. t \in RangeToken /\ s \in RangeToken /\ s.op = "<=" /\ s.a = t.a /\ s.b = t.b /\ s.c = t.c /\ s.pre = t.pre
  BY DEF Plain, RangeToken
<1> HIDE DEF s
<1>2. Full(s) <=> Full(t)
  BY <1>1 DEF Full
<1>5. v \in Versions /\ <<>> \in Labels
  BY SemVersionIs, ZeroIsLeast
<1>6. /\ t.a \in 0..MaxPart \/ t.a = X
      /\ t.b \in 0..MaxPart \/ t.b = X
      /\ t.c \in 0..MaxPart \/ t.c = X
      /\ t.pre \in Labels /\ MaxPart \in Nat
  BY <1>1, TokenIs
<1>7. CASE t.a = X
  <2>1. HyphenTo(t) = {} /\ ~ Full(s) /\ ~ Full(t)
    BY <1>1, <1>7 DEF HyphenTo, Full
  <2>2. Means(s, v)
    BY <1>1, <1>7, <2>1 DEF Means
  <2>3. PrereleaseNamed(t, v) <=> v[4] = <<>>
    BY <1>1, <2>1, NamedIs
  <2> QED
    BY <2>1, <2>2, <2>3, SidesMatch DEF s
<1>8. CASE t.a # X /\ (t.b = X \/ t.c = X)
  <2> DEFINE a == t.a
             b == t.b
             p == v[1]
             q == v[2]
             r == v[3]
             f == IF b = X THEN 0 ELSE b
             m == IF b = X THEN a + 1 ELSE a
             n == IF b = X THEN 0 ELSE b + 1
  <2>1. HyphenTo(t) = {Below(m, n, 0)} /\ ~ Full(s) /\ ~ Full(t)
    BY <1>1, <1>8 DEF HyphenTo, Full
  <2>2. m \in Nat /\ n \in Nat /\ a \in Nat /\ f \in Nat /\ 0 \in Nat
    BY <1>6, <1>8
  <2>3. PrereleaseNamed(t, v) <=> v[4] = <<>>
    BY <1>1, <2>1, NamedIs
  <2>4. Means(s, v) <=> Begins(s, v) \/ Short(s, v)
    BY <1>1, <1>8, <2>1 DEF Means
  <2>5. Begins(s, v) <=> p = a /\ (b = X \/ q = b)
    BY <1>1, <1>8 DEF Begins
  <2>6. Short(s, v) <=> Lex(p, q, r, a, f, 0)
    <3>1. Lowest(s) = <<a, f, 0, <<>>>>
      BY <1>1, <1>8, LowestIs
    <3>2. Triple(Lowest(s)) = <<a, f, 0>>
      BY <3>1 DEF Triple
    <3> HIDE DEF a, f, p, q, r
    <3>3. LessIn(Triple(v), <<a, f, 0>>) <=> Lex(p, q, r, a, f, 0)
      BY <1>5, <2>2, BelowTriple DEF p, q, r
    <3> QED
      BY <1>1, <1>8, <3>2, <3>3 DEF Short
  <2>7. p \in 0..MaxPart /\ q \in 0..MaxPart /\ r \in 0..MaxPart
    BY SemVersionIs
  <2>8. ((p = a /\ (b = X \/ q = b)) \/ Lex(p, q, r, a, f, 0)) <=> Lex(p, q, r, m, n, 0)
    <3>1. CASE b = X
      <4>1. f = 0 /\ m = a + 1 /\ n = 0
        BY <3>1
      <4> HIDE DEF a, b, f, m, n, p, q, r
      <4> QED
        BY <1>6, <2>2, <2>7, <3>1, <4>1 DEF Lex
    <3>2. CASE b # X
      <4>1. f = b /\ m = a /\ n = b + 1
        BY <3>2
      <4> HIDE DEF a, b, f, m, n, p, q, r
      <4> QED
        BY <1>6, <2>2, <2>7, <3>2, <4>1 DEF Lex
    <3> QED
      BY <3>1, <3>2
  <2> HIDE DEF a, b, f, m, n, p, q, r
  <2>9. /\ Held({Below(m, n, 0)}, v) <=> Lex(p, q, r, m, n, 0)
        /\ Held({Below(m, n, 0)}, v) => (Opted({Below(m, n, 0)}, v) <=> v[4] = <<>>)
    BY <1>5, <2>2, BelowMatches DEF p, q, r
  <2> QED
    BY <2>1, <2>3, <2>4, <2>5, <2>6, <2>8, <2>9 DEF s
<1>9. CASE t.a # X /\ t.b # X /\ t.c # X
  <2> DEFINE a == t.a
             b == t.b
             c == t.c
             pre == t.pre
             low == <<a, b, c, pre>>
             bound == Bound("<=", a, b, c, pre)
  <2>1. HyphenTo(t) = {bound}
    BY <1>9 DEF HyphenTo
  <2>2. a \in Nat /\ b \in Nat /\ c \in Nat /\ pre \in Labels
    BY <1>6, <1>9
  <2>3. Full(t) /\ Full(s) /\ Lowest(s) = low
    BY <1>1, <1>9, LowestIs
  <2>4. PrereleaseNamed(t, v) <=> OwnRelease(v, a, b, c, pre)
    BY <1>1, <2>3, NamedIs
  <2>5. Means(s, v) <=> AtMost(v, low)
    BY <1>1, <2>3 DEF Means
  <2>6. Held({bound}, v) <=> AtMost(v, low)
    <3>1. bound # From(0, 0, 0, <<>>)
      BY DEF From, Bound
    <3>2. SatisfiesBound(bound, v) <=> AtMost(v, low)
      BY DEF SatisfiesBound, Bound, AtMost
    <3> HIDE DEF bound, low
    <3> QED
      BY <3>1, <3>2 DEF Held
  <2>7. Opted({bound}, v) <=> OwnRelease(v, a, b, c, pre)
    <3> HIDE DEF a, b, c, pre
    <3> QED
      BY <1>5, <2>2, BoundOpts
  <2> HIDE DEF bound, low
  <2> QED
    BY <2>1, <2>4, <2>5, <2>6, <2>7 DEF s
<1> QED
  BY <1>7, <1>8, <1>9

\* A hyphen range takes exactly the versions between its ends.
LEMMA HyphenMeans ==
  ASSUME NEW from \in Plain, NEW to \in Plain, NEW v \in SemVersions
  PROVE  BranchMatches(ReplaceHyphen(from, to), v) <=>
           /\ Means([from EXCEPT !.op = ">="], v) /\ Means([to EXCEPT !.op = "<="], v)
           /\ PrereleaseNamed(from, v) \/ PrereleaseNamed(to, v)
<1>1. BranchMatches(ReplaceHyphen(from, to), v) <=>
        (Held(HyphenFrom(from), v) /\ Held(HyphenTo(to), v)) /\ (Opted(HyphenFrom(from), v) \/ Opted(HyphenTo(to), v))
  BY CollapsedMatches, SidesMatch DEF ReplaceHyphen
<1> QED
  BY <1>1, HyphenFromMeans, HyphenToMeans

-----------------------------------------------------------------------------
(* Constraints                                                             *)

Points == {2, 4, 6}
Clauses == UNION {[1..n -> Clause] : n \in 1..MaxClauses}
Meets(clauses, v) == \A i \in DOMAIN clauses : EvalClause(clauses[i], v)
AboveAll(clauses, v) == (\A x \in AtOf(clauses, ">") : v > x) /\ (\A x \in AtOf(clauses, ">=") : v >= x)
BelowAll(clauses, v) == (\A x \in AtOf(clauses, "<") : v < x) /\ (\A x \in AtOf(clauses, "<=") : v <= x)

LEMMA ClausesAre ==
  ASSUME NEW clauses \in Clauses, NEW op
  PROVE  AtOf(clauses, op) \subseteq Points /\ IsFiniteSet(AtOf(clauses, op)) /\ AtOf(clauses, op) \subseteq Nat
<1>1. PICK n \in 1..MaxClauses : clauses \in [1..n -> Clause]
  BY DEF Clauses
<1>2. \A i \in DOMAIN clauses : clauses[i].at \in Points
  BY <1>1 DEF Clause, Points
<1>3. AtOf(clauses, op) \subseteq Points
  BY <1>2 DEF AtOf
<1>4. IsFiniteSet(Points)
  <2>1. 2 \in Int /\ 6 \in Int
    OBVIOUS
  <2>2. IsFiniteSet(2..6)
    BY <2>1, FS_Interval, Zenon
  <2>3. Points \subseteq 2..6
    BY DEF Points
  <2> QED
    BY <2>2, <2>3, FS_Subset
<1> QED
  BY <1>3, <1>4, FS_Subset DEF Points

LEMMA MeetsIs ==
  ASSUME NEW clauses \in Clauses, NEW v \in Nat
  PROVE  Meets(clauses, v) <=> (\A e \in AtOf(clauses, "==") : v = e) /\ AboveAll(clauses, v) /\ BelowAll(clauses, v)
<1>1. PICK n \in 1..MaxClauses : clauses \in [1..n -> Clause]
  BY DEF Clauses
<1>2. \A i \in DOMAIN clauses : clauses[i].op \in {"==", ">", ">=", "<", "<="}
  BY <1>1 DEF Clause
<1>3. ASSUME NEW i \in DOMAIN clauses
      PROVE  EvalClause(clauses[i], v) <=> /\ clauses[i].op = "==" => v = clauses[i].at
                                           /\ clauses[i].op = ">" => v > clauses[i].at
                                           /\ clauses[i].op = ">=" => v >= clauses[i].at
                                           /\ clauses[i].op = "<" => v < clauses[i].at
                                           /\ clauses[i].op = "<=" => v <= clauses[i].at
  BY <1>2 DEF EvalClause
<1>4. \A x, op : x \in AtOf(clauses, op) <=> \E i \in DOMAIN clauses : clauses[i].op = op /\ clauses[i].at = x
  BY DEF AtOf
<1> QED
  BY <1>3, <1>4 DEF Meets, AboveAll, BelowAll

LEMMA LowerIs ==
  ASSUME NEW clauses \in Clauses, HasLower(clauses)
  PROVE  /\ Lower(clauses).at \in Points /\ Lower(clauses).inclusive \in BOOLEAN
         /\ \A v \in Nat : AboveAll(clauses, v) <=>
              v > Lower(clauses).at \/ (v = Lower(clauses).at /\ Lower(clauses).inclusive)
<1> DEFINE strict == AtOf(clauses, ">")
           loose == AtOf(clauses, ">=")
           low == Lower(clauses)
           S == Max(strict)
           L == Max(loose)
<1>1. /\ strict \subseteq Points /\ IsFiniteSet(strict) /\ strict \subseteq Nat
      /\ loose \subseteq Points /\ IsFiniteSet(loose) /\ loose \subseteq Nat
      /\ strict # {} \/ loose # {}
  BY ClausesAre DEF HasLower
<1>2. /\ strict # {} => S \in strict /\ \A y \in strict : S >= y
      /\ loose # {} => L \in loose /\ \A y \in loose : L >= y
  BY <1>1, GreatestIs
<1>3. low = IF strict # {} /\ (loose = {} \/ S >= L) THEN [at |-> S, inclusive |-> FALSE]
            ELSE [at |-> L, inclusive |-> TRUE]
  BY DEF Lower
<1>4. \A v : AboveAll(clauses, v) <=> (\A x \in strict : v > x) /\ (\A x \in loose : v >= x)
  BY DEF AboveAll
<1>5. Points \subseteq Nat
  BY DEF Points
<1> HIDE DEF strict, loose, low, S, L
<1>6. CASE strict # {} /\ (loose = {} \/ S >= L)
  <2>1. low.at = S /\ low.inclusive = FALSE
    BY <1>3, <1>6
  <2>2. S \in Points
    BY <1>1, <1>2, <1>6
  <2>3. \A v \in Nat : AboveAll(clauses, v) <=> v > S
    <3> TAKE v \in Nat
    <3>1. v > S => AboveAll(clauses, v)
      <4> SUFFICES ASSUME v > S PROVE (\A x \in strict : v > x) /\ (\A x \in loose : v >= x)
        BY <1>4
      <4>1. S \in Nat /\ (loose # {} => L \in Nat)
        BY <1>1, <1>2, <1>6
      <4>2. \A x \in strict : v > x
        BY <1>1, <1>2, <1>6, <4>1
      <4>3. \A x \in loose : v >= x
        BY <1>1, <1>2, <1>6, <4>1
      <4> QED
        BY <4>2, <4>3
    <3>2. AboveAll(clauses, v) => v > S
      BY <1>2, <1>4, <1>6
    <3> QED
      BY <3>1, <3>2
  <2> QED
    BY <2>1, <2>2, <2>3 DEF low
<1>7. CASE ~ (strict # {} /\ (loose = {} \/ S >= L))
  <2>1. low.at = L /\ low.inclusive = TRUE
    BY <1>3, <1>7
  <2>2. loose # {} /\ L \in Points /\ (strict # {} => ~ (S >= L))
    BY <1>1, <1>2, <1>7
  <2>3. \A v \in Nat : AboveAll(clauses, v) <=> v >= L
    <3> TAKE v \in Nat
    <3>1. v >= L => AboveAll(clauses, v)
      <4> SUFFICES ASSUME v >= L PROVE (\A x \in strict : v > x) /\ (\A x \in loose : v >= x)
        BY <1>4
      <4>1. L \in Nat /\ (strict # {} => S \in Nat)
        BY <1>1, <1>2, <2>2
      <4>2. \A x \in strict : v > x
        BY <1>1, <1>2, <2>2, <4>1
      <4>3. \A x \in loose : v >= x
        BY <1>1, <1>2, <2>2, <4>1
      <4> QED
        BY <4>2, <4>3
    <3>2. AboveAll(clauses, v) => v >= L
      BY <1>2, <1>4, <2>2
    <3> QED
      BY <3>1, <3>2
  <2>4. \A v \in Nat : v >= L <=> v > L \/ v = L
    BY <1>5, <2>2
  <2> QED
    BY <2>1, <2>2, <2>3, <2>4 DEF low
<1> QED
  BY <1>6, <1>7

LEMMA UpperIs ==
  ASSUME NEW clauses \in Clauses, HasUpper(clauses)
  PROVE  /\ Upper(clauses).at \in Points /\ Upper(clauses).inclusive \in BOOLEAN
         /\ \A v \in Nat : BelowAll(clauses, v) <=>
              v < Upper(clauses).at \/ (v = Upper(clauses).at /\ Upper(clauses).inclusive)
<1> DEFINE strict == AtOf(clauses, "<")
           loose == AtOf(clauses, "<=")
           upp == Upper(clauses)
           S == Min(strict)
           L == Min(loose)
<1>1. /\ strict \subseteq Points /\ strict \subseteq Nat
      /\ loose \subseteq Points /\ loose \subseteq Nat
      /\ strict # {} \/ loose # {}
  BY ClausesAre DEF HasUpper
<1>2. /\ strict # {} => S \in strict /\ \A y \in strict : S <= y
      /\ loose # {} => L \in loose /\ \A y \in loose : L <= y
  BY <1>1, LeastIs
<1>3. upp = IF strict # {} /\ (loose = {} \/ S <= L) THEN [at |-> S, inclusive |-> FALSE]
            ELSE [at |-> L, inclusive |-> TRUE]
  BY DEF Upper
<1>4. \A v : BelowAll(clauses, v) <=> (\A x \in strict : v < x) /\ (\A x \in loose : v <= x)
  BY DEF BelowAll
<1>5. Points \subseteq Nat
  BY DEF Points
<1> HIDE DEF strict, loose, upp, S, L
<1>6. CASE strict # {} /\ (loose = {} \/ S <= L)
  <2>1. upp.at = S /\ upp.inclusive = FALSE
    BY <1>3, <1>6
  <2>2. S \in Points
    BY <1>1, <1>2, <1>6
  <2>3. \A v \in Nat : BelowAll(clauses, v) <=> v < S
    <3> TAKE v \in Nat
    <3>1. v < S => BelowAll(clauses, v)
      <4> SUFFICES ASSUME v < S PROVE (\A x \in strict : v < x) /\ (\A x \in loose : v <= x)
        BY <1>4
      <4>1. S \in Nat /\ (loose # {} => L \in Nat)
        BY <1>1, <1>2, <1>6
      <4>2. \A x \in strict : v < x
        BY <1>1, <1>2, <1>6, <4>1
      <4>3. \A x \in loose : v <= x
        BY <1>1, <1>2, <1>6, <4>1
      <4> QED
        BY <4>2, <4>3
    <3>2. BelowAll(clauses, v) => v < S
      BY <1>2, <1>4, <1>6
    <3> QED
      BY <3>1, <3>2
  <2> QED
    BY <2>1, <2>2, <2>3 DEF upp
<1>7. CASE ~ (strict # {} /\ (loose = {} \/ S <= L))
  <2>1. upp.at = L /\ upp.inclusive = TRUE
    BY <1>3, <1>7
  <2>2. loose # {} /\ L \in Points /\ (strict # {} => ~ (S <= L))
    BY <1>1, <1>2, <1>7
  <2>3. \A v \in Nat : BelowAll(clauses, v) <=> v <= L
    <3> TAKE v \in Nat
    <3>1. v <= L => BelowAll(clauses, v)
      <4> SUFFICES ASSUME v <= L PROVE (\A x \in strict : v < x) /\ (\A x \in loose : v <= x)
        BY <1>4
      <4>1. L \in Nat /\ (strict # {} => S \in Nat)
        BY <1>1, <1>2, <2>2
      <4>2. \A x \in strict : v < x
        BY <1>1, <1>2, <2>2, <4>1
      <4>3. \A x \in loose : v <= x
        BY <1>1, <1>2, <2>2, <4>1
      <4> QED
        BY <4>2, <4>3
    <3>2. BelowAll(clauses, v) => v <= L
      BY <1>2, <1>4, <2>2
    <3> QED
      BY <3>1, <3>2
  <2>4. \A v \in Nat : v <= L <=> v < L \/ v = L
    BY <1>5, <2>2
  <2> QED
    BY <2>1, <2>2, <2>3, <2>4 DEF upp
<1> QED
  BY <1>6, <1>7

LEMMA SeveralAre ==
  ASSUME NEW S, IsFiniteSet(S) PROVE Cardinality(S) > 1 <=> \E x, y \in S : x # y
<1>1. Cardinality(S) \in Nat /\ (Cardinality(S) = 0 <=> S = {}) /\ (Cardinality(S) = 1 <=> \E x : S = {x})
  BY FS_CardinalityType, FS_EmptySet, FS_Singleton
<1>2. (\E x, y \in S : x # y) <=> S # {} /\ ~ \E x : S = {x}
  OBVIOUS
<1> QED
  BY <1>1, <1>2

\* The constraints of the inventory (validate_constraint_consistency) are
\* refused exactly when no version meets all their clauses.
LEMMA ContradictsIs ==
  ASSUME NEW clauses \in Clauses PROVE Contradicts(clauses) <=> ~ \E v \in 1..7 : Meets(clauses, v)
<1> DEFINE equal == AtOf(clauses, "==")
           low == Lower(clauses)
           upp == Upper(clauses)
           AboveLow(v) == v > low.at \/ (v = low.at /\ low.inclusive)
           BelowUpp(v) == v < upp.at \/ (v = upp.at /\ upp.inclusive)
<1>1. /\ equal \subseteq Points /\ IsFiniteSet(equal)
      /\ Points \subseteq Nat /\ Points = {2, 4, 6}
  BY ClausesAre DEF Points
<1>2. HasLower(clauses) => /\ low.at \in Points /\ low.inclusive \in BOOLEAN
                           /\ \A v \in Nat : AboveAll(clauses, v) <=> AboveLow(v)
  BY LowerIs
<1>3. HasUpper(clauses) => /\ upp.at \in Points /\ upp.inclusive \in BOOLEAN
                           /\ \A v \in Nat : BelowAll(clauses, v) <=> BelowUpp(v)
  BY UpperIs
<1>4. /\ ~ HasLower(clauses) => \A v : AboveAll(clauses, v)
      /\ ~ HasUpper(clauses) => \A v : BelowAll(clauses, v)
  BY DEF HasLower, HasUpper, AboveAll, BelowAll
<1>5. \A v \in Nat : Meets(clauses, v) <=> (\A e \in equal : v = e) /\ AboveAll(clauses, v) /\ BelowAll(clauses, v)
  BY MeetsIs
<1>6. \A e \in AtOf(clauses, ">") \cup AtOf(clauses, "<") : ~ (AboveAll(clauses, e) /\ BelowAll(clauses, e))
  <2>1. AtOf(clauses, ">") \subseteq Nat /\ AtOf(clauses, "<") \subseteq Nat
    BY ClausesAre
  <2> QED
    BY <2>1 DEF AboveAll, BelowAll
<1>7. Contradicts(clauses) <=>
        \/ \E x, y \in equal : x # y
        \/ \E e \in equal : \/ HasLower(clauses) /\ (e < low.at \/ (e = low.at /\ ~ low.inclusive))
                            \/ HasUpper(clauses) /\ (e > upp.at \/ (e = upp.at /\ ~ upp.inclusive))
                            \/ e \in AtOf(clauses, ">") \cup AtOf(clauses, "<")
        \/ /\ HasLower(clauses) /\ HasUpper(clauses)
           /\ low.at > upp.at \/ (low.at = upp.at /\ (~ low.inclusive \/ ~ upp.inclusive))
  BY <1>1, SeveralAre DEF Contradicts, Exclude
<1> HIDE DEF equal, low, upp
<1>8. ASSUME Contradicts(clauses), NEW v \in 1..7, Meets(clauses, v) PROVE FALSE
  <2>1. /\ \A e \in equal : v = e
        /\ AboveAll(clauses, v) /\ BelowAll(clauses, v) /\ v \in Nat
    BY <1>5, <1>8
  <2>2. HasLower(clauses) => low.at \in Nat /\ AboveLow(v)
    BY <1>1, <1>2, <2>1
  <2>3. HasUpper(clauses) => upp.at \in Nat /\ BelowUpp(v)
    BY <1>1, <1>3, <2>1
  <2>4. CASE \E x, y \in equal : x # y
    BY <2>1, <2>4
  <2>5. CASE \E e \in equal : \/ HasLower(clauses) /\ (e < low.at \/ (e = low.at /\ ~ low.inclusive))
                              \/ HasUpper(clauses) /\ (e > upp.at \/ (e = upp.at /\ ~ upp.inclusive))
                              \/ e \in AtOf(clauses, ">") \cup AtOf(clauses, "<")
    BY <1>6, <2>1, <2>2, <2>3, <2>5
  <2>6. CASE /\ HasLower(clauses) /\ HasUpper(clauses)
             /\ low.at > upp.at \/ (low.at = upp.at /\ (~ low.inclusive \/ ~ upp.inclusive))
    BY <2>1, <2>2, <2>3, <2>6
  <2> QED
    BY <1>7, <1>8, <2>4, <2>5, <2>6
<1>9. ASSUME ~ Contradicts(clauses) PROVE \E v \in 1..7 : Meets(clauses, v)
  <2>1. CASE equal # {}
    <3>1. PICK e \in equal : TRUE
      BY <2>1
    <3>2. e \in 1..7 /\ e \in Nat
      BY <1>1, <3>1
    <3>3. HasLower(clauses) => ~ (e < low.at) /\ ~ (e = low.at /\ ~ low.inclusive) /\ low.at \in Nat /\ low.inclusive \in BOOLEAN
      BY <1>1, <1>2, <1>7, <1>9, <3>1
    <3>4. HasUpper(clauses) => ~ (e > upp.at) /\ ~ (e = upp.at /\ ~ upp.inclusive) /\ upp.at \in Nat /\ upp.inclusive \in BOOLEAN
      BY <1>1, <1>3, <1>7, <1>9, <3>1
    <3>5. AboveAll(clauses, e)
      BY <1>2, <1>4, <3>2, <3>3
    <3>6. BelowAll(clauses, e)
      BY <1>3, <1>4, <3>2, <3>4
    <3>7. \A f \in equal : e = f
      BY <1>7, <1>9, <3>1
    <3> QED
      BY <1>5, <3>2, <3>5, <3>6, <3>7
  <2>2. CASE equal = {} /\ HasLower(clauses) /\ HasUpper(clauses)
    <3>1. low.at \in Points /\ upp.at \in Points /\ low.inclusive \in BOOLEAN /\ upp.inclusive \in BOOLEAN
      BY <1>2, <1>3, <2>2
    <3>2. low.at < upp.at \/ (low.at = upp.at /\ low.inclusive /\ upp.inclusive)
      BY <1>1, <1>7, <1>9, <2>2, <3>1
    <3>3. CASE low.at < upp.at
      <4>1. low.at + 1 \in 1..7 /\ low.at + 1 \in Nat /\ low.at + 1 > low.at /\ low.at + 1 < upp.at
        BY <1>1, <3>1, <3>3
      <4>2. AboveAll(clauses, low.at + 1) /\ BelowAll(clauses, low.at + 1)
        BY <1>2, <1>3, <2>2, <4>1
      <4> QED
        BY <1>5, <2>2, <4>1, <4>2
    <3>4. CASE low.at = upp.at /\ low.inclusive /\ upp.inclusive
      <4>1. low.at \in 1..7 /\ low.at \in Nat
        BY <1>1, <3>1
      <4>2. AboveAll(clauses, low.at) /\ BelowAll(clauses, low.at)
        BY <1>2, <1>3, <2>2, <3>4, <4>1
      <4> QED
        BY <1>5, <2>2, <4>1, <4>2
    <3> QED
      BY <3>2, <3>3, <3>4
  <2>3. CASE equal = {} /\ ~ HasUpper(clauses)
    <3>1. AboveAll(clauses, 7)
      <4>1. HasLower(clauses) => low.at \in Points
        BY <1>2
      <4>2. HasLower(clauses) => 7 > low.at
        BY <1>1, <4>1
      <4> QED
        BY <1>2, <1>4, <4>2
    <3> QED
      BY <1>4, <1>5, <2>3, <3>1
  <2>4. CASE equal = {} /\ ~ HasLower(clauses)
    <3>1. BelowAll(clauses, 1)
      <4>1. HasUpper(clauses) => upp.at \in Points
        BY <1>3
      <4>2. HasUpper(clauses) => 1 < upp.at
        BY <1>1, <4>1
      <4> QED
        BY <1>3, <1>4, <4>2
    <3> QED
      BY <1>4, <1>5, <2>4, <3>1
  <2> QED
    BY <2>1, <2>2, <2>3, <2>4
<1> QED
  BY <1>8, <1>9

-----------------------------------------------------------------------------
(* The questions and what they are answered                                *)

LEMMA OrderMeans ==
  ASSUME NEW v \in SemVersions, NEW w \in SemVersions
  PROVE  /\ v = w <=> (Less(v, w) <=> Less(w, v))
         /\ \A u \in SemVersions : Less(u, v) /\ Less(v, w) => Less(u, w)
<1>1. v \in Versions /\ w \in Versions
  BY SemVersionIs
<1>2. ~ Less(v, v) /\ (v # w => Less(v, w) \/ Less(w, v))
  BY <1>1, PrecedenceOrders
<1>3. Less(v, w) /\ Less(w, v) => Less(v, v)
  BY <1>1, PrecedenceOrders
<1>4. ASSUME NEW u \in SemVersions PROVE Less(u, v) /\ Less(v, w) => Less(u, w)
  <2>1. u \in Versions
    BY SemVersionIs
  <2> QED
    BY <1>1, <2>1, PrecedenceOrders
<1> QED
  BY <1>2, <1>3, <1>4

LEMMA AnyQuestion == RangeInit => VersionsSound
<1>1. CASE query \in [kind : {"order"}, v : SemVersions, w : SemVersions]
  <2>1. query.kind = "order" /\ query.v \in SemVersions /\ query.w \in SemVersions
    BY <1>1
  <2>2. /\ query.v = query.w <=> (Less(query.v, query.w) <=> Less(query.w, query.v))
        /\ \A u \in SemVersions : Less(u, query.v) /\ Less(query.v, query.w) => Less(u, query.w)
    BY <2>1, OrderMeans
  <2> QED
    BY <2>1, <2>2 DEF VersionsSound
<1>2. CASE query \in [kind : {"token"}, token : RangeToken]
  <2>1. query.kind = "token" /\ query.token \in RangeToken
    BY <1>2
  <2>2. \A v \in SemVersions :
          BranchMatches(DesugarToken(query.token), v) <=> Means(query.token, v) /\ PrereleaseNamed(query.token, v)
    BY <2>1, TokenMeans
  <2> QED
    BY <2>1, <2>2 DEF VersionsSound
<1>3. CASE query \in [kind : {"hyphen"}, from : Plain, to : Plain]
  <2>1. query.kind = "hyphen" /\ query.from \in Plain /\ query.to \in Plain
    BY <1>3
  <2>2. \A v \in SemVersions :
          BranchMatches(ReplaceHyphen(query.from, query.to), v) <=>
            /\ Means([query.from EXCEPT !.op = ">="], v) /\ Means([query.to EXCEPT !.op = "<="], v)
            /\ PrereleaseNamed(query.from, v) \/ PrereleaseNamed(query.to, v)
    BY <2>1, HyphenMeans
  <2> QED
    BY <2>1, <2>2 DEF VersionsSound
<1>4. CASE query \in [kind : {"constraint"}, clauses : Clauses]
  <2>1. query.kind = "constraint" /\ query.clauses \in Clauses
    BY <1>4
  <2>2. Contradicts(query.clauses) <=>
          ~ \E v \in 1..7 : \A i \in DOMAIN query.clauses : EvalClause(query.clauses[i], v)
    BY <2>1, ContradictsIs DEF Meets
  <2> QED
    BY <2>1, <2>2 DEF VersionsSound
<1> QED
  BY <1>1, <1>2, <1>3, <1>4 DEF RangeInit, Clauses

\* The versions mean what their notation promises: their precedence is a total
\* order (semver.py), a token and a hyphen range take exactly the versions npm
\* says (semver_range.py), and a constraint is refused exactly when nothing
\* could satisfy it (constraints.py), for parts of any size, any prereleases
\* and any number of clauses.
THEOREM VersionsAreSound == RangeSpec => []VersionsSound
<1>1. RangeInit /\ [RangeNext]_rangeVars => RangeInit'
  BY DEF RangeInit, RangeNext, rangeVars
<1> QED
  BY <1>1, AnyQuestion, PTL DEF RangeSpec

\* Both: what is compared means what it says, and what check-updates proposes
\* from it can be taken over and then holds (updates.py, inventory.py).
THEOREM VersioningIsSound == RangeSpec /\ UpdatesSpec => []VersioningSound
<1>1. VersionsSound /\ UpdatesSound => VersioningSound
  BY DEF VersioningSound
<1> QED
  BY <1>1, VersionsAreSound, UpdatesAreSound, PTL
=============================================================================
