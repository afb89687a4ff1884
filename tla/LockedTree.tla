------------------------------ MODULE LockedTree ------------------------------
(***************************************************************************)
(* What makes a lockfile acceptable (npm_environment/lockfile), what of it *)
(* is installed, how the installed tree is validated against it            *)
(* (validation) and, once published, against its manifest (tree).  npm and *)
(* whoever alters the tree are the environment.                            *)
(*                                                                         *)
(* A path of the lock is the sequence of the package names on it, <<>> the *)
(* root; a range is the one version it admits, or Star.                     *)
(***************************************************************************)
EXTENDS Integers, Sequences, FiniteSets, SequencesExt

CONSTANTS NodesAt,     \* path -> the nodes a lockfile may have there
          PathTokens, MaxTokens   \* bound: the segments of paths that are parsed

Star == 0
NoNode == <<"no node">>
Unsafe == <<<<"unsafe">>>>
IndexError == <<<<"index error">>>>

VARIABLES lockStage, lockfile, reviewed, tree, manifest, pathRead
lockedVars == <<lockStage, lockfile, reviewed, tree, manifest, pathRead>>

----------------------------------------------------------------------------
(* Paths, as sequences of segments *)

NodeModules == "node_modules"
Scoped(segment) == segment = "@scope"
NameRe(segment) == segment \notin {"", "@scope", "UPPER"}

\* The end of the name that starts at i, beyond the path if it has none.
NameEnd(path, i) == IF Scoped(path[i]) THEN i + 1 ELSE i

\* The names from the i-th segment on; what follows a name is node_modules.
ParsePath(path) ==
  LET names[i \in 1 .. Len(path) + 1] ==
        IF i > Len(path) THEN <<>>
        ELSE LET last == NameEnd(path, i) IN
          IF path[i] = NodeModules \/ last > Len(path) THEN Unsafe
          ELSE IF last = Len(path) THEN <<SubSeq(path, i, last)>>
          ELSE IF path[last + 1] # NodeModules \/ names[last + 2] = Unsafe THEN Unsafe
          ELSE <<SubSeq(path, i, last)>> \o names[last + 2]
      found == IF path[1] # NodeModules \/ "" \in ToSet(path) THEN Unsafe ELSE names[2]
  IN IF found = Unsafe THEN Unsafe
     ELSE IF \E i \in DOMAIN found : ~ NameRe(Last(found[i])) THEN Unsafe
     ELSE IF found = <<>> THEN IndexError ELSE found

\* _is_package_placement
Placement(path) ==
  LET placed[i \in 1 .. Len(path) + 1] ==
        /\ i <= Len(path) /\ path[i] \notin {NodeModules, ""}
        /\ LET last == NameEnd(path, i) IN
           /\ last <= Len(path) /\ path[last] # ""
           /\ last < Len(path) => path[last + 1] = NodeModules /\ placed[last + 2]
  IN path[1] = NodeModules /\ "" \notin ToSet(path) /\ placed[2]

----------------------------------------------------------------------------
(* Resolution *)

\* Port of npm's checkList; an entry is [value, negated].
CheckList(actual, entries) ==
  \/ entries = <<[value |-> "any", negated |-> FALSE]>>
  \/ /\ \A i \in DOMAIN entries : entries[i].negated => entries[i].value # actual
     /\ \/ \E i \in DOMAIN entries : entries[i] = [value |-> actual, negated |-> FALSE]
        \/ \A i \in DOMAIN entries : entries[i].negated
Applicable(node) == CheckList("linux", node.os)

AncestorDirs(path) == [i \in 1 .. Len(path) + 1 |-> SubSeq(path, 1, Len(path) + 1 - i)]
Nearest(paths, path, name) ==
  LET candidates == [i \in 1 .. Len(path) + 1 |-> Append(AncestorDirs(path)[i], name)]
      i == SelectInSeq(candidates, LAMBDA c : c \in paths)
  IN IF i = 0 THEN NoNode ELSE candidates[i]
Resolution(paths, path, name) == Nearest(paths, path, name)

\* A possible bug: a package may supply its own peer.
ResolveFromInside(paths, path, name) == Resolution(paths, path, name)
ResolvePeer(paths, path, name) == Resolution(paths, Front(path), name)
ResolveEdge(l, path, edge) ==
  IF edge.kind = "peer" THEN ResolvePeer(DOMAIN l, path, edge.name) ELSE Resolution(DOMAIN l, path, edge.name)

Satisfies(range, version) == range \in {Star, version}
Declared(map, kind, optional) ==
  {[name |-> n, range |-> map[n], optional |-> n \in optional, kind |-> kind] : n \in DOMAIN map}
\* An optional declaration takes the place of a required one; the peers of the
\* root are not its own to install.
Edges(l, path) ==
  LET node == l[path] IN
  {e \in Declared(node.dependencies, "dependency", {}) : e.name \notin DOMAIN node.optional}
  \cup Declared(node.optional, "optional", DOMAIN node.optional)
  \cup IF path = <<>> THEN Declared(node.dev, "dev", {})
       ELSE Declared(node.peers, "peer", node.optionalPeers)

\* All that Step leads to from the root.
Reached(l, Step(_)) ==
  FoldLeft(LAMBDA paths, i : paths \cup UNION {Step(p) : p \in paths}, {<<>>}, SetToSeq(DOMAIN l))
Membership(l) ==
  Reached(l, LAMBDA p : {ResolveEdge(l, p, e) : e \in Edges(l, p)} \ {NoNode})

----------------------------------------------------------------------------
(* Acceptance: parse_lockfile *)

\* The nodes that are installed; below one that is left out nothing is.
Installed(l) ==
  Reached(l, LAMBDA p : {q \in {ResolveEdge(l, p, e) : e \in Edges(l, p)} \ {NoNode} : Applicable(l[q])})
Omitted(l) ==
  {<<p, e>> \in UNION {{p} \X Edges(l, p) : p \in Installed(l)} :
     e.optional /\ LET q == ResolveEdge(l, p, e) IN q # NoNode /\ ~ Applicable(l[q])}
\* A possible bug: an optional node does not count, so neither does its range.
HoldsUnlessOptional(l, p, e) ==
  LET q == ResolveEdge(l, p, e) IN
  IF e.optional THEN q # NoNode \/ e.kind = "peer"
  ELSE q # NoNode /\ Satisfies(e.range, l[q].version) /\ Applicable(l[q])
EdgeHolds(l, p, e) ==
  LET q == ResolveEdge(l, p, e) IN
  IF q = NoNode THEN e.kind = "peer" /\ e.optional
  ELSE Satisfies(e.range, l[q].version) /\ (Applicable(l[q]) \/ e.optional)
ValidClosure(l) ==
  \A p \in Installed(l) : \A e \in Edges(l, p) :
    /\ EdgeHolds(l, p, e)
    /\ LET q == ResolveEdge(l, p, e) IN
       q # NoNode /\ Applicable(l[q]) /\ l[q].onlyOptional => e.optional

\* The reviewed roots are the direct dependencies there are on this platform.
ValidRoots(l, roots) ==
  LET edges == Edges(l, <<>>)
      there == {e \in edges : ~ e.optional \/ (<<e.name>> \in DOMAIN l /\ Applicable(l[<<e.name>>]))}
  IN /\ \A e, f \in edges : e.name = f.name => e = f
     /\ DOMAIN roots = {e.name : e \in there}
     /\ \A e \in there : /\ Satisfies(e.range, roots[e.name])
                         /\ <<e.name>> \in DOMAIN l /\ l[<<e.name>>].version = roots[e.name]

Accepted(l, roots) ==
  ValidRoots(l, roots) /\ DOMAIN l \subseteq Membership(l) /\ ValidClosure(l)

----------------------------------------------------------------------------
(* The tree: npm, validate_assembled_tree, the manifest and verify_tree *)

\* What is at a path: a package directory with its manifest, or something else.
Package(version) == [kind |-> "directory", version |-> version, owner |-> "me", shared |-> FALSE, bin |-> "there"]
NpmInstalls(l) == [p \in Installed(l) \ {<<>>} |-> Package(l[p].version)]

With(t, p, entry) == [q \in DOMAIN t \cup {p} |-> IF q = p THEN entry ELSE t[q]]
Lacking(t, p) == [q \in DOMAIN t \ {p} |-> t[q]]
\* One thing is missing, too many, or not what it was.
Altered(t) ==
  {Lacking(t, p) : p \in DOMAIN t}
  \cup {With(t, p, Package(1)) : p \in DOMAIN NodesAt \ (DOMAIN t \cup {<<>>})}
  \cup UNION {{With(t, p, e) : e \in
        {[t[p] EXCEPT !.kind = k] : k \in {"file", "special", "escaping link"}}
        \cup {[t[p] EXCEPT !.version = 3 - @], [t[p] EXCEPT !.owner = "other"], [t[p] EXCEPT !.shared = TRUE]}
        \cup {[t[p] EXCEPT !.bin = b] : b \in {"missing", "dangling"}}} : p \in DOMAIN t}

\* The nearest candidate is what counts, whether it satisfies or not.
ResolvesIn(installed, l, p, map, left) ==
  \A n \in DOMAIN map \ left :
    LET q == Nearest(installed, p, n) IN q # NoNode /\ Satisfies(map[n], l[q].version)
ValidBin(roots, t) ==
  \A n \in DOMAIN roots : <<n>> \in DOMAIN t => t[<<n>>].bin = "there"
BuildManifest(t) == \A p \in DOMAIN t : t[p].kind \notin {"special", "escaping link"}
ValidTree(l, roots, t) ==
  LET installed == Installed(l) \ {<<>>}
      omitted == Omitted(l)
  IN
  /\ ValidBin(roots, t) /\ BuildManifest(t)
  /\ \A p \in DOMAIN t : t[p].owner = "me" /\ ~ t[p].shared
  /\ \A p \in installed : p \in DOMAIN t /\ t[p].kind = "directory" /\ t[p].version = l[p].version
  /\ \A p \in DOMAIN t : t[p].kind = "directory" => p \in installed
  /\ \A p \in installed :
       LET left == {pe[2].name : pe \in {o \in omitted : o[1] = p}} IN
       /\ ResolvesIn(installed, l, p, l[p].dependencies, {})
       /\ ResolvesIn(installed, l, p, l[p].optional, left)

\* A possible bug: only what the manifest names is looked at.
SameEntriesOnly(recorded, found) ==
  \A p \in DOMAIN recorded : p \in DOMAIN found /\ found[p] = recorded[p]
Compare(recorded, found) ==
  DOMAIN found = DOMAIN recorded /\ \A p \in DOMAIN recorded : found[p] = recorded[p]
VerifyTree(recorded, found) == BuildManifest(found) /\ Compare(recorded, found)

----------------------------------------------------------------------------

Locks ==
  FoldLeft(LAMBDA ls, p : {With(l, p, node) : l \in ls, node \in NodesAt[p]} \cup (IF p = <<>> THEN {} ELSE ls),
           {<<>>}, SetToSeq(DOMAIN NodesAt))
PathsRead == {<<NodeModules>> \o q : q \in UNION {[1 .. k -> PathTokens] : k \in 0 .. MaxTokens}}
LockedInit ==
  /\ \/ lockStage = "read" /\ lockfile \in Locks /\ pathRead = <<NodeModules>>
     \/ lockStage = "path" /\ lockfile = <<>> /\ pathRead \in PathsRead
  /\ reviewed = <<>> /\ tree = <<>> /\ manifest = <<>>

\* The caller names versions of some of the packages at the top.
ParseLockfile ==
  /\ lockStage = "read"
  /\ \E names \in SUBSET {p[1] : p \in {q \in DOMAIN lockfile : Len(q) = 1}} :
       reviewed' = [n \in names |-> lockfile[<<n>>].version]
  /\ lockStage' = IF Accepted(lockfile, reviewed') THEN "accepted" ELSE "refused"
  /\ UNCHANGED <<lockfile, tree, manifest, pathRead>>
NpmEnds ==
  /\ lockStage = "accepted" /\ lockStage' = "installed"
  /\ tree' \in {NpmInstalls(lockfile)} \cup Altered(NpmInstalls(lockfile))
  /\ UNCHANGED <<lockfile, reviewed, manifest, pathRead>>
ValidateAssembledTree ==
  /\ lockStage = "installed"
  /\ IF ValidTree(lockfile, reviewed, tree) THEN lockStage' = "published" /\ manifest' = tree
     ELSE lockStage' = "rejected" /\ UNCHANGED manifest
  /\ UNCHANGED <<lockfile, reviewed, tree, pathRead>>
Tamper ==
  /\ lockStage = "published" /\ lockStage' = "found" /\ tree' \in {tree} \cup Altered(tree)
  /\ UNCHANGED <<lockfile, reviewed, manifest, pathRead>>
LookUp ==
  /\ lockStage = "found" /\ lockStage' = IF VerifyTree(manifest, tree) THEN "verified" ELSE "corrupt"
  /\ UNCHANGED <<lockfile, reviewed, tree, manifest, pathRead>>
LockedNext == ParseLockfile \/ NpmEnds \/ ValidateAssembledTree \/ Tamper \/ LookUp

----------------------------------------------------------------------------

\* What require finds on the disk: the package in the innermost node_modules
\* that has one of that name.
Finds(there, path, name) ==
  {q \in there : /\ Last(q) = name /\ IsPrefix(Front(q), path)
                 /\ \A r \in there : Last(r) = name /\ IsPrefix(Front(r), path) => Len(r) <= Len(q)}

\* In an accepted lock every installed package finds on the disk what it must
\* have, in a version it admits, and its peers outside itself; nothing it must
\* have is left out for the platform; and every node is connected to the root
\* (lockfile.py: _validate_closure, _reject_disconnected_nodes).
ClosureComplete ==
  LET there == Installed(lockfile) \ {<<>>} IN
  /\ \A p \in Installed(lockfile) : \A e \in Edges(lockfile, p) : ~ e.optional =>
       LET found == Finds(there, IF e.kind = "peer" THEN Front(p) ELSE p, e.name) IN
       found # {} /\ \A q \in found : Satisfies(e.range, lockfile[q].version)
  /\ DOMAIN lockfile \subseteq Membership(lockfile)

DeclaredTwice == \E p \in DOMAIN lockfile : DOMAIN lockfile[p].dependencies \cap DOMAIN lockfile[p].optional # {}

\* An accepted lock is complete, its faithful installation is accepted (unless
\* a package declares one name as required and as optional), and no other is;
\* and a published tree is verified exactly as long as it is what was recorded
\* (lockfile.py, validation.py, tree.py).
InstalledSound ==
  /\ lockStage = "accepted" => ClosureComplete
  /\ lockStage = "rejected" => tree # NpmInstalls(lockfile) \/ DeclaredTwice
  /\ lockStage = "published" =>
       /\ DOMAIN tree = DOMAIN NpmInstalls(lockfile)
       /\ \A p \in DOMAIN tree : [tree[p] EXCEPT !.bin = "there"] = Package(lockfile[p].version)
  /\ lockStage \in {"verified", "corrupt"} => (lockStage = "verified" <=> tree = manifest)

\* A path the lock may have is one where the validation looks for a package,
\* but for node_modules at its end; every other such place has a name npm does
\* not allow (lockfile.py: _parse_path, validation.py: _is_package_placement).
PathsAgree ==
  IF ParsePath(pathRead) \in {Unsafe, IndexError}
  THEN Placement(pathRead) => \E i \in DOMAIN pathRead :
         ~ NameRe(pathRead[i]) /\ (Scoped(pathRead[i]) => Scoped(pathRead[i - 1]))
  ELSE Placement(pathRead) \/ Last(pathRead) = NodeModules
LockedTreeSound == InstalledSound /\ PathsAgree
=============================================================================
