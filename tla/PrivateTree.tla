----------------------------- MODULE PrivateTree -----------------------------
(***************************************************************************)
(* The constructor cache root (versioning/cache_storage) and the project   *)
(* namespaces beneath it (versioning/project_state): commands that prepare *)
(* the tree, resolve a project or validate what was resolved, a system     *)
(* call of one directory a step.  A step that fails changes nothing and    *)
(* ends the command, as a kill does: CommandOver, possible anywhere, is    *)
(* every error path of the two modules.                                    *)
(*                                                                         *)
(* All projects here have one short name: a namespace is theirs by its     *)
(* metadata only.  "new" is a directory whose mode a umask has stripped,   *)
(* "unsafe" anything that is not a directory of the user.                  *)
(***************************************************************************)
EXTENDS Integers, Sequences, FiniteSets, SequencesExt

CONSTANTS TreeCommands,
          Projects,
          Descendants,      \* the prepared directories beneath the root, parents first
          Children          \* the directories of a namespace, in order

Stem == <<"root", "projects", "namespace">>
Directories == ToSet(Stem) \cup ToSet(Descendants) \cup ToSet(Children)

\* A namespace's directories are none of those that are prepared, and "none" is
\* no project: metadata that names one is there.
ASSUME TreeAssumption ==
  /\ Descendants \in Seq(STRING) /\ Children \in Seq(STRING) /\ "none" \notin Projects
  /\ ToSet(Descendants) \cap ToSet(Stem) = {} /\ ToSet(Children) \cap ToSet(Stem) = {}
  /\ ToSet(Descendants) \cap ToSet(Children) = {}

Purposes == {"prepare", "resolve", "dry_run", "validate"}
Entries == {"absent", "new", "other_mode", "private", "unsafe"}

VARIABLES
  tree,        \* directory -> entry
  metadata,    \* the project that project.json records, "none"
  tpurpose, tproject, tpc,
  tqueue,      \* directories still to be visited in this phase
  tcreated,    \* this command made the directory it is at
  tmissing,    \* children found absent in the first pass
  firstTree,   \* ghost: the tree before all commands
  maker        \* ghost: child -> the project of the command that made it

treeVars == <<tree, metadata, tpurpose, tproject, tpc, tqueue, tcreated, tmissing, firstTree, maker>>
localVars == <<tqueue, tcreated, tmissing>>

\* The tree an earlier command left, one entry of it changed by others since.
TreeInit ==
  /\ \E known \in SUBSET Directories, d \in Directories, e \in Entries \ {"absent", "new"} :
       /\ "namespace" \in known => "projects" \in known
       /\ \A c \in ToSet(Children) : c \in known => "namespace" \in known
       /\ known # {} => "root" \in known
       /\ tree = [x \in Directories |-> IF x \notin known THEN "absent" ELSE IF x = d THEN e ELSE "private"]
  /\ firstTree = tree
  /\ metadata \in {"none"} \cup (IF tree["namespace"] = "absent" THEN {} ELSE Projects)
  /\ tpurpose = [c \in TreeCommands |-> "none"] /\ tproject = tpurpose /\ tpc = [c \in TreeCommands |-> "idle"]
  /\ tqueue = [c \in TreeCommands |-> <<>>] /\ tcreated = [c \in TreeCommands |-> FALSE]
  /\ tmissing = [c \in TreeCommands |-> <<>>]
  /\ maker = [c \in ToSet(Children) |-> "none"]

TreeAt(c, place) == tpc[c] = place
TreeGoes(c, place) == tpc' = [tpc EXCEPT ![c] = place]
Visited(c) == Head(tqueue[c])
Found(c) == tree[Visited(c)]
Visits(c, directories) == tqueue' = [tqueue EXCEPT ![c] = directories]
Becomes(d, e) == tree' = [tree EXCEPT ![d] = e]

\* prepare_project_root looks at the root alone.
Prepared(purpose) == IF purpose = "prepare" THEN <<"root">> \o Descendants ELSE <<"root">>

StartCommand(c) ==
  /\ TreeAt(c, "idle")
  /\ \E purpose \in Purposes :
       /\ tpurpose' = [tpurpose EXCEPT ![c] = purpose]
       /\ IF purpose \in {"prepare", "resolve"}
          THEN TreeGoes(c, "inspect") /\ Visits(c, Prepared(purpose))
          ELSE TreeGoes(c, "find") /\ Visits(c, Stem)
  /\ \E project \in Projects : tproject' = [tproject EXCEPT ![c] = project]
  /\ UNCHANGED <<tree, metadata, tmissing, tcreated, firstTree, maker>>

----------------------------------------------------------------------------
(* _harden_tree: everything is inspected before anything is changed *)

\* A possible bug: each directory is secured as soon as it was inspected.
AfterInspectionAtOnce(c) == TreeGoes(c, "secure") /\ Visits(c, Prepared(tpurpose[c]))

\* The next entry is inspected, or all of them are now secured.
AfterInspection(c) ==
  IF Len(tqueue[c]) > 1 THEN TreeGoes(c, "inspect") /\ Visits(c, Tail(tqueue[c]))
  ELSE TreeGoes(c, "secure") /\ Visits(c, Prepared(tpurpose[c]))

InspectEntry(c) ==
  /\ TreeAt(c, "inspect")
  /\ Found(c) # "unsafe"
  /\ AfterInspection(c)
  /\ UNCHANGED <<tree, metadata, tpurpose, tproject, tcreated, tmissing, firstTree, maker>>

AfterSecuring(c) ==
  IF Len(tqueue[c]) > 1 THEN TreeGoes(c, "secure") /\ Visits(c, Tail(tqueue[c]))
  ELSE IF tpurpose[c] = "prepare" THEN TreeGoes(c, "done") /\ UNCHANGED tqueue
  ELSE TreeGoes(c, "find") /\ Visits(c, Stem)

\* open_or_create_directory: an entry that is there is made private, a missing
\* one is made; mkdir fails the command if another one was faster.
SecureEntry(c) ==
  /\ TreeAt(c, "secure")
  /\ \/ /\ Found(c) \in {"other_mode", "private", "new"}
        /\ Becomes(Visited(c), "private") /\ AfterSecuring(c)
     \/ /\ Found(c) = "absent"
        /\ TreeGoes(c, "make") /\ UNCHANGED <<tree, tqueue>>
  /\ UNCHANGED <<metadata, tpurpose, tproject, tcreated, tmissing, firstTree, maker>>

MakeEntry(c) ==
  /\ TreeAt(c, "make")
  /\ Found(c) = "absent"
  /\ \E e \in {"new", "private"} : Becomes(Visited(c), e)
  /\ TreeGoes(c, "secure")
  /\ UNCHANGED <<metadata, tpurpose, tproject, localVars, firstTree, maker>>

----------------------------------------------------------------------------
(* resolve_project_state and validate_project_state *)

\* Where a private directory leads.
AfterFinding(c) ==
  IF Len(tqueue[c]) > 1 THEN TreeGoes(c, "find") /\ Visits(c, Tail(tqueue[c]))
  ELSE /\ TreeGoes(c, IF tcreated[c] THEN "publish" ELSE "read") /\ UNCHANGED tqueue

\* _open_private_dir_at validates and never repairs.
FindDirectory(c) ==
  /\ TreeAt(c, "find")
  /\ \/ /\ Found(c) = "private" /\ AfterFinding(c) /\ UNCHANGED tcreated
     \/ /\ Found(c) = "absent" /\ (tpurpose[c] = "dry_run" \/ (tpurpose[c] = "resolve" /\ Visited(c) # "root"))
        /\ TreeGoes(c, IF tpurpose[c] = "resolve" THEN "mkdir" ELSE "done")
        /\ tcreated' = [tcreated EXCEPT ![c] = FALSE] /\ UNCHANGED tqueue
  /\ UNCHANGED <<tree, metadata, tpurpose, tproject, tmissing, firstTree, maker>>

\* _ensure_private_dir_at: a directory that another one has made is not adopted
\* as one's own, it is validated.
EnsureDirectory(c) ==
  /\ TreeAt(c, "mkdir")
  /\ \/ /\ Found(c) = "absent"
        /\ \E e \in {"new", "private"} : Becomes(Visited(c), e)
        /\ tcreated' = [tcreated EXCEPT ![c] = TRUE]
        /\ maker' = [d \in DOMAIN maker |-> IF d = Visited(c) THEN tproject[c] ELSE maker[d]]
        /\ TreeGoes(c, "pin")
     \/ /\ Found(c) # "absent" /\ TreeGoes(c, "reopen")
        /\ UNCHANGED <<tree, tcreated, maker>>
  /\ UNCHANGED <<metadata, tpurpose, tproject, tqueue, tmissing, firstTree>>

PinMode(c) ==
  /\ TreeAt(c, "pin")
  /\ Becomes(Visited(c), "private") /\ TreeGoes(c, "reopen")
  /\ UNCHANGED <<metadata, tpurpose, tproject, localVars, firstTree, maker>>

Reopen(c) ==
  /\ TreeAt(c, "reopen")
  /\ Found(c) = "private"
  /\ IF Visited(c) \in ToSet(Children) THEN TreeGoes(c, "ensure") /\ Visits(c, Tail(tqueue[c]))
                                       ELSE AfterFinding(c)
  /\ tcreated' = [tcreated EXCEPT ![c] = @ /\ tpc'[c] = "publish"]
  /\ UNCHANGED <<tree, metadata, tpurpose, tproject, tmissing, firstTree, maker>>

\* durable_no_clobber: an entry that is there is the winner's, and is verified.
PublishMetadata(c) ==
  /\ TreeAt(c, "publish")
  /\ metadata' = IF metadata = "none" THEN tproject[c] ELSE metadata
  /\ TreeGoes(c, "read")
  /\ UNCHANGED <<tree, tpurpose, tproject, localVars, firstTree, maker>>

\* A possible bug: metadata is taken for the project's own as soon as it is there.
AcceptedPresent(c) == metadata # "none"

Accepted(c) == metadata = tproject[c]

\* A resolution reads again, up to 20 times: the creator may not be ready yet.
ReadMetadata(c) ==
  /\ TreeAt(c, "read") /\ Accepted(c)
  /\ IF tpurpose[c] = "validate" THEN TreeGoes(c, "done") /\ UNCHANGED tqueue
     ELSE TreeGoes(c, "children") /\ Visits(c, Children)
  /\ UNCHANGED <<tree, metadata, tpurpose, tproject, tcreated, tmissing, firstTree, maker>>

\* The first pass creates nothing.
InspectChild(c) ==
  /\ TreeAt(c, "children")
  /\ IF tqueue[c] = <<>>
     THEN TreeGoes(c, "ensure") /\ Visits(c, tmissing[c]) /\ UNCHANGED tmissing
     ELSE /\ Found(c) = "private" \/ (Found(c) = "absent" /\ tpurpose[c] = "resolve")
          /\ tmissing' = [tmissing EXCEPT ![c] = IF Found(c) = "absent" THEN Append(@, Visited(c)) ELSE @]
          /\ Visits(c, Tail(tqueue[c])) /\ UNCHANGED tpc
  /\ UNCHANGED <<tree, metadata, tpurpose, tproject, tcreated, firstTree, maker>>

\* The second pass opens each missing child again before it is made.
EnsureChild(c) ==
  /\ TreeAt(c, "ensure")
  /\ IF tqueue[c] = <<>> THEN TreeGoes(c, "done") /\ UNCHANGED tqueue
     ELSE \/ Found(c) = "private" /\ Visits(c, Tail(tqueue[c])) /\ UNCHANGED tpc
          \/ Found(c) = "absent" /\ TreeGoes(c, "mkdir") /\ UNCHANGED tqueue
  /\ UNCHANGED <<tree, metadata, tpurpose, tproject, tcreated, tmissing, firstTree, maker>>

\* It returns, raises or is killed, wherever it is: nothing is undone.
CommandOver(c) ==
  /\ ~ TreeAt(c, "idle")
  /\ TreeGoes(c, "idle") /\ tpurpose' = [tpurpose EXCEPT ![c] = "none"]
  /\ tproject' = [tproject EXCEPT ![c] = "none"]
  /\ Visits(c, <<>>) /\ tcreated' = [tcreated EXCEPT ![c] = FALSE]
  /\ tmissing' = [tmissing EXCEPT ![c] = <<>>]
  /\ UNCHANGED <<tree, metadata, firstTree, maker>>

TreeStep(c) ==
  \/ StartCommand(c) \/ InspectEntry(c) \/ SecureEntry(c) \/ MakeEntry(c) \/ FindDirectory(c)
  \/ EnsureDirectory(c) \/ PinMode(c) \/ Reopen(c) \/ PublishMetadata(c) \/ ReadMetadata(c)
  \/ InspectChild(c) \/ EnsureChild(c) \/ CommandOver(c)
TreeNext == \E c \in TreeCommands : TreeStep(c)
TreeSpec == TreeInit /\ [][TreeNext]_treeVars

----------------------------------------------------------------------------
\* A preparation that meets an unsafe entry anywhere in its tree leaves all of
\* it as it was, modes and absent directories alike; a project's preparation
\* concerns the root alone (_harden_tree, prepare_project_root).
RejectedUntouched ==
  (\E d \in ToSet(Descendants) \cup {"root"} : firstTree[d] = "unsafe") =>
     /\ \A d \in ToSet(Descendants) : tree[d] = firstTree[d]
     /\ firstTree["root"] = "unsafe" => tree = firstTree

\* Whoever has resolved or validated a project, or made a child of its
\* namespace, is the project that the metadata records: projects that share a
\* short name never share a namespace, and no child comes before the metadata
\* is verified.  What is unsafe stays.
NamespaceOwned ==
  /\ \A c \in TreeCommands :
       tpurpose[c] \in {"resolve", "validate"} /\ tpc[c] \in {"children", "ensure", "done"} =>
         metadata = tproject[c] /\ tree["namespace"] = "private"
  /\ \A d \in DOMAIN maker : maker[d] # "none" => maker[d] = metadata
  /\ \A d \in Directories : firstTree[d] = "unsafe" => tree[d] = "unsafe"

TreeSound == RejectedUntouched /\ NamespaceOwned
=============================================================================
