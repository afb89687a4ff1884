--------------------------- MODULE SecureDirectory ---------------------------
(***************************************************************************)
(* OwnedDescriptor and DirectoryDescriptor (filesystem/descriptors), with  *)
(* the capabilities that adopt them (transactions/capabilities): how one   *)
(* thread comes to own a directory, a system call a step, each free to     *)
(* fail, while another thread of the process opens and closes descriptors. *)
(* The kernel gives the lowest free number, so that a number closed twice  *)
(* may be somebody else's the second time.                                 *)
(*                                                                         *)
(* Simplification: an interruption is raised by a call in the place of its *)
(* effect, or by a close after it.                                         *)
(***************************************************************************)
EXTENDS Integers, FiniteSetsExt, CleanupFailures

CONSTANTS Descriptors,      \* numbers of the process
          MaxDepth          \* bound on the components of a path

\* What is asked for.  "path" is from_path and open_directory (from_fd is given
\* a descriptor, and keeps its hands off it when it fails).
Requests == {"secure_path", "path", "fd", "create", "open_or_create"}

ASSUME SecureAssumption == Descriptors \subseteq Nat /\ MaxDepth \in Nat

VARIABLES
  kernel,       \* descriptor -> "free", or the thread that opened it
  others,       \* what the other thread has open, as it believes
  request, dpc,
  depth,        \* components still to be walked
  retained, leaf,  \* OwnedDescriptors: number and state
  primary, cleanup,\* the pending failure, those of the release under way
  raised,       \* ghost: every failure of the call, in order
  lost          \* ghost: numbers whose close failed and changed nothing

dirVars == <<kernel, others, request, dpc, depth, retained, leaf, primary, cleanup, raised, lost>>
owners == <<retained, leaf>>

NoDescriptor == [fd |-> 0, state |-> "none"]
Live(n) == [fd |-> n, state |-> "live"]
Failure(c) == [class |-> c, number |-> Len(raised)]
Classes == {"ordinary", "defect", "interruption"}

DirInit ==
  /\ kernel = [n \in Descriptors |-> "free"] /\ others = {}
  /\ request = "none" /\ dpc = "idle" /\ depth = 0
  /\ retained = NoDescriptor /\ leaf = NoDescriptor
  /\ primary = NoFailure /\ cleanup = <<>>
  /\ raised = <<>> /\ lost = {}

DirGoes(place) == dpc' = place
Free == {n \in Descriptors : kernel[n] = "free"}
\* The call at hand fails with a failure of class c, which becomes the primary.
Raises(c) == /\ raised' = Append(raised, Failure(c))
             /\ primary' = Failure(c)

\* The caller of from_fd has opened what it brings, and answers for it.
Ask ==
  /\ dpc = "idle"
  /\ request' \in Requests
  /\ depth' \in IF request' = "secure_path" THEN 0..MaxDepth ELSE {0}
  /\ IF request' = "fd"
     THEN /\ Free # {} /\ kernel' = [kernel EXCEPT ![Min(Free)] = "caller"]
          /\ leaf' = [fd |-> Min(Free), state |-> "caller"]
          /\ DirGoes("validate")
     ELSE /\ DirGoes(CASE request' = "secure_path" -> "root" [] request' = "create" -> "make"
                       [] request' \in {"path", "open_or_create"} -> "open")
          /\ UNCHANGED <<kernel, leaf>>
  /\ UNCHANGED <<others, retained, primary, cleanup, raised, lost>>

----------------------------------------------------------------------------
(* Opening *)

\* mkdirat: the entry may exist by now, whatever the first open said.
MakeDirectory ==
  /\ dpc = "make"
  /\ \/ DirGoes("open") /\ UNCHANGED <<primary, raised>>
     \/ \E c \in Classes : Raises(c) /\ DirGoes("done")
  /\ UNCHANGED <<kernel, others, request, depth, owners, cleanup, lost>>

\* Only ENOENT of the first open falls back to the creation.
OpenLeaf ==
  /\ dpc = "open"
  /\ \/ /\ Free # {} /\ kernel' = [kernel EXCEPT ![Min(Free)] = "this"]
        /\ leaf' = Live(Min(Free))
        /\ DirGoes("validate") /\ UNCHANGED <<request, primary, raised>>
     \/ /\ request = "open_or_create"
        /\ request' = "create" /\ DirGoes("make")
        /\ UNCHANGED <<kernel, leaf, primary, raised>>
     \/ /\ \E c \in Classes : Raises(c)
        /\ DirGoes("done") /\ UNCHANGED <<kernel, leaf, request>>
  /\ UNCHANGED <<others, depth, retained, cleanup, lost>>

OpenRoot ==
  /\ dpc = "root"
  /\ \/ /\ Free # {} /\ kernel' = [kernel EXCEPT ![Min(Free)] = "this"]
        /\ IF depth = 0 THEN leaf' = Live(Min(Free)) /\ DirGoes("validate") /\ UNCHANGED retained
                        ELSE retained' = Live(Min(Free)) /\ DirGoes("walk") /\ UNCHANGED leaf
        /\ UNCHANGED <<primary, raised>>
     \/ /\ \E c \in Classes : Raises(c)
        /\ DirGoes("done") /\ UNCHANGED <<kernel, owners>>
  /\ UNCHANGED <<others, request, depth, cleanup, lost>>

\* The next component, opened relative to the retained parent.
OpenComponent ==
  /\ dpc = "walk"
  /\ \/ /\ Free # {} /\ kernel' = [kernel EXCEPT ![Min(Free)] = "this"]
        /\ leaf' = Live(Min(Free)) /\ depth' = depth - 1
        /\ DirGoes(IF depth = 1 THEN "validate" ELSE "step")
        /\ UNCHANGED <<primary, raised>>
     \/ /\ \E c \in Classes : Raises(c)
        /\ DirGoes("release_parent") /\ UNCHANGED <<kernel, leaf, depth>>
  /\ UNCHANGED <<others, request, retained, cleanup, lost>>

----------------------------------------------------------------------------
(* OwnedDescriptor.close: released first, then attempted, and never again.   *)
(* result is what the attempt raises, NoFailure if nothing; the owner itself *)
(* is set by the action.                                                     *)

CloseOf(owner, result) ==
  IF owner.state # "live" THEN result = NoFailure /\ UNCHANGED <<kernel, raised, lost>>
  ELSE /\ result \in {NoFailure} \cup {Failure(c) : c \in Classes}
       /\ raised' = IF result = NoFailure THEN raised ELSE Append(raised, result)
       /\ \/ kernel' = [kernel EXCEPT ![owner.fd] = "free"] /\ UNCHANGED lost
          \/ /\ result # NoFailure
             /\ lost' = lost \cup {owner.fd} /\ UNCHANGED kernel
Results == {NoFailure} \cup {Failure(c) : c \in Classes}
\* A possible bug: the owner is released once the close has succeeded.
ReleasedIfClosed(owner) ==
  [owner EXCEPT !.state = IF @ = "live" /\ raised' = raised THEN "released" ELSE @]

Released(owner) == [owner EXCEPT !.state = IF @ = "live" THEN "released" ELSE @]

\* previous.close() in the walk: the child is the retained parent already.
StepDown ==
  /\ dpc = "step"
  /\ \E result \in Results :
       /\ CloseOf(retained, result)
       /\ retained' = leaf /\ leaf' = NoDescriptor
       /\ IF result = NoFailure THEN DirGoes("walk") /\ UNCHANGED primary
          ELSE DirGoes("release_parent") /\ primary' = result
  /\ UNCHANGED <<others, request, depth, cleanup>>

----------------------------------------------------------------------------
(* Adoption: fstat, type and owner, and for a created child the mode. *)

AfterValidation == IF request \in {"create", "open_or_create"} THEN "secure"
                   ELSE IF retained.state = "live" THEN "release_parent" ELSE "done"

Validate ==
  /\ dpc = "validate"
  /\ \/ /\ leaf' = [leaf EXCEPT !.state = "live"] /\ UNCHANGED <<primary, raised>>
        /\ DirGoes(AfterValidation)
     \/ /\ \E c \in Classes : Raises(c)
        /\ DirGoes(IF request = "fd" THEN "done" ELSE "release_leaf") /\ UNCHANGED leaf
  /\ UNCHANGED <<kernel, others, request, depth, retained, cleanup, lost>>

Secure ==
  /\ dpc = "secure"
  /\ \/ DirGoes("done") /\ UNCHANGED <<primary, raised>>
     \/ \E c \in Classes : Raises(c) /\ DirGoes("release_leaf")
  /\ UNCHANGED <<kernel, others, request, depth, owners, cleanup, lost>>

\* _attempt_release: what is raised after it is the authoritative failure.
ReleaseLeaf ==
  /\ dpc = "release_leaf"
  /\ \E result \in Results :
       /\ CloseOf(leaf, result)
       /\ primary' = Authoritative(primary, Failed(result))
  /\ leaf' = Released(leaf)
  /\ DirGoes(IF retained.state = "live" THEN "release_parent" ELSE "done")
  /\ UNCHANGED <<others, request, depth, retained, cleanup>>

\* The finally of open_secure_path: the parent, then the leaf unless it can be
\* returned, two independent attempts.
ReleaseParent ==
  /\ dpc = "release_parent"
  /\ \E result \in Results :
       /\ CloseOf(retained, result)
       /\ cleanup' = Failed(result)
       /\ DirGoes(IF leaf.state = "live" /\ (primary # NoFailure \/ result # NoFailure)
                  THEN "release_adopted" ELSE "complete")
  /\ retained' = Released(retained)
  /\ UNCHANGED <<others, request, depth, leaf, primary>>

ReleaseAdopted ==
  /\ dpc = "release_adopted"
  /\ \E result \in Results :
       CloseOf(leaf, result) /\ cleanup' = cleanup \o Failed(result)
  /\ leaf' = Released(leaf)
  /\ DirGoes("complete")
  /\ UNCHANGED <<others, request, depth, retained, primary>>

Complete ==
  /\ dpc = "complete"
  /\ primary' = Authoritative(primary, cleanup) /\ cleanup' = <<>>
  /\ DirGoes("done")
  /\ UNCHANGED <<kernel, others, request, depth, owners, raised, lost>>

\* The caller lets go of all it has been given, and may ask again.
Forget ==
  /\ dpc = "done"
  /\ kernel' = [n \in Descriptors |-> IF kernel[n] = "other" THEN "other" ELSE "free"]
  /\ request' = "none" /\ depth' = 0 /\ retained' = NoDescriptor /\ leaf' = NoDescriptor
  /\ primary' = NoFailure /\ raised' = <<>> /\ lost' = {}
  /\ DirGoes("idle")
  /\ UNCHANGED <<others, cleanup>>

----------------------------------------------------------------------------
(* The other thread *)

OtherOpens ==
  /\ Free # {} /\ others = {}
  /\ kernel' = [kernel EXCEPT ![Min(Free)] = "other"]
  /\ others' = {Min(Free)}
  /\ UNCHANGED <<request, dpc, depth, owners, primary, cleanup, raised, lost>>

OtherCloses ==
  /\ \E n \in others : kernel' = [kernel EXCEPT ![n] = "free"] /\ others' = others \ {n}
  /\ UNCHANGED <<request, dpc, depth, owners, primary, cleanup, raised, lost>>

DirNext ==
  \/ Ask \/ MakeDirectory \/ OpenLeaf \/ OpenRoot \/ OpenComponent \/ StepDown \/ Validate
  \/ Secure \/ ReleaseLeaf \/ ReleaseParent \/ ReleaseAdopted \/ Complete \/ Forget
  \/ OtherOpens \/ OtherCloses
DirSpec == DirInit /\ [][DirNext]_dirVars

----------------------------------------------------------------------------
\* What another thread opened stays open until that thread closes it: no
\* release is repeated on a number that may be somebody else's by now.
OthersUntouched == \A n \in others : kernel[n] = "other"

\* A call that raises keeps nothing, a call that returns keeps the leaf alone,
\* except for numbers whose only close failed.
NothingLeaks ==
  dpc = "done" =>
    LET mine == {n \in Descriptors : kernel[n] = "this"}
    IN IF raised = <<>> THEN leaf.state = "live" /\ mine \subseteq {leaf.fd}
                        ELSE mine \subseteq lost

\* The failure a call must raise for the first n of those it met: the first
\* interruption, or else a defect, or else the first failure of all.
Outcome(failures, n, outcome) ==
  \/ n = 0 /\ outcome = NoFailure
  \/ \E i \in 1..n :
       /\ outcome = failures[i]
       /\ \/ outcome.class = "interruption" /\ \A j \in 1..i - 1 : failures[j].class # "interruption"
          \/ outcome.class = "defect" /\ \A j \in 1..n : failures[j].class # "interruption"
          \/ i = 1 /\ \A j \in 1..n : failures[j].class = "ordinary"

\* However the failures of a call nest, none is swallowed, and none displaces
\* one that takes precedence.
OutcomeHonest == dpc = "done" => Outcome(raised, Len(raised), primary)

DescriptorsAccounted == OthersUntouched /\ NothingLeaks /\ OutcomeHonest
=============================================================================
