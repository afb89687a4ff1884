--------------------------- MODULE CleanupFailures ---------------------------
(***************************************************************************)
(* The precedence of several failures of one release (filesystem/cleanup). *)
(* A failure is a record with a class: "ordinary" is one the action names  *)
(* as its own, "defect" another Exception, "interruption" what is not an   *)
(* Exception.  A primary that is an Exception is "ordinary" or "defect".   *)
(***************************************************************************)
EXTENDS Integers, Sequences, SequencesExt

NoFailure == [class |-> "none"]

\* What an attempt adds to the failures of a release, in the order of the attempts.
Failed(outcome) == IF outcome = NoFailure THEN <<>> ELSE <<outcome>>

HasClass(failures, c) == \E i \in DOMAIN failures : failures[i].class = c
FirstOf(failures, c) ==
  failures[CHOOSE i \in DOMAIN failures : /\ failures[i].class = c
                                         /\ \A j \in 1..i - 1 : failures[j].class # c]

\* complete(): an interruption, the primary one first, else a defect of the
\* cleanup, else the primary, else the first ordinary failure of the cleanup.
Authoritative(primary, failures) ==
  IF primary.class = "interruption" THEN primary
  ELSE IF HasClass(failures, "interruption") THEN FirstOf(failures, "interruption")
  ELSE IF HasClass(failures, "defect") THEN FirstOf(failures, "defect")
  ELSE IF primary # NoFailure THEN primary
  ELSE IF HasClass(failures, "ordinary") THEN FirstOf(failures, "ordinary")
  ELSE NoFailure

\* attach_secondary: everything else stays with the authoritative one.
Attached(primary, failures) ==
  (ToSet(failures) \cup {primary}) \ {Authoritative(primary, failures), NoFailure}
=============================================================================
