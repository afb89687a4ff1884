------------------------- MODULE MCHostPresentation -------------------------
(* Instances of HostPresentation: two texts that differ in a number, and a  *)
(* recognised fetch.                                                        *)
EXTENDS HostPresentation

CONSTANTS t1, t2, fetch, stdout

OneTemplate == [t \in Texts |-> IF t = fetch THEN 2 ELSE 1]

=============================================================================
