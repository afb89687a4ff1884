------------------------- MODULE MCActivityMonitor -------------------------
(* An instance of ActivityMonitor: two threads that finish differently.     *)
EXTENDS ActivityMonitor

CONSTANTS c1, c2

OneOfEach == [c \in Callers |-> IF c = c1 THEN "succeeded" ELSE "failed"]

=============================================================================
