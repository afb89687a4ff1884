--------------------------- MODULE MCOwnedProcess ---------------------------
(* Instances of OwnedProcess: two streams, the second without a descriptor, *)
(* and launches that each meet some of the difficulties.                    *)
EXTENDS OwnedProcess

CONSTANTS out, err

ChunkOn(S) == [s \in Streams |-> IF s \in S THEN 1 ELSE 0]
Launched(stages, drain, failing, S, interferes, collects) ==
  [stages |-> stages, drain |-> drain, failing |-> failing, failures |-> 1, chunks |-> ChunkOn(S),
   interferes |-> interferes, collects |-> collects]

\* An action that is only for aborts.
Removal == <<[action |-> TRUE, runOnNormal |-> FALSE]>>

MCSettings ==
  {Launched(<<>>, FALSE, {"launch", "read", "cleanup"}, {}, FALSE, TRUE),
   Launched(<<>>, FALSE, {"callback"}, {out, err}, FALSE, TRUE),
   Launched(<<>>, FALSE, {}, {out}, TRUE, TRUE),
   Launched(<<>>, FALSE, {}, {out, err}, FALSE, FALSE),
   Launched(Removal, TRUE, {"prepare", "action"}, {}, FALSE, FALSE)}
=============================================================================
