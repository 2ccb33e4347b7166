--------------------------- MODULE MCOrchestrator ---------------------------
(***************************************************************************)
(* Instances of Orchestrator for TLC.  Chart c1 has a foreground procedure *)
(* and a detached event, c2 one detached trigger.  With SerialCalls each   *)
(* chart has a caller of its own, with SharedCalls both callers work on c1.*)
(* With MixedCalls one chart has a caller of its own and the other two.    *)
(***************************************************************************)
EXTENDS OrchestratorInvariant, TLC

CONSTANTS a1, a2, b1, c1, c2, k1, k2, k3

MCLayers == {a1, a2, b1}
MCOwner == [m \in MCLayers |-> IF m = b1 THEN c2 ELSE c1]
MCStage == [m \in MCLayers |-> IF m = a1 THEN 1 ELSE IF m = b1 THEN 2 ELSE 3]

SerialCalls == [k \in {k1, k2} |-> IF k = k1 THEN c1 ELSE c2]
SharedCalls == [k \in {k1, k2} |-> c1]

\* one caller for c1, two for c2
MixedCalls == [k \in {k1, k2, k3} |-> IF k = k1 THEN c1 ELSE c2]

\* The two callers of c2 are alike: no property names one of them.
SharersAlike == Permutations({k2, k3})

\* c1 alone, for the runs in which both callers work on it
OneChart == {a1, a2}
OneOwner == [m \in OneChart |-> c1]
OneStage == [m \in OneChart |-> IF m = a1 THEN 1 ELSE 3]
=============================================================================
