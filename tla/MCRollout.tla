----------------------------- MODULE MCRollout -----------------------------
(* Instances of Rollout for TLC: how the generations, nodes and artifacts of *)
(* the configurations relate.                                              *)
EXTENDS Rollout

CONSTANTS n1, n2, g1, g2, g3, h1, a1, a2

(* g1, g2, g3 are generations of one lineage, on every node; h1 is a lineage of  *)
(* its own on node n2 alone, so that the two lineages meet on n2.           *)
MCLineage == [d \in Deployment |-> IF d = h1 THEN h1 ELSE g1]
MCPrevious == [d \in Deployment |-> CASE d = g2 -> g1 [] d = g3 -> g2 [] OTHER -> NoDeployment]
MCAssigned == [d \in Deployment |-> IF d = h1 THEN {n2} ELSE Node]
MCHead == [d \in Deployment |-> IF d = h1 \/ n1 \notin Node THEN n2 ELSE n1]

(* The generations need different caches; h1 shares the one of g1, so that    *)
(* its preparation can restore it.                                         *)
MCArtifact == [d \in Deployment |-> IF d = g2 THEN a2 ELSE a1]
=============================================================================
