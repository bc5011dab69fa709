--------------------------- MODULE MCPreparation ---------------------------
(* Instances of Preparation for TLC.                                         *)
EXTENDS Preparation, TLC

CONSTANTS n1, n2, g1, g2, h1, a1

(* One exact cache a1.  g1 uses it on n1; its successor g2 moves away to n2,  *)
(* after which the cache on n1 may be quarantined; the lineage h1 may ask for *)
(* it on n1 again.  n2 is there only to be moved to.                        *)
MCPrevious == g1 :> NoDeployment @@ g2 :> g1 @@ h1 :> NoDeployment
MCAssigned == g1 :> {n1} @@ g2 :> {n2} @@ h1 :> {n1}
MCIdentity == [d \in Deployment |-> a1]
MCMaxTasks == n1 :> 4 @@ n2 :> 0
MCMaxAttempts == g1 :> 1 @@ g2 :> 0 @@ h1 :> 2
=============================================================================
