------------------------------ MODULE MCFleet ------------------------------
(* A pair of nodes that serves a stage variant, a single node, and a node that   *)
(* reports a GPU of the pair.                                                *)
EXTENDS Fleet

CONSTANTS n1, n2, n3, n4, c1, c2, c3, v1, p1, p2, p3

MCNodesOf == [c \in Candidate |-> CASE c = c1 -> {n1, n2} [] c = c2 -> {n3} [] c = c3 -> {n4}]
MCHead == [c \in Candidate |-> CASE c = c1 -> n1 [] c = c2 -> n3 [] c = c3 -> n4]
MCRank == [c \in Candidate |-> CASE c = c1 -> 1 [] c = c2 -> 2 [] c = c3 -> 3]
MCVariantOf == [c \in Candidate |-> IF c = c1 THEN v1 ELSE NoVariant]
MCGpuOf == [n \in Node |-> CASE n = n1 -> p1 [] n = n2 -> p2 [] n = n3 -> p3 [] n = n4 -> p1]
MCVisits == {<<n3, "TASK">>, <<n4, "WORK">>}
=============================================================================
