----------------------------- MODULE MCEvidence -----------------------------
(* Two generated profiles whose nodes report one GPU, and one manual profile    *)
(* whose benchmarks share a node with the first of them.                     *)
EXTENDS Evidence, TLC

CONSTANTS n1, n2, a1, a2, m1, b1, b2, g

MCGpuOf == [n \in Node |-> g]
MCSite == [p \in Manual |-> n1]
MCOf == [b \in Benchmark |-> m1]
MCRequest ==
  {[placement |-> a1, nodes |-> {n1}, purpose |-> "PRIMARY"],
   [placement |-> a2, nodes |-> {n2}, purpose |-> "PRIMARY"],
   [placement |-> a1, nodes |-> {n2}, purpose |-> "SUPPLEMENTARY"]}
(* Runs differ in nothing but their identifier.                                *)
MCSymmetry == Permutations(Qualification) \cup Permutations(Benchmark)
MCVisits == {<<n1, "WORK">>}
=============================================================================
