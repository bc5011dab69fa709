---------------------------- MODULE MCNodeStore ----------------------------
(* Instances of NodeStore for TLC.                                           *)
EXTENDS NodeStore, TLC

CONSTANTS x, y, f1, f2, f3, c1, c2, q1

(* x is a full snapshot of two files; y is a stage whose only file has a chunk *)
(* of x.                                                                    *)
MCFilesOf == x :> {f1, f2} @@ y :> {f3}
MCChunksOf == f1 :> {c1} @@ f2 :> {c2} @@ f3 :> {c1}
MCTarget == q1 :> y
=============================================================================
