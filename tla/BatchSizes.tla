----------------------------- MODULE BatchSizes -----------------------------
(***************************************************************************)
(* The sizes main reads from the headers of the two input files and hands  *)
(* to the constructor of KNN.                                              *)
(***************************************************************************)
EXTENDS Naturals

CONSTANTS
  num_queries,
  num_training_pts,
  k

ASSUME SizesAssumption ==
  num_queries \in Nat /\ num_training_pts \in Nat \ {0} /\ k \in Nat \ {0}
=============================================================================
