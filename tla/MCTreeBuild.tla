---------------------------- MODULE MCTreeBuild ----------------------------
(* Instances of TreeBuild. *)
EXTENDS TreeBuild

(* Every training set of up to four points of three kinds, that differ in one coordinate *)
(* or both, by one unit in the last place or more.                                       *)
SmallSets ==
  LET kinds == {<<0, 1>>, <<1, 1>>, <<3, 0>>}
  IN  UNION {[1 .. n -> kinds] : n \in 0 .. 4}

(* Points of one dimension, and points on the diagonal of the plane. *)
Line(s) == [i \in DOMAIN s |-> <<s[i]>>]
Diagonal(s) == [i \in DOMAIN s |-> <<s[i], s[i]>>]

(* Eight to ten points: the sample of the root has two, below it whole vectors are *)
(* sorted up to SampleThreshold, and quarters from there.                          *)
LongSets ==
  {Diagonal(<<6, 4, 2, 0, 14, 12, 10, 8>>), Diagonal(<<3, 3, 0, 6, 6, 9, 9, 12, 12>>),
   Diagonal(<<8, 0, 2, 4, 6, 10, 12, 14, 16, 18>>)}

(* A grid, a counter-diagonal and one that splits nothing off some nodes. *)
PlaneSets ==
  {<< <<0, 0>>, <<0, 2>>, <<2, 0>>, <<2, 2>> >>,
   << <<0, 8>>, <<2, 6>>, <<4, 4>>, <<6, 2>>, <<8, 0>> >>,
   << <<0, 6>>, <<2, 0>>, <<4, 2>>, <<6, 4>>, <<8, 8>>, <<10, 10>> >>}

OneCoreSets == SmallSets \cup LongSets \cup PlaneSets

(* Sets the budget is short for: two or four threads for four to eight points. *)
BusySets == {Line(<<6, 4, 2, 0, 14, 12, 10, 8>>), Line(<<4, 0, 2, 6>>)}

(* Eight points: the sort of the sample leaves two slots behind. *)
EightPoints == {Line(<<6, 4, 2, 0, 14, 12, 10, 8>>)}

TwoOrThree == {Line(<<0, 2>>), Line(<<0, 2, 4>>)} \cup EightPoints

(* Points of the plane that are all distinct: three of them are the minimum of the other *)
(* two in one coordinate or the other.                                                   *)
DistinctPlane == {<< <<2, 4>>, <<2, 2>>, <<4, 2>>, <<0, 0>> >>} \cup PlaneSets
=============================================================================
