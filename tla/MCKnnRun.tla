------------------------------ MODULE MCKnnRun ------------------------------
(* Instances of KnnRun: three points of the plane and three queries, two of which are as *)
(* far from one point as from another.                                                   *)
EXTENDS KnnRun

ThreePoints == {<< <<1, 0>>, <<3, 0>>, <<0, 5>> >>}

ThreeQueries == {<< <<1, 4>>, <<2, 0>>, <<2, 5>> >>}

OneQuery == {<< <<1, 4>> >>}
=============================================================================
