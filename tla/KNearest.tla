------------------------------ MODULE KNearest ------------------------------
(***************************************************************************)
(* What a query promises, without a tree: asked for the points nearest to  *)
(* a query point it answers once, with a right answer (IsNearest of        *)
(* KnnOps).                                                                *)
(***************************************************************************)

CONSTANTS
  Problems,         \* a set of [train, query, k]
  IsAnswer(_, _)    \* whether a set of rows is an answer to a problem

VARIABLES problem, answered, answer

vars == <<problem, answered, answer>>

Init == problem \in Problems /\ answered = FALSE /\ answer = {}

Answer ==
  /\ ~answered
  /\ answered' = TRUE
  /\ \E S \in SUBSET DOMAIN problem.train : IsAnswer(problem, S) /\ answer' = S
  /\ UNCHANGED problem

Spec == Init /\ [][Answer]_vars
=============================================================================
