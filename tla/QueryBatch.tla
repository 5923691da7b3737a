----------------------------- MODULE QueryBatch -----------------------------
(***************************************************************************)
(* What KNN::do_queries promises: every query is answered once, in any     *)
(* order, and results are taken from the answers when all of them are in,  *)
(* in the order of the queries.  The batch may fail instead, and then      *)
(* nothing more is taken.                                                  *)
(***************************************************************************)
EXTENDS Naturals

CONSTANT num_queries

VARIABLES answered, collected, failed

vars == <<answered, collected, failed>>

Queries == 1 .. num_queries

Init == answered = {} /\ collected = 0 /\ failed = FALSE

Answer(q) ==
  /\ ~failed /\ q \notin answered
  /\ answered' = answered \cup {q}
  /\ UNCHANGED <<collected, failed>>

Collect ==
  /\ ~failed /\ answered = Queries /\ collected < num_queries
  /\ collected' = collected + 1
  /\ UNCHANGED <<answered, failed>>

Fail ==
  /\ failed' = TRUE
  /\ UNCHANGED <<answered, collected>>

Next == (\E q \in Queries : Answer(q)) \/ Collect \/ Fail

Spec == Init /\ [][Next]_vars
=============================================================================
