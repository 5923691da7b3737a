------------------------------ MODULE MCDriver ------------------------------
(* Instances of Driver. *)
EXTENDS Driver

Input(train, query, same, search) ==
  [args |-> 4, train |-> train, query |-> query, same_dimensions |-> same, search |-> search]

(* One input of each kind that main tells apart. *)
EveryInput ==
  {Input("TRAINING", "QUERY", TRUE, s) : s \in {"exit", "abort", "results"}} \cup
  {Input("TRAINING", "QUERY", FALSE, "results"), Input("missing", "QUERY", TRUE, "results"),
   Input("TRAINING", "missing", TRUE, "results"), Input("TRAINING", "TRAINING", TRUE, "results"),
   Input("QUERY", "QUERY", TRUE, "results")} \cup
  {[Input("TRAINING", "QUERY", TRUE, "results") EXCEPT !.args = n] : n \in {0, 3, 5}}

GoodInput == {Input("TRAINING", "QUERY", TRUE, "results")}

=============================================================================
