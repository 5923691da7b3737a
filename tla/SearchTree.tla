----------------------------- MODULE SearchTree -----------------------------
(***************************************************************************)
(* bst_test/bst.cpp: the doubles of a file are inserted one by one into an *)
(* unbalanced binary search tree, duplicates to the left.  verify, which   *)
(* main has commented out, compares every node with its children.          *)
(*                                                                         *)
(* A node is named by its path from the root; nodes[p] is the index of its *)
(* value in the file.  Any eight bytes are a double: NaN stands for those  *)
(* that are no number, for which every comparison is false.                *)
(***************************************************************************)
EXTENDS Integers, Sequences, SequencesExt

CONSTANTS
  NaN,
  Arrays                \* the files, each a sequence of numbers and NaN

ASSUME ArraysAssumption == NaN \notin Int /\ \A a \in Arrays : a \in Seq(Int \cup {NaN})

VARIABLES
  array,
  nodes,                \* the tree
  inserting,            \* the index of the value on its way down
  place                 \* where insert looks: a path that is a node or null

treeVars == <<array, nodes, inserting, place>>

LessOrEqual(a, b) == a # NaN /\ b # NaN /\ a <= b
Greater(a, b) == a # NaN /\ b # NaN /\ a > b

Value(p) == array[nodes[p]]

TreeInit ==
  /\ array \in Arrays
  /\ nodes = <<>> /\ inserting = 1 /\ place = <<>>

(* Slip: a duplicate goes to the right. *)
DescendStrict ==
  /\ inserting <= Len(array) /\ place \in DOMAIN nodes
  /\ place' = Append(place, IF Greater(Value(place), array[inserting]) THEN "l" ELSE "r")
  /\ UNCHANGED <<array, nodes, inserting>>

(* insert: one comparison, and the call for a child. *)
Descend ==
  /\ inserting <= Len(array) /\ place \in DOMAIN nodes
  /\ place' = Append(place, IF LessOrEqual(array[inserting], Value(place)) THEN "l" ELSE "r")
  /\ UNCHANGED <<array, nodes, inserting>>

(* insert: *pp = n, and main takes the next value. *)
Attach ==
  /\ inserting <= Len(array) /\ place \notin DOMAIN nodes
  /\ nodes' = [p \in DOMAIN nodes \cup {place} |-> IF p = place THEN inserting ELSE nodes[p]]
  /\ inserting' = inserting + 1
  /\ place' = <<>>
  /\ UNCHANGED array

TreeStep == Descend \/ Attach

TreeSpec == TreeInit /\ [][TreeStep]_treeVars

Inserted == inserting > Len(array)

Child(p, side) == Append(p, side)

(* Slip: right children are not looked at. *)
verify_left ==
  \A p \in DOMAIN nodes :
    Child(p, "l") \in DOMAIN nodes => LessOrEqual(Value(Child(p, "l")), Value(p))

(* Whether the assertions of verify hold. *)
verify ==
  \A p \in DOMAIN nodes :
    /\ Child(p, "l") \in DOMAIN nodes => LessOrEqual(Value(Child(p, "l")), Value(p))
    /\ Child(p, "r") \in DOMAIN nodes => Greater(Value(Child(p, "r")), Value(p))

-----------------------------------------------------------------------------
(* A value is on its side of all nodes above it, not of its parent only. *)
Ordered ==
  \A p \in DOMAIN nodes :
    /\ \A m \in DOMAIN nodes : IsPrefix(Child(p, "l"), m) => LessOrEqual(Value(m), Value(p))
    /\ \A m \in DOMAIN nodes : IsPrefix(Child(p, "r"), m) => Greater(Value(m), Value(p))

(* Numbers make an ordered tree, at every moment, that holds each value read so far once *)
(* and that the value on its way down will fit into.                                     *)
NumbersAreOrdered ==
  NaN \notin Range(array) =>
    /\ Ordered
    /\ \A n \in 1 .. inserting - 1 : \E p \in DOMAIN nodes : nodes[p] = n
    /\ \A p \in DOMAIN nodes : place # p /\ IsPrefix(p, place) /\ ~Inserted =>
         IF IsPrefix(Child(p, "l"), place) THEN LessOrEqual(array[inserting], Value(p))
                                           ELSE Greater(array[inserting], Value(p))

(* verify compares neighbours only, and that is enough: it accepts exactly the trees that *)
(* are ordered throughout, whatever the file holds.                                       *)
VerifyIsEnough == Inserted => (verify <=> Ordered)
=============================================================================
