-------------------------- MODULE TreeBuild_proofs --------------------------
(***************************************************************************)
(* The shared state of a tree build: the budget of threads, which sorts    *)
(* and nodes draw on together, and the vectors that calls hand to each     *)
(* other by reference.  All for any cores, any training set, any schedule  *)
(* and any calls of pthread_create that fail.                              *)
(*                                                                         *)
(* The budget holds although slots leak and slots are released that were   *)
(* never taken.  Each child of the root is counted as owing one slot from  *)
(* the moment make_tree asks for it until its call returns, whether the    *)
(* slot was granted or not (RootDebt): a refusal means that the limit was  *)
(* reached, and so that as many slots are taken or leaked.  That nobody is *)
(* at work when make_tree asks follows from the names of the calls: a call *)
(* that has returned has no call below it (SortNames, CallNames).          *)
(***************************************************************************)
EXTENDS TreeBuild, MergeSort_proofs

CallPcs == {"call", "sort", "left", "right", "join", "returned", "not created"}

AfterRight == {"create left", "create right", "left", "right", "return"}

MainPcs == {"main", "sort", "ask right"} \cup AfterRight

IsCall(c) ==
  /\ c = [points |-> c.points, depth |-> c.depth, dimension |-> c.dimension,
          is_thread |-> c.is_thread, thread |-> c.thread, pc |-> c.pc]
  /\ c.is_thread \in BOOLEAN /\ c.thread \in BOOLEAN
  /\ c.pc \in CallPcs

(* A child of the root releases a slot in any case, another call if it has a thread. *)
IsCallOf(p, c) ==
  /\ IsCall(c)
  /\ p \in Seq(Sides) /\ Len(p) >= 1
  /\ c.depth = Len(p)
  /\ c.is_thread <=> (Len(p) = 1 \/ c.thread)

CallsShape ==
  /\ calls = [p \in DOMAIN calls |-> calls[p]]
  /\ IsFiniteSet(DOMAIN calls)
  /\ \A p \in DOMAIN calls : IsCallOf(p, calls[p])

(* The call n levels below the sort that was asked for, on the way to id, is at a control *)
(* point behind the fork of the half that leads to id.                                     *)
Above(id, n) == <<id[1], SubSeq(id[2], 1, n)>>

SortLeads(pc, side) == pc = "right" \/ (pc = "left" /\ side = "l")

SortNames ==
  \A id \in DOMAIN sorts :
    /\ id = <<id[1], id[2]>> /\ id[2] \in Seq(Sides)
    /\ \A n \in 0 .. Len(id[2]) - 1 :
         /\ Above(id, n) \in DOMAIN sorts
         /\ SortLeads(sorts[Above(id, n)].pc, id[2][n + 1])

Owner(p) == SubSeq(p, 1, Len(p) - 1)

CallLeads(pc, side) == pc = "join" \/ (pc = "right" /\ side = "l")

CallNames ==
  \A p \in DOMAIN calls : Len(p) > 1 =>
    Owner(p) \in DOMAIN calls /\ CallLeads(calls[Owner(p)].pc, p[Len(p)])

(* A sort works for a call that waits for it. *)
SortOwners ==
  \A id \in DOMAIN sorts :
    IF id[1] = <<>> THEN main.pc = "sort"
                    ELSE id[1] \in DOMAIN calls /\ calls[id[1]].pc = "sort"

(* Which calls there can be when make_tree is at a control point. *)
MainInv ==
  /\ main \in [pc : MainPcs, l : BOOLEAN, r : BOOLEAN]
  /\ main.pc \in {"main", "sort", "ask right", "create left"} => DOMAIN calls = {}
  /\ main.pc \in {"main", "sort", "ask right"} => ~main.r
  /\ <<"l">> \in DOMAIN calls => (main.pc \in {"create right", "left"} => main.l)
  /\ <<"r">> \in DOMAIN calls => /\ main.pc # "create right"
                                 /\ main.pc \in {"left", "right"} => main.r
  /\ status = "built" =>
       main.pc \in {"main", "return"} /\ <<"l">> \notin DOMAIN calls /\ <<"r">> \notin DOMAIN calls

Asked(side) == main.pc \in AfterRight \/ (side = "l" /\ main.pc = "ask right")

RootDebt == {side \in Sides : status # "built" /\ Asked(side) /\ ~Returned(<<side>>)}

InnerThreads == {p \in DOMAIN calls : Len(p) > 1 /\ calls[p].thread /\ calls[p].pc # "returned"}

Covered ==
  Cardinality(RootDebt) + Cardinality(InnerThreads) + Cardinality(SortThreads) <= tmp_thread_count

DataInv ==
  /\ train \in Datasets
  /\ status \in {"running", "built", "exit", "abort", "segfault"}
  /\ failed_creates \in 0 .. CreateFailures

IInv ==
  /\ cores >= 1
  /\ SortsShape /\ CallsShape
  /\ SortNames /\ CallNames /\ SortOwners
  /\ DataInv /\ MainInv
  /\ BudgetBounds /\ Covered

-----------------------------------------------------------------------------
(* Paths. *)

LEMMA PathAppend ==
  ASSUME NEW p \in Seq(Sides), NEW side \in Sides
  PROVE  /\ Append(p, side) \in Seq(Sides)
         /\ Len(Append(p, side)) = Len(p) + 1
         /\ Append(p, side)[Len(p) + 1] = side
         /\ \A n \in 0 .. Len(p) : SubSeq(Append(p, side), 1, n) = SubSeq(p, 1, n)
         /\ SubSeq(p, 1, Len(p)) = p
<1> DEFINE q == Append(p, side)
<1>1. /\ q \in Seq(Sides) /\ Len(q) = Len(p) + 1 /\ q[Len(p) + 1] = side
      /\ \A i \in 1 .. Len(p) : q[i] = p[i]
  BY AppendProperties
<1>2. \A i \in 1 .. Len(p) : p[i] \in Sides
  BY ElementOfSeq
<1>3. Len(p) \in Nat
  BY LenProperties
<1> HIDE DEF q
<1>4. ASSUME NEW n \in 0 .. Len(p)
      PROVE  SubSeq(q, 1, n) = SubSeq(p, 1, n)
  <2>1. /\ SubSeq(p, 1, n) \in Seq(Sides) /\ Len(SubSeq(p, 1, n)) = n
        /\ \A i \in 1 .. n : SubSeq(p, 1, n)[i] = p[i]
    BY <1>2, <1>3, SubSeqProperties
  <2>2. /\ SubSeq(q, 1, n) \in Seq(Sides) /\ Len(SubSeq(q, 1, n)) = n
        /\ \A i \in 1 .. n : SubSeq(q, 1, n)[i] = q[i]
    BY <1>1, <1>2, <1>3, SubSeqProperties
  <2> QED
    BY <1>1, <1>3, <2>1, <2>2, SeqEqual
<1>5. SubSeq(p, 1, Len(p)) = p
  BY SubSeqFull
<1> QED
  BY <1>1, <1>4, <1>5 DEF q

LEMMA PathPrefix ==
  ASSUME NEW p \in Seq(Sides), NEW n \in 0 .. Len(p) - 1
  PROVE  /\ Len(p) \in Nat /\ p[n + 1] \in Sides
         /\ SubSeq(p, 1, n) \in Seq(Sides) /\ Len(SubSeq(p, 1, n)) = n
         /\ SubSeq(p, 1, n + 1) = Append(SubSeq(p, 1, n), p[n + 1])
<1> DEFINE a == SubSeq(p, 1, n)
           b == SubSeq(p, 1, n + 1)
           c == Append(a, p[n + 1])
<1>1. Len(p) \in Nat /\ \A i \in 1 .. Len(p) : p[i] \in Sides
  BY LenProperties, ElementOfSeq
<1>2. a \in Seq(Sides) /\ Len(a) = n /\ \A i \in 1 .. n : a[i] = p[i]
  BY <1>1, SubSeqProperties
<1>3. b \in Seq(Sides) /\ Len(b) = n + 1 /\ \A i \in 1 .. n + 1 : b[i] = p[i]
  BY <1>1, SubSeqProperties
<1> HIDE DEF a, b
<1>4. /\ c \in Seq(Sides) /\ Len(c) = n + 1 /\ c[n + 1] = p[n + 1]
      /\ \A i \in 1 .. n : c[i] = a[i]
  BY <1>1, <1>2, AppendProperties
<1> HIDE DEF c
<1>5. b = c
  <2>1. ASSUME NEW i \in 1 .. n + 1 PROVE b[i] = c[i]
    <3>1. CASE i = n + 1
      BY <1>3, <1>4, <3>1
    <3>2. CASE i \in 1 .. n
      BY <1>2, <1>3, <1>4, <3>2
    <3> QED
      BY <3>1, <3>2, <1>1
  <2> QED
    BY <1>3, <1>4, <2>1, SeqEqual
<1> QED
  BY <1>1, <1>2, <1>5 DEF a, b, c

-----------------------------------------------------------------------------
(* The names of the sorts. *)

LEMMA HalfName ==
  ASSUME NEW id, IsSortName(id), NEW side \in Sides
  PROVE  /\ IsSortName(Half(id, side)) /\ Half(id, side)[1] = id[1]
         /\ Len(id[2]) \in Nat
         /\ Len(Half(id, side)[2]) = Len(id[2]) + 1
         /\ Half(id, side)[2][Len(id[2]) + 1] = side
         /\ Above(Half(id, side), Len(id[2])) = id
         /\ \A n \in 0 .. Len(id[2]) - 1 :
              /\ Above(Half(id, side), n) = Above(id, n)
              /\ Half(id, side)[2][n + 1] = id[2][n + 1]
<1>1. /\ Half(id, side) = <<id[1], Append(id[2], side)>>
      /\ Half(id, side)[1] = id[1] /\ Half(id, side)[2] = Append(id[2], side)
  BY DEF Half
<1>2. Len(id[2]) \in Nat
  BY LenProperties DEF IsSortName
<1>3. \A n \in 0 .. Len(id[2]) - 1 : Append(id[2], side)[n + 1] = id[2][n + 1]
  BY <1>2, AppendProperties DEF IsSortName
<1>4. /\ Append(id[2], side) \in Seq(Sides)
      /\ Len(Append(id[2], side)) = Len(id[2]) + 1
      /\ Append(id[2], side)[Len(id[2]) + 1] = side
      /\ \A n \in 0 .. Len(id[2]) : SubSeq(Append(id[2], side), 1, n) = SubSeq(id[2], 1, n)
      /\ SubSeq(id[2], 1, Len(id[2])) = id[2]
  BY PathAppend DEF IsSortName
<1> QED
  BY <1>1, <1>2, <1>3, <1>4 DEF IsSortName, Above

LEMMA AboveName ==
  ASSUME NEW id, IsSortName(id), NEW n \in 0 .. Len(id[2]) - 1
  PROVE  /\ Len(id[2]) \in Nat /\ id[2][n + 1] \in Sides
         /\ IsSortName(Above(id, n)) /\ Above(id, n)[1] = id[1] /\ Len(Above(id, n)[2]) = n
         /\ n + 1 < Len(id[2]) => Half(Above(id, n), id[2][n + 1]) = Above(id, n + 1)
         /\ n + 1 = Len(id[2]) => Half(Above(id, n), id[2][n + 1]) = id
<1>1. /\ Above(id, n) = <<id[1], SubSeq(id[2], 1, n)>>
      /\ Above(id, n)[1] = id[1] /\ Above(id, n)[2] = SubSeq(id[2], 1, n)
  BY DEF Above
<1>2. /\ Len(id[2]) \in Nat /\ id[2][n + 1] \in Sides
      /\ SubSeq(id[2], 1, n) \in Seq(Sides) /\ Len(SubSeq(id[2], 1, n)) = n
      /\ SubSeq(id[2], 1, n + 1) = Append(SubSeq(id[2], 1, n), id[2][n + 1])
  BY PathPrefix DEF IsSortName
<1>3. Half(Above(id, n), id[2][n + 1]) = <<id[1], SubSeq(id[2], 1, n + 1)>>
  BY <1>1, <1>2 DEF Half
<1>4. n + 1 = Len(id[2]) => SubSeq(id[2], 1, n + 1) = id[2]
  BY SubSeqFull DEF IsSortName
<1> QED
  BY <1>1, <1>2, <1>3, <1>4 DEF IsSortName, Above

Led(id, n) == Above(id, n) \in DOMAIN sorts /\ SortLeads(sorts[Above(id, n)].pc, id[2][n + 1])

LEMMA NamesUnfolded ==
  SortNames <=> \A id \in DOMAIN sorts :
                  IsSortName(id) /\ \A n \in 0 .. Len(id[2]) - 1 : Led(id, n)
  BY DEF SortNames, IsSortName, Led

(* A call that has not forked yet, or has returned, has no call below it. *)
LEMMA NamesForked ==
  ASSUME SortNames, NEW id \in DOMAIN sorts, NEW side \in Sides, NEW new, NEW pc,
         ForkAdds(id, Half(id, side), new, pc),
         ~SortLeads(sorts[id].pc, side), SortLeads(pc, side),
         \A s \in Sides : SortLeads(sorts[id].pc, s) => SortLeads(pc, s)
  PROVE  SortNames'
<1> DEFINE half == Half(id, side)
<1>1. IsSortName(id) /\ \A n \in 0 .. Len(id[2]) - 1 : Led(id, n)
  BY NamesUnfolded
<1>2. /\ IsSortName(half) /\ Len(id[2]) \in Nat /\ Len(half[2]) = Len(id[2]) + 1
      /\ half[2][Len(id[2]) + 1] = side
      /\ Above(half, Len(id[2])) = id
      /\ \A n \in 0 .. Len(id[2]) - 1 :
           Above(half, n) = Above(id, n) /\ half[2][n + 1] = id[2][n + 1]
  BY <1>1, HalfName
<1> HIDE DEF half
<1>3. half \notin DOMAIN sorts
  <2> SUFFICES ASSUME half \in DOMAIN sorts PROVE FALSE
    OBVIOUS
  <2>1. Led(half, Len(id[2]))
    BY <1>2, NamesUnfolded
  <2> QED
    BY <1>2, <2>1 DEF Led
<1>4. /\ DOMAIN sorts' = DOMAIN sorts \cup {half} /\ half # id
      /\ sorts'[id].pc = pc
      /\ \A i \in DOMAIN sorts : i # id => sorts'[i] = sorts[i]
  BY <1>3 DEF ForkAdds, half
<1>5. ASSUME NEW i, IsSortName(i), NEW n \in 0 .. Len(i[2]) - 1, Led(i, n)
      PROVE  Led(i, n)'
  <2>1. i[2][n + 1] \in Sides
    BY <1>5, AboveName
  <2> QED
    BY <1>4, <1>5, <2>1 DEF Led, Above
<1>6. ASSUME NEW n \in 0 .. Len(half[2]) - 1
      PROVE  Led(half, n)'
  <2>1. CASE n = Len(id[2])
    BY <1>2, <1>4, <2>1 DEF Led, Above
  <2>2. CASE n \in 0 .. Len(id[2]) - 1
    <3>1. Led(id, n)'
      BY <1>1, <1>5, <2>2
    <3> QED
      BY <1>2, <2>2, <3>1 DEF Led, Above
  <2> QED
    BY <1>2, <2>1, <2>2
<1>7. \A i \in DOMAIN sorts' : IsSortName(i) /\ \A n \in 0 .. Len(i[2]) - 1 : Led(i, n)'
  <2> SUFFICES ASSUME NEW i \in DOMAIN sorts'
               PROVE  IsSortName(i) /\ \A n \in 0 .. Len(i[2]) - 1 : Led(i, n)'
    OBVIOUS
  <2>1. CASE i = half
    BY <1>2, <1>6, <2>1
  <2>2. CASE i \in DOMAIN sorts
    <3>1. IsSortName(i) /\ \A n \in 0 .. Len(i[2]) - 1 : Led(i, n)
      BY <2>2, NamesUnfolded
    <3> QED
      BY <1>5, <3>1
  <2> QED
    BY <1>4, <2>1, <2>2
<1> QED
  BY <1>7 DEF SortNames, Led, IsSortName, Above

LEMMA NamesKept ==
  ASSUME SortNames,
         \A i \in DOMAIN sorts' : i \in DOMAIN sorts \/ (IsSortName(i) /\ Len(i[2]) = 0),
         \A i \in DOMAIN sorts' \cap DOMAIN sorts : \A n \in 0 .. Len(i[2]) - 1 :
           IsSortName(i) /\ Led(i, n) => Led(i, n)'
  PROVE  SortNames'
<1>1. \A i \in DOMAIN sorts : IsSortName(i) /\ \A n \in 0 .. Len(i[2]) - 1 : Led(i, n)
  BY NamesUnfolded
<1>2. \A i \in DOMAIN sorts' : IsSortName(i) /\ \A n \in 0 .. Len(i[2]) - 1 : Led(i, n)'
  BY <1>1
<1> QED
  BY <1>2 DEF SortNames, Led, IsSortName, Above

LEMMA NamesReturned ==
  ASSUME SortNames, NEW id \in DOMAIN sorts, sorts[id].pc = "call",
         DOMAIN sorts' = DOMAIN sorts,
         \A i \in DOMAIN sorts : i # id => sorts'[i] = sorts[i]
  PROVE  SortNames'
  BY NamesKept DEF Led, Above, SortLeads

LEMMA NamesMerged ==
  ASSUME SortNames, NEW id \in DOMAIN sorts,
         SortReturned(Half(id, "l")), SortReturned(Half(id, "r")),
         DOMAIN sorts' = DOMAIN sorts \ {Half(id, "l"), Half(id, "r")},
         \A i \in DOMAIN sorts' : i # id => sorts'[i] = sorts[i]
  PROVE  SortNames'
<1>1. ASSUME NEW i \in DOMAIN sorts', i \in DOMAIN sorts, NEW n \in 0 .. Len(i[2]) - 1,
             IsSortName(i), Led(i, n)
      PROVE  Led(i, n)'
  <2>1. /\ Len(i[2]) \in Nat /\ i[2][n + 1] \in Sides
        /\ n + 1 < Len(i[2]) => Half(Above(i, n), i[2][n + 1]) = Above(i, n + 1)
        /\ n + 1 = Len(i[2]) => Half(Above(i, n), i[2][n + 1]) = i
    BY <1>1, AboveName
  <2>2. Above(i, n) \in DOMAIN sorts /\ SortLeads(sorts[Above(i, n)].pc, i[2][n + 1])
    BY <1>1 DEF Led
  <2>3. Above(i, n) # id
    <3> SUFFICES ASSUME Above(i, n) = id PROVE FALSE
      OBVIOUS
    <3>1. SortReturned(Half(id, i[2][n + 1])) /\ Half(id, i[2][n + 1]) \notin DOMAIN sorts'
      BY <2>1 DEF Sides
    <3>2. CASE n + 1 = Len(i[2])
      BY <1>1, <2>1, <3>1, <3>2
    <3>3. CASE n + 1 < Len(i[2])
      <4>1. n + 1 \in 0 .. Len(i[2]) - 1
        BY <2>1, <3>3
      <4>2. Led(i, n + 1)
        BY <1>1, <4>1, NamesUnfolded
      <4> QED
        BY <2>1, <3>1, <3>3, <4>2 DEF Led, SortReturned, SortLeads
    <3> QED
      BY <2>1, <3>2, <3>3
  <2>4. Above(i, n) \in DOMAIN sorts'
    BY <2>2 DEF SortReturned, SortLeads
  <2> QED
    BY <2>2, <2>3, <2>4 DEF Led, Above
<1> QED
  BY <1>1, NamesKept

(* When the sort that was asked for has returned, nothing of it is left but its result. *)
LEMMA RootAlone ==
  ASSUME SortNames, NEW p, SortReturned(SortOf(p)), NEW id \in DOMAIN sorts, id[1] = p
  PROVE  id = SortOf(p)
<1>1. IsSortName(id) /\ \A n \in 0 .. Len(id[2]) - 1 : Led(id, n)
  BY NamesUnfolded
<1>2. Len(id[2]) \in Nat
  BY <1>1, LenProperties DEF IsSortName
<1>3. CASE Len(id[2]) = 0
  <2>1. id[2] = <<>>
    BY <1>1, <1>3, EmptySeq DEF IsSortName
  <2> QED
    BY <1>1, <2>1 DEF SortOf, IsSortName
<1>4. CASE Len(id[2]) > 0
  <2>1. Led(id, 0)
    BY <1>1, <1>2, <1>4
  <2>2. Above(id, 0) = SortOf(p)
    BY SubSeqEmpty DEF Above, SortOf
  <2> QED
    BY <2>1, <2>2 DEF Led, SortReturned, SortLeads
<1> QED
  BY <1>2, <1>3, <1>4

LEMMA NamesTaken ==
  ASSUME SortNames, NEW p, SortReturned(SortOf(p)),
         DOMAIN sorts' = DOMAIN sorts \ {SortOf(p)},
         \A i \in DOMAIN sorts' : sorts'[i] = sorts[i]
  PROVE  SortNames'
  BY NamesKept DEF Led, Above, SortLeads, SortReturned

LEMMA NamesAsked ==
  ASSUME SortNames, NEW p, \A id \in DOMAIN sorts : id[1] # p,
         DOMAIN sorts' = DOMAIN sorts \cup {SortOf(p)},
         \A i \in DOMAIN sorts : sorts'[i] = sorts[i]
  PROVE  SortNames'
<1>1. IsSortName(SortOf(p)) /\ Len(SortOf(p)[2]) = 0 /\ SortOf(p)[1] = p
  BY EmptySeq DEF IsSortName, SortOf
<1>2. SortOf(p) \notin DOMAIN sorts
  BY <1>1
<1> QED
  BY <1>1, <1>2, NamesKept DEF Led, Above

LEMMA SortKeepsNames ==
  ASSUME SortsShape, SortNames, SortStep
  PROVE  SortNames' /\ \A i \in DOMAIN sorts' : \E j \in DOMAIN sorts : j[1] = i[1]
<1>1. PICK id \in DOMAIN sorts :
        \/ SortBase(id) \/ SortAssert(id) \/ SortSerial(id)
        \/ SortLeft(id) \/ SortRight(id) \/ SortMerge(id)
  BY DEF SortStep
<1>2. CASE SortBase(id) \/ SortSerial(id)
  <2>1. /\ sorts[id].pc = "call" /\ DOMAIN sorts' = DOMAIN sorts
        /\ \A i \in DOMAIN sorts : i # id => sorts'[i] = sorts[i]
    BY <1>2 DEF SortBase, SortSerial, SortsShape
  <2> QED
    BY <2>1, NamesReturned
<1>3. CASE SortAssert(id)
  <2>1. sorts' = sorts
    BY <1>3 DEF SortAssert
  <2> QED
    BY <2>1 DEF SortNames, Above
<1>4. ASSUME NEW side \in Sides, NEW begin, NEW end, NEW pc \in SortPcs,
             SortFork(id, side, begin, end, pc),
             ~SortLeads(sorts[id].pc, side), SortLeads(pc, side),
             \A s \in Sides : SortLeads(sorts[id].pc, s) => SortLeads(pc, s)
      PROVE  SortNames' /\ \A i \in DOMAIN sorts' : \E j \in DOMAIN sorts : j[1] = i[1]
  <2>1. CASE sorts' = sorts
    BY <2>1 DEF SortNames, Above
  <2>2. CASE sorts' # sorts
    <3>1. PICK new : IsSortCall(new) /\ Forks(id, Half(id, side), new, pc)
      BY <1>4, <2>2, ForkOutcome
    <3>2. ForkAdds(id, Half(id, side), new, pc)
      BY <3>1, Forked
    <3>3. SortNames'
      BY <1>4, <3>2, NamesForked
    <3>4. DOMAIN sorts' = DOMAIN sorts \cup {Half(id, side)} /\ Half(id, side)[1] = id[1]
      BY <3>2 DEF ForkAdds, Half
    <3> QED
      BY <3>3, <3>4
  <2> QED
    BY <2>1, <2>2
<1>5. CASE SortLeft(id)
  <2>1. PICK begin, end : SortFork(id, "l", begin, end, "left") /\ sorts[id].pc = "call"
    BY <1>5 DEF SortLeft
  <2> QED
    BY <2>1, <1>4 DEF Sides, SortPcs, SortLeads
<1>6. CASE SortRight(id)
  <2>1. PICK begin, end : SortFork(id, "r", begin, end, "right") /\ sorts[id].pc = "left"
    BY <1>6 DEF SortRight
  <2> QED
    BY <2>1, <1>4 DEF Sides, SortPcs, SortLeads
<1>7. CASE SortMerge(id)
  <2>1. /\ SortReturned(Half(id, "l")) /\ SortReturned(Half(id, "r"))
        /\ DOMAIN sorts' = DOMAIN sorts \ {Half(id, "l"), Half(id, "r")}
        /\ \A i \in DOMAIN sorts' : i # id => sorts'[i] = sorts[i]
    BY <1>7 DEF SortMerge, Drop, SortsShape
  <2> QED
    BY <2>1, NamesMerged
<1> QED
  BY <1>1, <1>2, <1>3, <1>5, <1>6, <1>7

-----------------------------------------------------------------------------
(* What the steps do to the calls. *)

(* What a call was given does not change. *)
SameCall(c, d) ==
  /\ d.points = c.points /\ d.dimension = c.dimension
  /\ d.depth = c.depth /\ d.is_thread = c.is_thread /\ d.thread = c.thread

(* f is calls after the call for p has gone on to pc. *)
Changed(f, p, pc) ==
  /\ f = [q \in DOMAIN f |-> f[q]]
  /\ DOMAIN f = DOMAIN calls
  /\ \A q \in DOMAIN calls : q # p => f[q] = calls[q]
  /\ IsCallOf(p, f[p]) /\ f[p].pc = pc /\ SameCall(calls[p], f[p])

LEMMA RecordMoved ==
  ASSUME NEW c, IsCall(c), NEW pc \in CallPcs, NEW d, d = [c EXCEPT !.pc = pc]
  PROVE  IsCall(d) /\ d.pc = pc /\ SameCall(c, d)
<1> DEFINE fields == {"points", "depth", "dimension", "is_thread", "thread", "pc"}
<1>1. DOMAIN c = fields /\ c = [x \in fields |-> c[x]]
  BY DEF IsCall
<1>2. d = [points |-> c.points, depth |-> c.depth, dimension |-> c.dimension,
           is_thread |-> c.is_thread, thread |-> c.thread, pc |-> pc]
  BY <1>1
<1> QED
  BY <1>2 DEF IsCall, SameCall

Moves(f, p, pc) == f = [calls EXCEPT ![p].pc = pc]

LEMMA CallMoved ==
  ASSUME CallsShape, NEW p \in DOMAIN calls, NEW pc \in CallPcs, NEW f, Moves(f, p, pc)
  PROVE  Changed(f, p, pc)
<1>1. PICK d : d = [calls[p] EXCEPT !.pc = pc]
  OBVIOUS
<1>2. IsCallOf(p, calls[p])
  BY DEF CallsShape
<1>3. IsCall(d) /\ d.pc = pc /\ SameCall(calls[p], d)
  BY <1>1, <1>2, RecordMoved DEF IsCallOf
<1>4. /\ f = [q \in DOMAIN f |-> f[q]] /\ DOMAIN f = DOMAIN calls
      /\ \A q \in DOMAIN calls : q # p => f[q] = calls[q]
      /\ f[p] = d
  BY <1>1 DEF Moves, CallsShape
<1>5. IsCallOf(p, d)
  BY <1>2, <1>3 DEF IsCallOf, SameCall
<1> QED
  BY <1>3, <1>4, <1>5 DEF Changed

LEMMA ShapeMoved ==
  ASSUME CallsShape, NEW p \in DOMAIN calls, NEW pc, Changed(calls', p, pc)
  PROVE  CallsShape'
<1>1. IsFiniteSet(DOMAIN calls')
  BY DEF Changed, CallsShape
<1>2. calls' = [q \in DOMAIN calls' |-> calls'[q]]
  BY DEF Changed
<1>3. \A q \in DOMAIN calls' : IsCallOf(q, calls'[q])
  BY DEF Changed, CallsShape
<1> QED
  BY <1>1, <1>2, <1>3 DEF CallsShape

(* calls after the call for p has gone on to pc and the call c for q has been added. *)
Added(p, pc, q, c) ==
  /\ CallsShape'
  /\ DOMAIN calls' = DOMAIN calls \cup {q}
  /\ calls'[q] = c
  /\ q # p => calls'[p].pc = pc /\ SameCall(calls[p], calls'[p])
  /\ \A i \in DOMAIN calls : i # p /\ i # q => calls'[i] = calls[i]

LEMMA CallAdded ==
  ASSUME CallsShape, NEW p \in DOMAIN calls, NEW pc, NEW f, Changed(f, p, pc),
         NEW q, NEW c, IsCallOf(q, c), calls' = Put(f, q, c)
  PROVE  Added(p, pc, q, c)
<1>1. calls' = [y \in DOMAIN calls \cup {q} |-> IF y = q THEN c ELSE f[y]]
  BY DEF Put, Changed
<1>2. IsFiniteSet(DOMAIN calls \cup {q})
  BY FS_AddElement DEF CallsShape
<1>3. DOMAIN calls' = DOMAIN calls \cup {q}
  BY <1>1
<1>4. \A i \in DOMAIN calls' : IsCallOf(i, calls'[i])
  BY <1>1 DEF Changed, CallsShape
<1>5. CallsShape'
  BY <1>1, <1>2, <1>3, <1>4 DEF CallsShape
<1> QED
  BY <1>1, <1>5 DEF Changed, Added

LEMMA RootAdded ==
  ASSUME CallsShape, NEW q, NEW c, IsCallOf(q, c), calls' = Put(calls, q, c)
  PROVE  /\ CallsShape'
         /\ DOMAIN calls' = DOMAIN calls \cup {q}
         /\ calls'[q] = c
         /\ \A i \in DOMAIN calls : i # q => calls'[i] = calls[i]
<1>1. calls' = [y \in DOMAIN calls \cup {q} |-> IF y = q THEN c ELSE calls[y]]
  BY DEF Put
<1>2. IsFiniteSet(DOMAIN calls \cup {q})
  BY FS_AddElement DEF CallsShape
<1>3. \A i \in DOMAIN calls' : IsCallOf(i, calls'[i])
  BY <1>1 DEF CallsShape
<1> QED
  BY <1>1, <1>2, <1>3 DEF CallsShape

LEMMA CallsDropped ==
  ASSUME CallsShape, NEW p, p \in DOMAIN calls, NEW f, Changed(f, p, "returned"), NEW S,
         calls' = Drop(f, S)
  PROVE  /\ CallsShape'
         /\ DOMAIN calls' = DOMAIN calls \ S
         /\ p \notin S => calls'[p].pc = "returned" /\ SameCall(calls[p], calls'[p])
         /\ \A i \in DOMAIN calls' : i # p => calls'[i] = calls[i]
<1>1. calls' = [y \in DOMAIN calls \ S |-> f[y]]
  BY DEF Drop, Changed
<1>2. IsFiniteSet(DOMAIN calls \ S)
  BY FS_Subset DEF CallsShape
<1>3. \A i \in DOMAIN calls' : IsCallOf(i, calls'[i])
  BY <1>1 DEF Changed, CallsShape
<1> QED
  BY <1>1, <1>2, <1>3 DEF CallsShape, Changed

-----------------------------------------------------------------------------
(* The names of the calls. *)

LEMMA ChildName ==
  ASSUME NEW p \in Seq(Sides), Len(p) >= 1, NEW side \in Sides
  PROVE  /\ Append(p, side) \in Seq(Sides) /\ Len(Append(p, side)) = Len(p) + 1
         /\ Len(p) \in Nat /\ Len(Append(p, side)) > 1
         /\ Owner(Append(p, side)) = p
         /\ Append(p, side)[Len(Append(p, side))] = side
         /\ Append(p, side) # p
<1>1. Len(p) \in Nat
  BY LenProperties
<1> QED
  BY <1>1, PathAppend DEF Owner

LEMMA RootName ==
  ASSUME NEW q, Len(q) > 1, NEW side
  PROVE  q # <<side>>
<1>1. Len(<<side>>) = 1
  OBVIOUS
<1> QED
  BY <1>1

LEMMA OwnerName ==
  ASSUME NEW q \in Seq(Sides), Len(q) > 1
  PROVE  /\ q[Len(q)] \in Sides /\ q = Append(Owner(q), q[Len(q)])
         /\ Owner(q) # q /\ Owner(q) \in Seq(Sides)
<1>1. Len(q) \in Nat
  BY LenProperties
<1>2. Len(q) - 1 \in 0 .. Len(q) - 1
  BY <1>1
<1>3. /\ q[Len(q)] \in Sides
      /\ SubSeq(q, 1, Len(q) - 1) \in Seq(Sides) /\ Len(SubSeq(q, 1, Len(q) - 1)) = Len(q) - 1
      /\ SubSeq(q, 1, Len(q)) = Append(SubSeq(q, 1, Len(q) - 1), q[Len(q)])
  BY <1>1, <1>2, PathPrefix
<1> QED
  BY <1>1, <1>3, SubSeqFull DEF Owner

LEMMA Named ==
  ASSUME CallsShape, NEW p \in DOMAIN calls
  PROVE  p \in Seq(Sides) /\ Len(p) \in Nat /\ Len(p) >= 1 /\ IsCall(calls[p])
  BY LenProperties DEF CallsShape, IsCallOf

LEMMA CallNamesMoved ==
  ASSUME CallsShape, CallNames, NEW p \in DOMAIN calls, NEW pc, Changed(calls', p, pc),
         \A s \in Sides : ~CallLeads(calls[p].pc, s)
  PROVE  CallNames'
<1>1. ASSUME NEW q \in DOMAIN calls', Len(q) > 1
      PROVE  Owner(q) \in DOMAIN calls' /\ CallLeads(calls'[Owner(q)].pc, q[Len(q)])
  <2>1. q \in DOMAIN calls
    BY DEF Changed
  <2>2. Owner(q) \in DOMAIN calls /\ CallLeads(calls[Owner(q)].pc, q[Len(q)])
    BY <1>1, <2>1 DEF CallNames
  <2>3. q[Len(q)] \in Sides
    BY <1>1, <2>1, Named, OwnerName
  <2> QED
    BY <2>2, <2>3 DEF Changed
<1> QED
  BY <1>1 DEF CallNames, Owner

LEMMA CallNamesAdded ==
  ASSUME CallsShape, CallNames, NEW p \in DOMAIN calls, NEW pc, NEW side \in Sides, NEW c,
         Added(p, pc, Append(p, side), c),
         ~CallLeads(calls[p].pc, side), CallLeads(pc, side),
         \A s \in Sides : CallLeads(calls[p].pc, s) => CallLeads(pc, s)
  PROVE  CallNames' /\ Append(p, side) \notin DOMAIN calls
<1>1. PICK q : q = Append(p, side)
  OBVIOUS
<1>2. /\ q \in Seq(Sides) /\ Len(q) > 1 /\ Owner(q) = p /\ q[Len(q)] = side /\ q # p
  BY <1>1, Named, ChildName
<1>3. q \notin DOMAIN calls
  BY <1>2 DEF CallNames
<1>4. /\ DOMAIN calls' = DOMAIN calls \cup {q} /\ calls'[p].pc = pc
      /\ \A i \in DOMAIN calls : i # p => calls'[i] = calls[i]
  BY <1>1, <1>2, <1>3 DEF Added
<1>5. ASSUME NEW i \in DOMAIN calls', Len(i) > 1
      PROVE  Owner(i) \in DOMAIN calls' /\ CallLeads(calls'[Owner(i)].pc, i[Len(i)])
  <2>1. CASE i = q
    BY <1>2, <1>4, <2>1
  <2>2. CASE i \in DOMAIN calls
    <3>1. Owner(i) \in DOMAIN calls /\ CallLeads(calls[Owner(i)].pc, i[Len(i)])
      BY <1>5, <2>2 DEF CallNames
    <3>2. i[Len(i)] \in Sides
      BY <1>5, <2>2, Named, OwnerName
    <3> QED
      BY <1>4, <3>1, <3>2
  <2> QED
    BY <1>4, <2>1, <2>2
<1> QED
  BY <1>1, <1>3, <1>5 DEF CallNames, Owner

(* Calls that have returned go when their caller returns: nobody is below them. *)
LEMMA CallNamesDropped ==
  ASSUME CallsShape, CallNames, NEW p \in DOMAIN calls, Len(p) >= 1, NEW S,
         S = {Append(p, "l"), Append(p, "r")}, \A q \in S : Returned(q),
         DOMAIN calls' = DOMAIN calls \ S,
         \A i \in DOMAIN calls' : i # p => calls'[i] = calls[i]
  PROVE  CallNames'
<1>1. ASSUME NEW i \in DOMAIN calls', Len(i) > 1
      PROVE  Owner(i) \in DOMAIN calls' /\ CallLeads(calls'[Owner(i)].pc, i[Len(i)])
  <2>1. i \in DOMAIN calls
    OBVIOUS
  <2>2. /\ i[Len(i)] \in Sides /\ i = Append(Owner(i), i[Len(i)])
    BY <1>1, <2>1, Named, OwnerName
  <2>3. Owner(i) \in DOMAIN calls /\ CallLeads(calls[Owner(i)].pc, i[Len(i)])
    BY <1>1, <2>1 DEF CallNames
  <2>4. Owner(i) # p
    BY <2>2 DEF Sides
  <2>5. Owner(i) \notin S
    BY <2>3 DEF Returned, CallLeads
  <2> QED
    BY <2>3, <2>4, <2>5
<1> QED
  BY <1>1 DEF CallNames, Owner

-----------------------------------------------------------------------------
(* The slots. *)

LEMMA SidesCount == IsFiniteSet(Sides) /\ Cardinality(Sides) = 2
<1>1. IsFiniteSet({"l"}) /\ Cardinality({"l"}) = 1
  BY FS_Singleton
<1>2. IsFiniteSet({"l"} \cup {"r"}) /\ Cardinality({"l"} \cup {"r"}) = 1 + 1
  BY <1>1, FS_AddElement
<1>3. {"l"} \cup {"r"} = Sides
  BY DEF Sides
<1> QED
  BY <1>2, <1>3

LEMMA SlotsCount ==
  ASSUME CallsShape, SortsShape
  PROVE  /\ IsFiniteSet(RootDebt) /\ Cardinality(RootDebt) \in Nat
         /\ IsFiniteSet(InnerThreads) /\ Cardinality(InnerThreads) \in Nat
         /\ IsFiniteSet(SortThreads) /\ Cardinality(SortThreads) \in Nat
<1>1. IsFiniteSet(RootDebt)
  BY SidesCount, FS_Subset DEF RootDebt
<1>2. IsFiniteSet(InnerThreads)
  BY FS_Subset DEF InnerThreads, CallsShape
<1> QED
  BY <1>1, <1>2, FS_CardinalityType, ThreadsCount

SlotsInv == CallsShape /\ SortsShape /\ BudgetBounds /\ Covered

LEMMA SlotsKept ==
  ASSUME SlotsInv, RootDebt' \subseteq RootDebt, InnerThreads' \subseteq InnerThreads,
         SortThreads' \subseteq SortThreads, UNCHANGED budgetVars
  PROVE  BudgetBounds' /\ Covered'
<1>1. /\ Cardinality(RootDebt') \in Nat /\ Cardinality(RootDebt') <= Cardinality(RootDebt)
      /\ Cardinality(InnerThreads') \in Nat
      /\ Cardinality(InnerThreads') <= Cardinality(InnerThreads)
      /\ Cardinality(SortThreads') \in Nat
      /\ Cardinality(SortThreads') <= Cardinality(SortThreads)
  BY SlotsCount, NoMore DEF SlotsInv
<1>2. /\ Cardinality(RootDebt) \in Nat /\ Cardinality(InnerThreads) \in Nat
      /\ Cardinality(SortThreads) \in Nat
  BY SlotsCount DEF SlotsInv
<1> QED
  BY <1>1, <1>2, LimitConstant DEF SlotsInv, Covered, BudgetBounds, budgetVars

LEMMA SlotsReleased ==
  ASSUME SlotsInv, NEW x,
         \/ /\ x \in RootDebt /\ RootDebt' \subseteq RootDebt \ {x}
            /\ InnerThreads' \subseteq InnerThreads
         \/ /\ x \in InnerThreads /\ InnerThreads' \subseteq InnerThreads \ {x}
            /\ RootDebt' \subseteq RootDebt,
         SortThreads' \subseteq SortThreads, decrement_tmp_threads
  PROVE  BudgetBounds' /\ Covered'
<1>1. /\ Cardinality(RootDebt) \in Nat /\ Cardinality(InnerThreads) \in Nat
      /\ Cardinality(SortThreads) \in Nat
  BY SlotsCount DEF SlotsInv
<1>2. Cardinality(SortThreads') \in Nat /\ Cardinality(SortThreads') <= Cardinality(SortThreads)
  BY SlotsCount, NoMore DEF SlotsInv
<1>3. /\ Cardinality(RootDebt') \in Nat /\ Cardinality(InnerThreads') \in Nat
      /\ Cardinality(RootDebt) + Cardinality(InnerThreads) > 0
      /\ Cardinality(RootDebt') + Cardinality(InnerThreads')
           <= Cardinality(RootDebt) + Cardinality(InnerThreads) - 1
  <2>1. CASE x \in RootDebt /\ RootDebt' \subseteq RootDebt \ {x}
             /\ InnerThreads' \subseteq InnerThreads
    <3>1. /\ Cardinality(RootDebt') \in Nat /\ Cardinality(RootDebt) > 0
          /\ Cardinality(RootDebt') <= Cardinality(RootDebt) - 1
      BY <2>1, SlotsCount, OneLess DEF SlotsInv
    <3>2. /\ Cardinality(InnerThreads') \in Nat
          /\ Cardinality(InnerThreads') <= Cardinality(InnerThreads)
      BY <2>1, SlotsCount, NoMore DEF SlotsInv
    <3> QED
      BY <1>1, <3>1, <3>2
  <2>2. CASE x \in InnerThreads /\ InnerThreads' \subseteq InnerThreads \ {x}
             /\ RootDebt' \subseteq RootDebt
    <3>1. /\ Cardinality(InnerThreads') \in Nat /\ Cardinality(InnerThreads) > 0
          /\ Cardinality(InnerThreads') <= Cardinality(InnerThreads) - 1
      BY <2>2, SlotsCount, OneLess DEF SlotsInv
    <3>2. /\ Cardinality(RootDebt') \in Nat
          /\ Cardinality(RootDebt') <= Cardinality(RootDebt)
      BY <2>2, SlotsCount, NoMore DEF SlotsInv
    <3> QED
      BY <1>1, <3>1, <3>2
  <2> QED
    BY <2>1, <2>2
<1>4. tmp_thread_count \in Nat /\ tmp_thread_count > 0
  BY <1>1, <1>3 DEF SlotsInv, BudgetBounds, Covered
<1>5. BudgetBounds' /\ tmp_thread_count' = tmp_thread_count - 1
  BY <1>4, Released DEF SlotsInv
<1> QED
  BY <1>1, <1>2, <1>3, <1>4, <1>5 DEF SlotsInv, Covered

LEMMA SlotsGranted ==
  ASSUME SlotsInv, NEW x, RootDebt' \subseteq RootDebt, InnerThreads' \subseteq InnerThreads \cup {x},
         SortThreads' \subseteq SortThreads, make_thread(TRUE)
  PROVE  BudgetBounds' /\ Covered'
<1>1. /\ Cardinality(RootDebt) \in Nat /\ Cardinality(InnerThreads) \in Nat
      /\ Cardinality(SortThreads) \in Nat
  BY SlotsCount DEF SlotsInv
<1>2. /\ Cardinality(RootDebt') \in Nat /\ Cardinality(RootDebt') <= Cardinality(RootDebt)
      /\ Cardinality(SortThreads') \in Nat
      /\ Cardinality(SortThreads') <= Cardinality(SortThreads)
  BY SlotsCount, NoMore DEF SlotsInv
<1>3. /\ Cardinality(InnerThreads') \in Nat
      /\ Cardinality(InnerThreads') <= Cardinality(InnerThreads) + 1
  BY SlotsCount, OneMore DEF SlotsInv
<1>4. BudgetBounds' /\ tmp_thread_count' = tmp_thread_count + 1
  BY Granted DEF SlotsInv
<1> QED
  BY <1>1, <1>2, <1>3, <1>4 DEF SlotsInv, Covered, BudgetBounds

LEMMA SlotsRefused ==
  ASSUME SlotsInv, RootDebt' \subseteq RootDebt, InnerThreads' \subseteq InnerThreads,
         SortThreads' \subseteq SortThreads, make_thread(FALSE)
  PROVE  BudgetBounds' /\ Covered'
<1>1. /\ Cardinality(RootDebt) \in Nat /\ Cardinality(InnerThreads) \in Nat
      /\ Cardinality(SortThreads) \in Nat
  BY SlotsCount DEF SlotsInv
<1>2. /\ Cardinality(RootDebt') \in Nat /\ Cardinality(RootDebt') <= Cardinality(RootDebt)
      /\ Cardinality(InnerThreads') \in Nat
      /\ Cardinality(InnerThreads') <= Cardinality(InnerThreads)
      /\ Cardinality(SortThreads') \in Nat
      /\ Cardinality(SortThreads') <= Cardinality(SortThreads)
  BY SlotsCount, NoMore DEF SlotsInv
<1>3. BudgetBounds' /\ tmp_thread_count' = tmp_thread_count
  BY Granted DEF SlotsInv
<1> QED
  BY <1>1, <1>2, <1>3 DEF SlotsInv, Covered, BudgetBounds

-----------------------------------------------------------------------------
(* What the steps of populate_nodes have in common. *)

LEMMA DebtKept ==
  ASSUME status = "running", main' = main,
         \A side \in Sides : Returned(<<side>>) => Returned(<<side>>)'
  PROVE  RootDebt' \subseteq RootDebt
  BY DEF RootDebt, Asked

LEMMA MainKept ==
  ASSUME MainInv, main' = main, status' # "built", DOMAIN calls # {},
         \A side \in Sides : <<side>> \in DOMAIN calls' => <<side>> \in DOMAIN calls
  PROVE  MainInv'
  BY DEF MainInv, Sides

LEMMA OwnersKept ==
  ASSUME SortOwners, sorts' = sorts, main' = main,
         \A q \in DOMAIN calls : calls[q].pc = "sort" =>
           q \in DOMAIN calls' /\ calls'[q].pc = "sort"
  PROVE  SortOwners'
  BY DEF SortOwners

LEMMA SortsUntouched ==
  ASSUME sorts' = sorts
  PROVE  /\ SortsShape => SortsShape'
         /\ SortNames => SortNames'
         /\ SortThreads' = SortThreads
  BY DEF SortsShape, SortNames, Above, SortThreads, SortReturned

LEMMA RootSlot ==
  ASSUME CallsShape, MainInv, NEW p \in DOMAIN calls, Len(p) = 1,
         status = "running", calls[p].pc # "returned"
  PROVE  p[1] \in RootDebt /\ p = <<p[1]>>
<1>1. p \in Seq(Sides)
  BY Named
<1>2. p[1] \in Sides /\ p = <<p[1]>>
  BY <1>1
<1>3. main.pc \in AfterRight
  BY DEF MainInv, MainPcs, AfterRight
<1> QED
  BY <1>2, <1>3 DEF RootDebt, Asked, Returned

LEMMA InnerSlot ==
  ASSUME CallsShape, NEW p \in DOMAIN calls, Len(p) # 1, calls[p].is_thread,
         calls[p].pc # "returned"
  PROVE  p \in InnerThreads
<1>1. Len(p) > 1
  <2>1. PICK n \in Nat : n = Len(p) /\ n >= 1
    BY Named
  <2> QED
    BY <2>1
<1>2. calls[p].is_thread <=> (Len(p) = 1 \/ calls[p].thread)
  BY Zenon DEF CallsShape, IsCallOf
<1>3. calls[p].thread
  BY <1>2
<1> QED
  BY <1>1, <1>3 DEF InnerThreads

(* A call returns and releases the slot it is counted with, or keeps it. *)
LEMMA SlotsReturned ==
  ASSUME SlotsInv, MainInv, NEW p \in DOMAIN calls, status = "running", main' = main,
         calls[p].pc # "returned", SortThreads' \subseteq SortThreads,
         p \in DOMAIN calls', calls'[p].pc = "returned",
         \A q \in DOMAIN calls' : q # p => q \in DOMAIN calls /\ calls'[q] = calls[q],
         \A side \in Sides : <<side>> \in DOMAIN calls => <<side>> \in DOMAIN calls',
         return_thread(calls[p].is_thread) \/ UNCHANGED budgetVars
  PROVE  BudgetBounds' /\ Covered'
<1>1. RootDebt' \subseteq RootDebt
  BY DebtKept DEF Returned
<1>2. InnerThreads' \subseteq InnerThreads \ {p}
  BY DEF InnerThreads
<1>3. CASE UNCHANGED budgetVars
  BY <1>1, <1>2, <1>3, SlotsKept
<1>4. CASE calls[p].is_thread /\ decrement_tmp_threads
  <2>1. CASE Len(p) = 1
    <3>1. p[1] \in RootDebt /\ p = <<p[1]>>
      BY <2>1, RootSlot DEF SlotsInv
    <3>2. RootDebt' \subseteq RootDebt \ {p[1]}
      BY <1>1, <3>1 DEF RootDebt, Returned
    <3> QED
      BY <1>2, <1>4, <3>1, <3>2, SlotsReleased
  <2>2. CASE Len(p) # 1
    <3>1. p \in InnerThreads
      BY <1>4, <2>2, InnerSlot DEF SlotsInv
    <3> QED
      BY <1>1, <1>2, <1>4, <3>1, SlotsReleased
  <2> QED
    BY <2>1, <2>2
<1> QED
  BY <1>3, <1>4 DEF return_thread

(* A call goes on, or returns, and no call is added or taken away. *)
LEMMA MoveKeeps ==
  ASSUME IInv, status = "running", NEW p \in DOMAIN calls, NEW pc, Changed(calls', p, pc),
         calls[p].pc # "returned", \A s \in Sides : ~CallLeads(calls[p].pc, s),
         main' = main, status' # "built", DataInv',
         SortsShape', SortNames', SortOwners', SortThreads' \subseteq SortThreads,
         \/ UNCHANGED budgetVars
         \/ pc = "returned" /\ return_thread(calls[p].is_thread)
  PROVE  IInv'
<1>1. CallsShape' /\ CallNames'
  BY ShapeMoved, CallNamesMoved DEF IInv
<1>2. MainInv'
  BY MainKept DEF IInv, Changed
<1>3. SlotsInv
  BY DEF IInv, SlotsInv
<1>4. /\ DOMAIN calls' = DOMAIN calls /\ calls'[p].pc = pc
      /\ SameCall(calls[p], calls'[p])
      /\ \A q \in DOMAIN calls : q # p => calls'[q] = calls[q]
  BY DEF Changed
<1>5. BudgetBounds' /\ Covered'
  <2>1. CASE pc = "returned"
    BY <1>3, <1>4, <2>1, SlotsReturned DEF IInv
  <2>2. CASE pc # "returned" /\ UNCHANGED budgetVars
    <3>1. RootDebt' \subseteq RootDebt
      BY <1>4, DebtKept DEF Returned
    <3>2. InnerThreads' \subseteq InnerThreads
      BY <1>4, Zenon DEF InnerThreads, SameCall
    <3> QED
      BY <1>3, <2>2, <3>1, <3>2, SlotsKept
  <2> QED
    BY <2>1, <2>2
<1> QED
  BY <1>1, <1>2, <1>5 DEF IInv

-----------------------------------------------------------------------------
(* The steps of populate_nodes. *)

LEMMA EmptyStep ==
  ASSUME IInv, NEW p \in DOMAIN calls, PopulateEmpty(p) \/ PopulateLeaf(p)
  PROVE  IInv'
<1>1. /\ status = "running" /\ calls[p].pc = "call"
      /\ Moves(calls', p, "returned")
      /\ return_thread(calls[p].is_thread) \/ UNCHANGED budgetVars
      /\ UNCHANGED <<train, sorts, status, failed_creates, main>>
  BY DEF PopulateEmpty, PopulateLeaf, Active, Moves
<1>2. Changed(calls', p, "returned")
  BY <1>1, CallMoved DEF IInv, CallPcs
<1>3. \A s \in Sides : ~CallLeads(calls[p].pc, s)
  BY <1>1 DEF CallLeads
<1>4. SortsShape' /\ SortNames' /\ SortThreads' \subseteq SortThreads
  BY <1>1, SortsUntouched DEF IInv
<1>5. SortOwners'
  BY <1>1, <1>2, OwnersKept DEF IInv, Changed
<1>6. DataInv' /\ status' # "built"
  BY <1>1 DEF IInv, DataInv
<1> QED
  BY <1>1, <1>2, <1>3, <1>4, <1>5, <1>6, MoveKeeps

LEMMA NothingChanges ==
  ASSUME IInv, UNCHANGED <<train, sorts, status, failed_creates, budgetVars, main, calls>>
  PROVE  IInv'
<1>1. CallsShape' /\ CallNames' /\ InnerThreads' = InnerThreads
  BY DEF IInv, CallsShape, CallNames, Owner, InnerThreads
<1>2. SortsShape' /\ SortNames' /\ SortThreads' = SortThreads
  BY SortsUntouched DEF IInv
<1>3. SortOwners' /\ DataInv' /\ MainInv' /\ RootDebt' = RootDebt
  BY DEF IInv, SortOwners, DataInv, MainInv, RootDebt, Asked, Returned
<1>4. BudgetBounds' /\ Covered'
  BY <1>1, <1>2, <1>3, LimitConstant DEF IInv, BudgetBounds, Covered, budgetVars
<1> QED
  BY <1>1, <1>2, <1>3, <1>4 DEF IInv

(* The process ends. *)
LEMMA EndKeeps ==
  ASSUME IInv, status = "running", status' \in {"exit", "abort", "segfault"},
         failed_creates' \in 0 .. CreateFailures,
         UNCHANGED <<train, sorts, budgetVars, main, calls>>
  PROVE  IInv'
<1>1. SlotsInv
  BY DEF IInv, SlotsInv
<1>2. CallsShape' /\ CallNames' /\ InnerThreads' \subseteq InnerThreads
  BY DEF IInv, CallsShape, CallNames, Owner, InnerThreads
<1>3. SortsShape' /\ SortNames' /\ SortThreads' \subseteq SortThreads
  BY SortsUntouched DEF IInv
<1>4. SortOwners' /\ DataInv'
  BY DEF IInv, SortOwners, DataInv
<1>5. MainInv'
  BY DEF IInv, MainInv
<1>6. RootDebt' \subseteq RootDebt
  BY DEF RootDebt, Asked, Returned
<1> QED
  BY <1>1, <1>2, <1>3, <1>4, <1>5, <1>6, SlotsKept DEF IInv

(* A sort is asked for by a call that has none. *)
LEMMA SortAsked ==
  ASSUME SortsShape, NEW x, NEW new, IsSortCall(new), ~new.is_thread, sorts' = Put(sorts, x, new)
  PROVE  /\ SortsShape' /\ SortThreads' \subseteq SortThreads
         /\ DOMAIN sorts' = DOMAIN sorts \cup {x}
         /\ \A i \in DOMAIN sorts : i # x => sorts'[i] = sorts[i]
<1>1. sorts' = [y \in DOMAIN sorts \cup {x} |-> IF y = x THEN new ELSE sorts[y]]
  BY DEF Put
<1>2. IsFiniteSet(DOMAIN sorts \cup {x})
  BY FS_AddElement DEF SortsShape
<1>3. SortsShape'
  BY <1>1, <1>2 DEF SortsShape
<1>4. SortThreads' \subseteq SortThreads
  BY <1>1 DEF SortThreads, SortReturned
<1> QED
  BY <1>1, <1>3, <1>4

LEMMA SortStepOfCall ==
  ASSUME IInv, NEW p \in DOMAIN calls, PopulateSort(p)
  PROVE  IInv'
<1>1. /\ status = "running" /\ calls[p].pc = "call"
      /\ UNCHANGED <<train, failed_creates, budgetVars, main, tree>>
  BY DEF PopulateSort, Active
<1>2. CASE status' = "segfault" /\ UNCHANGED <<sorts, calls>>
  BY <1>1, <1>2, EndKeeps DEF IInv, DataInv
<1>3. ASSUME NEW new, IsSortCall(new), ~new.is_thread, sorts' = Put(sorts, SortOf(p), new),
             Moves(calls', p, "sort"), status' = status
      PROVE  IInv'
  <2>1. p # <<>>
    BY Named, EmptySeq DEF IInv
  <2>2. \A id \in DOMAIN sorts : id[1] # p
    BY <1>1, <2>1 DEF IInv, SortOwners
  <2>3. SortOf(p)[1] = p
    BY DEF SortOf
  <2>4. /\ SortsShape' /\ SortThreads' \subseteq SortThreads
        /\ DOMAIN sorts' = DOMAIN sorts \cup {SortOf(p)}
        /\ \A i \in DOMAIN sorts : sorts'[i] = sorts[i]
    BY <1>3, <2>2, <2>3, SortAsked DEF IInv
  <2>5. SortNames'
    BY <2>2, <2>4, NamesAsked DEF IInv
  <2>6. Changed(calls', p, "sort")
    BY <1>3, CallMoved DEF IInv, CallPcs
  <2>7. SortOwners'
    BY <1>1, <2>1, <2>3, <2>4, <2>6 DEF IInv, SortOwners, Changed
  <2>8. DataInv' /\ status' # "built" /\ \A s \in Sides : ~CallLeads(calls[p].pc, s)
    BY <1>1, <1>3 DEF IInv, DataInv, CallLeads
  <2> QED
    BY <1>1, <2>4, <2>5, <2>6, <2>7, <2>8, MoveKeeps
<1> DEFINE call == SortCall(Points(p), 0, LocalEnd(Points(p)), calls[p].depth,
                            calls[p].dimension, FALSE)
<1>4. IsSortCall(call) /\ ~call.is_thread
  BY NewCall
<1>5. \/ status' = "segfault" /\ UNCHANGED <<sorts, calls>>
      \/ /\ sorts' = Put(sorts, SortOf(p), call) /\ Moves(calls', p, "sort")
         /\ status' = status
  BY DEF PopulateSort, Moves
<1> HIDE DEF call
<1> QED
  BY <1>2, <1>3, <1>4, <1>5

LEMMA SortGone ==
  ASSUME SortsShape, NEW x, sorts' = Drop(sorts, {x})
  PROVE  /\ SortsShape' /\ SortThreads' \subseteq SortThreads
         /\ DOMAIN sorts' = DOMAIN sorts \ {x}
         /\ \A i \in DOMAIN sorts' : sorts'[i] = sorts[i]
<1>1. sorts' = [y \in DOMAIN sorts \ {x} |-> sorts[y]]
  BY DEF Drop
<1>2. IsFiniteSet(DOMAIN sorts \ {x})
  BY FS_Subset DEF SortsShape
<1>3. SortsShape'
  BY <1>1, <1>2 DEF SortsShape
<1>4. SortThreads' \subseteq SortThreads
  BY <1>1 DEF SortThreads, SortReturned
<1> QED
  BY <1>1, <1>3, <1>4

LEMMA SplitStep ==
  ASSUME IInv, NEW p \in DOMAIN calls, PopulateSplit(p)
  PROVE  IInv'
<1>1. /\ status = "running" /\ calls[p].pc = "sort" /\ SortReturned(SortOf(p))
      /\ sorts' = Drop(sorts, {SortOf(p)})
      /\ Moves(calls', p, "left")
      /\ UNCHANGED <<train, status, failed_creates, budgetVars, main>>
  BY DEF PopulateSplit, Active, Moves
<1>2. /\ SortsShape' /\ SortThreads' \subseteq SortThreads
      /\ DOMAIN sorts' = DOMAIN sorts \ {SortOf(p)}
      /\ \A i \in DOMAIN sorts' : sorts'[i] = sorts[i]
  BY <1>1, SortGone DEF IInv
<1>3. SortNames'
  BY <1>1, <1>2, NamesTaken DEF IInv
<1>4. Changed(calls', p, "left")
  BY <1>1, CallMoved DEF IInv, CallPcs
<1>5. \A id \in DOMAIN sorts' : id[1] # p
  BY <1>1, <1>2, RootAlone DEF IInv
<1>6. SortOwners'
  BY <1>1, <1>2, <1>4, <1>5 DEF IInv, SortOwners, Changed
<1>7. DataInv' /\ status' # "built" /\ \A s \in Sides : ~CallLeads(calls[p].pc, s)
  BY <1>1 DEF IInv, DataInv, CallLeads
<1> QED
  BY <1>1, <1>2, <1>3, <1>4, <1>6, <1>7, MoveKeeps

LEMMA JoinStep ==
  ASSUME IInv, NEW p \in DOMAIN calls, JoinUninitialised(p)
  PROVE  IInv'
<1>1. status = "running" /\ UNCHANGED <<train, sorts, failed_creates, budgetVars, main, tree>>
  BY DEF JoinUninitialised, Active
<1>2. CASE status' \in {"abort", "segfault"} /\ UNCHANGED calls
  BY <1>1, <1>2, EndKeeps DEF IInv, DataInv
<1>3. ASSUME NEW q, calls[q].pc = "not created", Moves(calls', q, "returned"), status' = status
      PROVE  IInv'
  <2>1. CASE q \in DOMAIN calls
    <3>1. Changed(calls', q, "returned")
      BY <1>3, <2>1, CallMoved DEF IInv, CallPcs
    <3>2. \A s \in Sides : ~CallLeads(calls[q].pc, s)
      BY <1>3 DEF CallLeads
    <3>3. SortsShape' /\ SortNames' /\ SortThreads' \subseteq SortThreads
      BY <1>1, SortsUntouched DEF IInv
    <3>4. SortOwners'
      BY <1>1, <1>3, <3>1, OwnersKept DEF IInv, Changed
    <3>5. DataInv' /\ status' # "built"
      BY <1>1, <1>3 DEF IInv, DataInv
    <3> QED
      BY <1>1, <1>3, <2>1, <3>1, <3>2, <3>3, <3>4, <3>5, MoveKeeps
  <2>2. CASE q \notin DOMAIN calls
    <3>1. UNCHANGED <<calls, status>>
      BY <1>3, <2>2 DEF Moves, IInv, CallsShape
    <3> QED
      BY <1>1, <3>1, NothingChanges
  <2> QED
    BY <2>1, <2>2
<1>4. \/ status' \in {"abort", "segfault"} /\ UNCHANGED calls
      \/ \E q : calls[q].pc = "not created" /\ Moves(calls', q, "returned") /\ status' = status
  BY DEF JoinUninitialised, Moves
<1> QED
  BY <1>2, <1>3, <1>4

LEMMA ReturnStep ==
  ASSUME IInv, NEW p \in DOMAIN calls, PopulateReturn(p)
  PROVE  IInv'
<1> DEFINE S == {Append(p, "l"), Append(p, "r")}
<1>1. /\ status = "running" /\ calls[p].pc = "join" /\ \A q \in S : Returned(q)
      /\ return_thread(calls[p].is_thread)
      /\ UNCHANGED <<train, sorts, status, failed_creates, main>>
  BY DEF PopulateReturn, Active
<1>2. PICK f : Moves(f, p, "returned") /\ calls' = Drop(f, S)
  BY DEF PopulateReturn, Moves
<1>3. p \in Seq(Sides) /\ Len(p) >= 1 /\ p \notin S /\ \A q \in S : Len(q) > 1
  BY Named, ChildName DEF IInv, Sides
<1>4. Changed(f, p, "returned")
  BY <1>2, CallMoved DEF IInv, CallPcs
<1> HIDE DEF S
<1>5. /\ CallsShape'
      /\ DOMAIN calls' = DOMAIN calls \ S
      /\ calls'[p].pc = "returned"
      /\ \A i \in DOMAIN calls' : i # p => calls'[i] = calls[i]
  BY <1>2, <1>3, <1>4, CallsDropped DEF IInv
<1>6. CallNames'
  <2>1. S = {Append(p, "l"), Append(p, "r")}
    BY DEF S
  <2> QED
    BY <1>1, <1>3, <1>5, <2>1, CallNamesDropped DEF IInv
<1>7. SortsShape' /\ SortNames' /\ SortThreads' \subseteq SortThreads
  BY <1>1, SortsUntouched DEF IInv
<1>8. SortOwners'
  <2>1. \A q \in DOMAIN calls : calls[q].pc = "sort" => q \in DOMAIN calls' /\ calls'[q].pc = "sort"
    BY <1>1, <1>5 DEF Returned
  <2> QED
    BY <1>1, <2>1, OwnersKept DEF IInv
<1>9. \A side \in Sides : <<side>> \in DOMAIN calls => <<side>> \in DOMAIN calls'
  BY <1>3, <1>5, RootName
<1>10. MainInv'
  BY <1>1, <1>5, MainKept DEF IInv
<1>11. BudgetBounds' /\ Covered'
  <2>1. SlotsInv
    BY DEF IInv, SlotsInv
  <2>2. p \in DOMAIN calls' /\ calls[p].pc # "returned"
        /\ \A q \in DOMAIN calls' : q # p => q \in DOMAIN calls /\ calls'[q] = calls[q]
    BY <1>1, <1>3, <1>5
  <2> QED
    BY <1>1, <1>5, <1>7, <1>9, <2>1, <2>2, SlotsReturned DEF IInv
<1>12. DataInv'
  BY <1>1 DEF IInv, DataInv
<1> QED
  BY <1>5, <1>6, <1>7, <1>8, <1>10, <1>11, <1>12 DEF IInv

(* The call for p forks a child: granted a thread, refused one, or too deep to ask. *)
LEMMA ChildKeeps ==
  ASSUME IInv, status = "running", NEW p \in DOMAIN calls, NEW pc, NEW side \in Sides, NEW c,
         Added(p, pc, Append(p, side), c),
         calls[p].pc \in {"left", "right"}, pc # "returned", c.pc # "returned",
         ~CallLeads(calls[p].pc, side), CallLeads(pc, side),
         \A s \in Sides : CallLeads(calls[p].pc, s) => CallLeads(pc, s),
         UNCHANGED <<train, sorts, status, main>>, failed_creates' \in 0 .. CreateFailures,
         \/ make_thread(TRUE)
         \/ make_thread(FALSE) /\ ~c.thread
         \/ UNCHANGED budgetVars /\ ~c.thread
  PROVE  IInv'
<1>1. PICK q : q = Append(p, side)
  OBVIOUS
<1>2. Added(p, pc, q, c) /\ q \notin DOMAIN calls /\ CallNames'
  BY <1>1, CallNamesAdded DEF IInv
<1>3. Len(q) > 1
  BY <1>1, Named, ChildName DEF IInv
<1>4. /\ CallsShape' /\ DOMAIN calls' = DOMAIN calls \cup {q} /\ calls'[q] = c /\ p # q
      /\ calls'[p].pc = pc /\ calls'[p].thread = calls[p].thread
      /\ \A i \in DOMAIN calls : i # p => calls'[i] = calls[i]
  BY <1>2 DEF Added, SameCall
<1>5. SortsShape' /\ SortNames' /\ SortThreads' \subseteq SortThreads
  BY SortsUntouched DEF IInv
<1>6. SortOwners'
  BY <1>4, OwnersKept DEF IInv
<1>7. MainInv'
  <2>1. \A s \in Sides : <<s>> \in DOMAIN calls' => <<s>> \in DOMAIN calls
    BY <1>3, <1>4, RootName
  <2> QED
    BY <2>1, MainKept DEF IInv, DataInv
<1>8. RootDebt' \subseteq RootDebt
  BY <1>4, DebtKept DEF Returned
<1>9. InnerThreads' \subseteq InnerThreads \cup {q}
  BY <1>4 DEF InnerThreads
<1>10. ~c.thread => InnerThreads' \subseteq InnerThreads
  BY <1>4 DEF InnerThreads
<1>11. BudgetBounds' /\ Covered'
  <2>1. SlotsInv
    BY DEF IInv, SlotsInv
  <2> QED
    BY <1>5, <1>8, <1>9, <1>10, <2>1, SlotsGranted, SlotsRefused, SlotsKept
<1>12. DataInv'
  BY DEF IInv, DataInv
<1> QED
  BY <1>2, <1>4, <1>5, <1>6, <1>7, <1>11, <1>12 DEF IInv

(* A new call for q; a call with no thread has the flag only for what it is. *)
IsNew(q, c, pc) ==
  /\ IsCall(c) /\ c.depth = Len(q) /\ c.pc = pc
  /\ c.is_thread <=> c.thread

LEMMA NewChild ==
  ASSUME CallsShape, NEW p \in DOMAIN calls, NEW side \in Sides, NEW pc, NEW c,
         IsNew(Append(p, side), c, pc)
  PROVE  IsCallOf(Append(p, side), c)
<1>1. /\ Append(p, side) \in Seq(Sides) /\ Len(Append(p, side)) = Len(p) + 1
      /\ Len(Append(p, side)) > 1
  BY Named, ChildName
<1>2. Len(Append(p, side)) # 1 /\ Len(Append(p, side)) >= 1
  BY <1>1, Named
<1>3. c.is_thread <=> (Len(Append(p, side)) = 1 \/ c.thread)
  BY <1>2, Zenon DEF IsNew
<1> QED
  BY <1>1, <1>2, <1>3, Zenon DEF IsCallOf, IsNew

LEMMA ForkStep ==
  ASSUME IInv, NEW p \in DOMAIN calls, NEW side \in Sides, NEW pc \in {"right", "join"},
         status = "running", calls[p].pc \in {"left", "right"},
         ~CallLeads(calls[p].pc, side), CallLeads(pc, side),
         \A s \in Sides : CallLeads(calls[p].pc, s) => CallLeads(pc, s),
         PopulateFork(p, side, pc)
  PROVE  IInv'
<1>1. UNCHANGED <<train, sorts, status, main>>
  BY DEF PopulateFork
<1>2. PICK f : Moves(f, p, pc)
  BY DEF Moves
<1>3. Changed(f, p, pc)
  BY <1>2, CallMoved DEF IInv, CallPcs
<1> DEFINE child(thread, here) ==
             [node_info(ChildPoints(p, side), calls[p].depth + 1,
                        cycle_dimensions(calls[p].dimension), thread, thread) EXCEPT !.pc = here]
           Adds(thread, here) == calls' = Put(f, Append(p, side), child(thread, here))
<1>4. /\ \/ make_thread(TRUE) /\ (Adds(TRUE, "call") \/ Adds(TRUE, "not created"))
         \/ make_thread(FALSE) /\ Adds(FALSE, "call")
         \/ UNCHANGED budgetVars /\ Adds(FALSE, "call")
      /\ failed_creates' \in 0 .. CreateFailures
  <2>1. failed_creates \in 0 .. CreateFailures
    BY DEF IInv, DataInv
  <2>2. PICK granted \in BOOLEAN :
          /\ make_thread(granted) \/ (~granted /\ UNCHANGED budgetVars)
          /\ \/ Adds(granted, "call") /\ UNCHANGED failed_creates
             \/ /\ granted /\ CreateMayFail
                /\ Adds(granted, "not created")
                /\ failed_creates' = failed_creates + 1
    BY <1>2 DEF PopulateFork, Moves
  <2> HIDE DEF Adds
  <2>3. failed_creates' \in 0 .. CreateFailures
    <3>1. \/ failed_creates' = failed_creates
          \/ failed_creates < CreateFailures /\ failed_creates' = failed_creates + 1
      BY <2>2 DEF CreateMayFail
    <3> QED
      BY <2>1, <3>1, FailuresAssumption
  <2>4. CASE granted = TRUE
    BY <2>2, <2>3, <2>4
  <2>5. CASE granted = FALSE
    BY <2>2, <2>3, <2>5
  <2> QED
    BY <2>4, <2>5
<1>5. ASSUME NEW thread \in BOOLEAN, NEW here \in {"call", "not created"}, Adds(thread, here),
             \/ make_thread(TRUE)
             \/ make_thread(FALSE) /\ thread = FALSE
             \/ UNCHANGED budgetVars /\ thread = FALSE
      PROVE  IInv'
  <2>1. PICK c : c = child(thread, here)
    OBVIOUS
  <2>2. calls' = Put(f, Append(p, side), c)
    BY <1>5, <2>1
  <2>3. /\ IsCall(c) /\ c.depth = calls[p].depth + 1 /\ c.pc = here
        /\ c.is_thread <=> c.thread
        /\ thread = FALSE => ~c.thread
    <3>1. c = [points |-> ChildPoints(p, side), depth |-> calls[p].depth + 1,
               dimension |-> cycle_dimensions(calls[p].dimension),
               is_thread |-> thread, thread |-> thread, pc |-> here]
      BY <2>1 DEF node_info
    <3>2. /\ c = [points |-> c.points, depth |-> c.depth, dimension |-> c.dimension,
                  is_thread |-> c.is_thread, thread |-> c.thread, pc |-> c.pc]
          /\ c.is_thread \in BOOLEAN /\ c.thread \in BOOLEAN /\ c.pc \in CallPcs
      BY <3>1 DEF CallPcs
    <3>3. c.depth = calls[p].depth + 1 /\ c.pc = here
      BY <3>1
    <3>4. /\ c.is_thread <=> c.thread
          /\ thread = FALSE => ~c.thread
      BY <3>1
    <3> QED
      BY <3>2, <3>3, <3>4 DEF IsCall
  <2> HIDE DEF child, Adds
  <2>4. IsCallOf(Append(p, side), c)
    <3>1. calls[p].depth = Len(p) /\ Len(Append(p, side)) = Len(p) + 1
      BY Named, ChildName DEF IInv, CallsShape, IsCallOf
    <3>2. IsNew(Append(p, side), c, here)
      BY <2>3, <3>1 DEF IsNew
    <3> QED
      BY <3>2, NewChild DEF IInv
  <2>5. Added(p, pc, Append(p, side), c)
    BY <1>3, <2>2, <2>4, CallAdded DEF IInv
  <2> QED
    BY <1>1, <1>4, <1>5, <2>3, <2>5, ChildKeeps
<1> HIDE DEF Adds
<1> QED
  BY <1>4, <1>5

LEMMA PopulateNodesKeeps ==
  ASSUME IInv, PopulateNodes
  PROVE  IInv'
<1>1. PICK p \in DOMAIN calls :
        \/ PopulateEmpty(p) \/ PopulateLeaf(p) \/ PopulateSort(p) \/ PopulateSplit(p)
        \/ PopulateLeft(p) \/ PopulateRight(p) \/ JoinUninitialised(p) \/ PopulateReturn(p)
  BY DEF PopulateNodes
<1>2. CASE PopulateLeft(p)
  <2>1. /\ status = "running" /\ calls[p].pc = "left" /\ PopulateFork(p, "l", "right")
    BY <1>2 DEF PopulateLeft, Active
  <2> QED
    BY <2>1, ForkStep DEF CallLeads, Sides
<1>3. CASE PopulateRight(p)
  <2>1. /\ status = "running" /\ calls[p].pc = "right" /\ PopulateFork(p, "r", "join")
    BY <1>3 DEF PopulateRight, Active
  <2> QED
    BY <2>1, ForkStep DEF CallLeads, Sides
<1> QED
  BY <1>1, <1>2, <1>3, EmptyStep, SortStepOfCall, SplitStep, JoinStep, ReturnStep

-----------------------------------------------------------------------------
(* The steps of make_tree. *)

LEMMA Alone ==
  ASSUME IInv, DOMAIN calls = {}, main.pc # "sort"
  PROVE  DOMAIN sorts = {}
  BY DEF IInv, SortOwners

LEMMA NoCalls ==
  ASSUME IInv, DOMAIN calls = {}, calls' = calls
  PROVE  CallsShape' /\ CallNames' /\ InnerThreads' = {} /\ InnerThreads = {}
  BY DEF IInv, CallsShape, CallNames, Owner, InnerThreads

LEMMA NoSorts ==
  ASSUME IInv, DOMAIN sorts' = {}, SortsShape'
  PROVE  SortNames' /\ SortOwners' /\ SortThreads' = {}
  BY DEF SortNames, SortOwners, SortThreads

LEMMA MainMoved ==
  ASSUME IInv, NEW pc \in MainPcs, main' = [main EXCEPT !.pc = pc]
  PROVE  /\ main' \in [pc : MainPcs, l : BOOLEAN, r : BOOLEAN]
         /\ main'.pc = pc /\ main'.l = main.l /\ main'.r = main.r
  BY DEF IInv, MainInv

LEMMA LeafStep ==
  ASSUME IInv, MakeTreeLeaf
  PROVE  IInv'
<1>1. /\ status = "running" /\ main.pc = "main" /\ status' = "built"
      /\ UNCHANGED <<train, sorts, failed_creates, budgetVars, main, calls>>
  BY DEF MakeTreeLeaf, MainAt
<1>2. DOMAIN calls = {}
  BY <1>1 DEF IInv, MainInv
<1>3. CallsShape' /\ CallNames' /\ InnerThreads' \subseteq InnerThreads
  BY <1>1, <1>2, NoCalls
<1>4. SortsShape' /\ SortNames' /\ SortThreads' \subseteq SortThreads
  BY <1>1, SortsUntouched DEF IInv
<1>5. SortOwners' /\ DataInv' /\ MainInv'
  BY <1>1, <1>2 DEF IInv, SortOwners, DataInv, MainInv
<1>6. RootDebt' \subseteq RootDebt
  BY <1>1 DEF RootDebt
<1>7. SlotsInv
  BY DEF IInv, SlotsInv
<1> QED
  BY <1>1, <1>3, <1>4, <1>5, <1>6, <1>7, SlotsKept DEF IInv

LEMMA SortStepOfMain ==
  ASSUME IInv, MakeTreeSort
  PROVE  IInv'
<1> DEFINE call == SortCall(Rows(train), 0, RootSample(train), 0, 0, FALSE)
<1>1. /\ status = "running" /\ main.pc = "main"
      /\ sorts' = Put(sorts, SortOf(<<>>), call)
      /\ main' = [main EXCEPT !.pc = "sort"]
      /\ UNCHANGED <<train, status, failed_creates, budgetVars, calls>>
  BY DEF MakeTreeSort, MainAt
<1>2. IsSortCall(call) /\ ~call.is_thread
  BY NewCall
<1> HIDE DEF call
<1>3. DOMAIN calls = {} /\ DOMAIN sorts = {}
  BY <1>1, Alone DEF IInv, MainInv
<1>4. /\ SortsShape' /\ SortThreads' \subseteq SortThreads
      /\ DOMAIN sorts' = DOMAIN sorts \cup {SortOf(<<>>)}
      /\ \A i \in DOMAIN sorts : sorts'[i] = sorts[i]
  BY <1>1, <1>2, <1>3, SortAsked DEF IInv
<1>5. SortNames'
  BY <1>3, <1>4, NamesAsked DEF IInv
<1>6. /\ main' \in [pc : MainPcs, l : BOOLEAN, r : BOOLEAN]
      /\ main'.pc = "sort" /\ main'.r = main.r
  BY <1>1, MainMoved DEF MainPcs
<1>7. SortOwners'
  BY <1>3, <1>4, <1>6 DEF SortOwners, SortOf
<1>8. CallsShape' /\ CallNames' /\ InnerThreads' \subseteq InnerThreads
  BY <1>1, <1>3, NoCalls
<1>9. MainInv' /\ DataInv'
  BY <1>1, <1>3, <1>6 DEF IInv, MainInv, DataInv
<1>10. RootDebt' \subseteq RootDebt
  BY <1>6 DEF RootDebt, Asked, AfterRight
<1>11. SlotsInv
  BY DEF IInv, SlotsInv
<1> QED
  BY <1>1, <1>4, <1>5, <1>7, <1>8, <1>9, <1>10, <1>11, SlotsKept DEF IInv

(* make_tree asks for a child's slot while nobody is at work: a refusal means that as many *)
(* slots are leaked as there may be threads.                                               *)
LEMMA SlotAsked ==
  ASSUME IInv, NEW side, RootDebt' \subseteq RootDebt \cup {side}, RootDebt' \subseteq Sides,
         InnerThreads' = {}, SortThreads' = {}, make_thread(TRUE) \/ make_thread(FALSE)
  PROVE  BudgetBounds' /\ Covered'
<1>1. /\ IsFiniteSet(RootDebt) /\ Cardinality(RootDebt) \in Nat
      /\ Cardinality(InnerThreads) \in Nat /\ Cardinality(SortThreads) \in Nat
  BY SlotsCount DEF IInv
<1>2. Cardinality(InnerThreads') = 0 /\ Cardinality(SortThreads') = 0
  BY FS_EmptySet
<1>3. BudgetBounds /\ cores >= 1
  BY DEF IInv
<1>4. CASE make_thread(TRUE)
  <2>1. Cardinality(RootDebt') \in Nat /\ Cardinality(RootDebt') <= Cardinality(RootDebt) + 1
    BY <1>1, OneMore
  <2>2. BudgetBounds' /\ tmp_thread_count' = tmp_thread_count + 1
    BY <1>3, <1>4, Granted
  <2> QED
    BY <1>1, <1>2, <1>3, <2>1, <2>2 DEF IInv, Covered, BudgetBounds
<1>5. CASE make_thread(FALSE)
  <2>1. Cardinality(RootDebt') \in Nat /\ Cardinality(RootDebt') <= 2
    BY SidesCount, NoMore
  <2>2. /\ BudgetBounds' /\ tmp_thread_count' = tmp_thread_count
        /\ tmp_thread_count = thread_limit
    BY <1>3, <1>5, Granted
  <2>3. thread_limit >= 2
    BY <1>3, CoresAssumption DEF thread_limit
  <2> QED
    BY <1>2, <2>1, <2>2, <2>3 DEF Covered, BudgetBounds
<1> QED
  BY <1>4, <1>5

LEMMA AskLeftStep ==
  ASSUME IInv, MakeTreeAskLeft
  PROVE  IInv'
<1>1. /\ status = "running" /\ main.pc = "sort" /\ SortReturned(SortOf(<<>>))
      /\ sorts' = Drop(sorts, {SortOf(<<>>)})
      /\ UNCHANGED <<train, status, failed_creates, calls>>
  BY DEF MakeTreeAskLeft, MainAt
<1>2. /\ make_thread(TRUE) \/ make_thread(FALSE)
      /\ main' \in [pc : MainPcs, l : BOOLEAN, r : BOOLEAN]
      /\ main'.pc = "ask right" /\ main'.r = main.r
  <2>1. PICK made_left \in BOOLEAN :
          make_thread(made_left) /\ main' = [main EXCEPT !.pc = "ask right", !.l = made_left]
    BY DEF MakeTreeAskLeft
  <2>2. /\ main' \in [pc : MainPcs, l : BOOLEAN, r : BOOLEAN]
        /\ main'.pc = "ask right" /\ main'.r = main.r
    BY <2>1 DEF IInv, MainInv, MainPcs
  <2>3. CASE made_left = TRUE
    BY <2>1, <2>2, <2>3
  <2>4. CASE made_left = FALSE
    BY <2>1, <2>2, <2>4
  <2> QED
    BY <2>3, <2>4
<1>3. DOMAIN calls = {}
  BY <1>1 DEF IInv, MainInv
<1>4. /\ SortsShape' /\ DOMAIN sorts' = DOMAIN sorts \ {SortOf(<<>>)}
  BY <1>1, SortGone DEF IInv
<1>5. DOMAIN sorts' = {}
  <2>1. \A id \in DOMAIN sorts : id[1] = <<>>
    BY <1>3 DEF IInv, SortOwners
  <2> QED
    BY <1>1, <1>4, <2>1, RootAlone DEF IInv
<1>6. SortNames' /\ SortOwners' /\ SortThreads' = {}
  BY <1>4, <1>5, NoSorts
<1>7. CallsShape' /\ CallNames' /\ InnerThreads' = {}
  BY <1>1, <1>3, NoCalls
<1>8. MainInv' /\ DataInv'
  BY <1>1, <1>2, <1>3 DEF IInv, MainInv, DataInv
<1>9. RootDebt' \subseteq RootDebt \cup {"l"} /\ RootDebt' \subseteq Sides
  BY <1>2 DEF RootDebt, Asked, AfterRight
<1>10. BudgetBounds' /\ Covered'
  BY <1>2, <1>6, <1>7, <1>9, SlotAsked
<1> QED
  BY <1>4, <1>6, <1>7, <1>8, <1>10 DEF IInv

LEMMA AskRightStep ==
  ASSUME IInv, MakeTreeAskRight
  PROVE  IInv'
<1>1. /\ status = "running" /\ main.pc = "ask right"
      /\ UNCHANGED <<train, sorts, status, failed_creates, calls>>
  BY DEF MakeTreeAskRight, MainAt
<1>2. /\ make_thread(TRUE) \/ make_thread(FALSE)
      /\ main' \in [pc : MainPcs, l : BOOLEAN, r : BOOLEAN] /\ main'.pc = "create left"
  <2>1. PICK made_right \in BOOLEAN :
          make_thread(made_right) /\ main' = [main EXCEPT !.pc = "create left", !.r = made_right]
    BY DEF MakeTreeAskRight
  <2>2. main' \in [pc : MainPcs, l : BOOLEAN, r : BOOLEAN] /\ main'.pc = "create left"
    BY <2>1 DEF IInv, MainInv, MainPcs, AfterRight
  <2>3. CASE made_right = TRUE
    BY <2>1, <2>2, <2>3
  <2>4. CASE made_right = FALSE
    BY <2>1, <2>2, <2>4
  <2> QED
    BY <2>3, <2>4
<1>3. DOMAIN calls = {} /\ DOMAIN sorts = {}
  BY <1>1, Alone DEF IInv, MainInv
<1>4. SortsShape' /\ DOMAIN sorts' = {}
  BY <1>1, <1>3, SortsUntouched DEF IInv
<1>5. SortNames' /\ SortOwners' /\ SortThreads' = {}
  BY <1>4, NoSorts
<1>6. CallsShape' /\ CallNames' /\ InnerThreads' = {}
  BY <1>1, <1>3, NoCalls
<1>7. MainInv' /\ DataInv'
  BY <1>1, <1>2, <1>3 DEF IInv, MainInv, DataInv
<1>8. RootDebt' \subseteq RootDebt \cup {"r"} /\ RootDebt' \subseteq Sides
  BY <1>1, <1>3 DEF RootDebt, Asked, Sides, Returned
<1>9. BudgetBounds' /\ Covered'
  BY <1>2, <1>5, <1>6, <1>8, SlotAsked
<1> QED
  BY <1>4, <1>5, <1>6, <1>7, <1>9 DEF IInv

(* The two sides are created and run: none of it changes the debt. *)
LEMMA RootKeeps ==
  ASSUME IInv, status = "running", main.pc \in AfterRight, main'.pc \in AfterRight,
         status' \in {"running", "abort"}, failed_creates' \in 0 .. CreateFailures,
         UNCHANGED <<train, sorts, budgetVars>>, NEW side \in Sides, NEW c,
         \/ calls' = calls
         \/ /\ <<side>> \notin DOMAIN calls /\ IsCallOf(<<side>>, c) /\ c.pc = "call"
            /\ calls' = Put(calls, <<side>>, c),
         MainInv'
  PROVE  IInv'
<1>1. /\ CallsShape' /\ CallNames' /\ InnerThreads' \subseteq InnerThreads
      /\ \A q \in DOMAIN calls : q \in DOMAIN calls' /\ calls'[q] = calls[q]
  <2>1. CASE calls' = calls
    BY <2>1 DEF IInv, CallsShape, CallNames, Owner, InnerThreads
  <2>2. CASE /\ <<side>> \notin DOMAIN calls /\ IsCallOf(<<side>>, c) /\ c.pc = "call"
             /\ calls' = Put(calls, <<side>>, c)
    <3>1. PICK q : q = <<side>>
      OBVIOUS
    <3>2. Len(q) = 1
      BY <3>1
    <3>3. /\ CallsShape' /\ DOMAIN calls' = DOMAIN calls \cup {q}
          /\ \A i \in DOMAIN calls : calls'[i] = calls[i]
      BY <2>2, <3>1, RootAdded DEF IInv
    <3>4. CallNames'
      BY <3>2, <3>3 DEF IInv, CallNames, Owner
    <3>5. InnerThreads' \subseteq InnerThreads
      <4>1. ~(Len(q) > 1)
        BY <3>2
      <4>2. \A i \in DOMAIN calls' : Len(i) > 1 => i \in DOMAIN calls /\ calls'[i] = calls[i]
        BY <3>3, <4>1, Zenon
      <4> QED
        BY <4>2, Zenon DEF InnerThreads
    <3> QED
      BY <3>3, <3>4, <3>5
  <2> QED
    BY <2>1, <2>2
<1>2. SortsShape' /\ SortNames' /\ SortThreads' \subseteq SortThreads
  BY SortsUntouched DEF IInv
<1>3. SortOwners'
  BY <1>1 DEF IInv, SortOwners, AfterRight
<1>4. DataInv'
  BY DEF IInv, DataInv
<1>5. RootDebt' \subseteq RootDebt
  BY <1>1 DEF RootDebt, Asked, Returned
<1>6. SlotsInv
  BY DEF IInv, SlotsInv
<1> QED
  BY <1>1, <1>2, <1>3, <1>4, <1>5, <1>6, SlotsKept DEF IInv

LEMMA RootChildCall ==
  ASSUME NEW side \in Sides, NEW thread \in BOOLEAN, NEW c, c = RootChild(side, thread)
  PROVE  IsCallOf(<<side>>, c) /\ c.pc = "call"
<1>1. PICK points, dimension :
        c = [points |-> points, depth |-> 1, dimension |-> dimension,
             is_thread |-> TRUE, thread |-> thread, pc |-> "call"]
  BY DEF RootChild, node_info
<1>2. PICK is_thread \in BOOLEAN : is_thread = TRUE
  OBVIOUS
<1>3. PICK depth, pc : depth = 1 /\ pc = "call"
  OBVIOUS
<1>4. c = [points |-> points, depth |-> depth, dimension |-> dimension,
           is_thread |-> is_thread, thread |-> thread, pc |-> pc]
  BY <1>1, <1>2, <1>3
<1>5. /\ c = [points |-> c.points, depth |-> c.depth, dimension |-> c.dimension,
              is_thread |-> c.is_thread, thread |-> c.thread, pc |-> c.pc]
      /\ c.is_thread \in BOOLEAN /\ c.thread \in BOOLEAN
  BY <1>4
<1>6. c.depth = depth /\ c.pc = pc
  BY <1>4
<1>7. c.is_thread = is_thread
  BY <1>4
<1>8. <<side>> \in Seq(Sides) /\ Len(<<side>>) = 1
  OBVIOUS
<1>9. IsCall(c)
  BY <1>3, <1>5, <1>6 DEF IsCall, CallPcs
<1>10. Len(<<side>>) >= 1 /\ c.depth = Len(<<side>>) /\ c.is_thread
  BY <1>2, <1>3, <1>6, <1>7, <1>8
<1> QED
  BY <1>3, <1>6, <1>8, <1>9, <1>10, Zenon DEF IsCallOf

LEMMA CreateOutcome ==
  ASSUME IInv, status = "running",
         \/ UNCHANGED <<status, failed_creates>>
         \/ CreateMayFail /\ status' = "abort" /\ failed_creates' = failed_creates + 1
  PROVE  status' \in {"running", "abort"} /\ failed_creates' \in 0 .. CreateFailures
<1>1. failed_creates \in 0 .. CreateFailures
  BY DEF IInv, DataInv
<1> QED
  BY <1>1, FailuresAssumption DEF CreateMayFail

LEMMA CreateLeftStep ==
  ASSUME IInv, MakeTreeCreate("l", main.l, "create left", "create right")
  PROVE  IInv'
<1>1. /\ status = "running" /\ main.pc = "create left"
      /\ main' = [main EXCEPT !.pc = "create right"]
      /\ UNCHANGED <<train, sorts, budgetVars>>
  BY DEF MakeTreeCreate, MainAt
<1>2. /\ main' \in [pc : MainPcs, l : BOOLEAN, r : BOOLEAN]
      /\ main'.pc = "create right" /\ main'.l = main.l /\ main'.r = main.r
  BY <1>1, MainMoved DEF MainPcs, AfterRight
<1>3. PICK c : c = RootChild("l", TRUE)
  OBVIOUS
<1>4. IsCallOf(<<"l">>, c) /\ c.pc = "call"
  BY <1>3, RootChildCall DEF Sides
<1>5. \/ calls' = calls /\ UNCHANGED <<status, failed_creates>>
      \/ /\ main.l /\ calls' = Put(calls, <<"l">>, c)
         /\ UNCHANGED <<status, failed_creates>>
      \/ /\ calls' = calls /\ CreateMayFail /\ status' = "abort"
         /\ failed_creates' = failed_creates + 1
  BY <1>3 DEF MakeTreeCreate
<1>6. /\ status' \in {"running", "abort"} /\ failed_creates' \in 0 .. CreateFailures
      /\ main.pc \in AfterRight /\ main'.pc \in AfterRight
  BY <1>1, <1>2, <1>5, CreateOutcome DEF AfterRight
<1>7. DOMAIN calls = {}
  BY <1>1 DEF IInv, MainInv
<1>8. MainInv'
  <2>1. DOMAIN calls' \subseteq {<<"l">>} /\ (<<"l">> \in DOMAIN calls' => main'.l)
    BY <1>2, <1>5, <1>7 DEF Put
  <2>2. <<"r">> \notin DOMAIN calls'
    BY <2>1
  <2> QED
    BY <1>2, <1>6, <2>1, <2>2 DEF MainInv
<1> QED
  BY <1>1, <1>4, <1>5, <1>6, <1>7, <1>8, RootKeeps DEF Sides

LEMMA CreateRightStep ==
  ASSUME IInv, MakeTreeCreate("r", main.r, "create right", "left")
  PROVE  IInv'
<1>1. /\ status = "running" /\ main.pc = "create right"
      /\ main' = [main EXCEPT !.pc = "left"]
      /\ UNCHANGED <<train, sorts, budgetVars>>
  BY DEF MakeTreeCreate, MainAt
<1>2. /\ main' \in [pc : MainPcs, l : BOOLEAN, r : BOOLEAN]
      /\ main'.pc = "left" /\ main'.l = main.l /\ main'.r = main.r
  BY <1>1, MainMoved DEF MainPcs, AfterRight
<1>3. PICK c : c = RootChild("r", TRUE)
  OBVIOUS
<1>4. IsCallOf(<<"r">>, c) /\ c.pc = "call"
  BY <1>3, RootChildCall DEF Sides
<1>5. \/ calls' = calls /\ UNCHANGED <<status, failed_creates>>
      \/ /\ main.r /\ calls' = Put(calls, <<"r">>, c)
         /\ UNCHANGED <<status, failed_creates>>
      \/ /\ calls' = calls /\ CreateMayFail /\ status' = "abort"
         /\ failed_creates' = failed_creates + 1
  BY <1>3 DEF MakeTreeCreate
<1>6. /\ status' \in {"running", "abort"} /\ failed_creates' \in 0 .. CreateFailures
      /\ main.pc \in AfterRight /\ main'.pc \in AfterRight
  BY <1>1, <1>2, <1>5, CreateOutcome DEF AfterRight
<1>7. <<"r">> \notin DOMAIN calls /\ (<<"l">> \in DOMAIN calls => main.l)
  BY <1>1 DEF IInv, MainInv
<1>8. MainInv'
  <2>1. /\ <<"l">> \in DOMAIN calls' => main'.l
        /\ <<"r">> \in DOMAIN calls' => main'.r
    BY <1>2, <1>5, <1>7 DEF Put
  <2> QED
    BY <1>2, <1>6, <2>1 DEF MainInv
<1> QED
  BY <1>1, <1>4, <1>5, <1>6, <1>7, <1>8, RootKeeps DEF Sides

LEMMA RunStep ==
  ASSUME IInv, MakeTreeRunLeft \/ MakeTreeRunRight
  PROVE  IInv'
<1>1. ASSUME NEW side \in Sides, NEW made \in BOOLEAN, NEW next \in {"right", "return"},
             status = "running", main.pc \in {"left", "right"},
             MakeTreeRun(side, made, next), ~made => <<side>> \notin DOMAIN calls,
             next = "right" => main.pc = "left" /\ side = "l"
      PROVE  IInv'
  <2>1. /\ main' = [main EXCEPT !.pc = next]
        /\ UNCHANGED <<train, sorts, status, failed_creates, budgetVars>>
    BY <1>1 DEF MakeTreeRun
  <2>2. /\ main' \in [pc : MainPcs, l : BOOLEAN, r : BOOLEAN]
        /\ main'.pc = next /\ main'.l = main.l /\ main'.r = main.r
    BY <2>1, MainMoved DEF MainPcs, AfterRight
  <2>3. PICK c : c = RootChild(side, FALSE)
    OBVIOUS
  <2>4. IsCallOf(<<side>>, c) /\ c.pc = "call"
    BY <2>3, RootChildCall
  <2>5. calls' = calls \/ (<<side>> \notin DOMAIN calls /\ calls' = Put(calls, <<side>>, c))
    BY <1>1, <2>3 DEF MakeTreeRun
  <2>6. main.pc \in AfterRight /\ main'.pc \in AfterRight
    BY <1>1, <2>2 DEF AfterRight
  <2>7. MainInv'
    <3>1. next = "right" /\ <<"r">> \in DOMAIN calls' => <<"r">> \in DOMAIN calls
      BY <1>1, <2>5 DEF Put
    <3>2. next = "right" /\ <<"r">> \in DOMAIN calls => main.r
      BY <1>1 DEF IInv, MainInv
    <3> QED
      BY <1>1, <2>1, <2>2, <3>1, <3>2 DEF MainInv
  <2>8. failed_creates' \in 0 .. CreateFailures
    BY <2>1 DEF IInv, DataInv
  <2> QED
    BY <1>1, <2>1, <2>4, <2>5, <2>6, <2>7, <2>8, RootKeeps
<1>2. CASE MakeTreeRunLeft
  <2>1. status = "running" /\ main.pc = "left" /\ MakeTreeRun("l", main.l, "right")
    BY <1>2 DEF MakeTreeRunLeft, MainAt
  <2>2. main.l \in BOOLEAN /\ (~main.l => <<"l">> \notin DOMAIN calls)
    BY <2>1 DEF IInv, MainInv
  <2> QED
    BY <1>1, <2>1, <2>2 DEF Sides
<1>3. CASE MakeTreeRunRight
  <2>1. status = "running" /\ main.pc = "right" /\ MakeTreeRun("r", main.r, "return")
    BY <1>3 DEF MakeTreeRunRight, MainAt
  <2>2. main.r \in BOOLEAN /\ (~main.r => <<"r">> \notin DOMAIN calls)
    BY <2>1 DEF IInv, MainInv
  <2> QED
    BY <1>1, <2>1, <2>2 DEF Sides
<1> QED
  BY <1>2, <1>3

LEMMA MainReturnStep ==
  ASSUME IInv, MakeTreeReturn
  PROVE  IInv'
<1> DEFINE S == {<<"l">>, <<"r">>}
<1>1. /\ status = "running" /\ main.pc = "return" /\ status' = "built"
      /\ \A q \in S : Returned(q)
      /\ calls' = Drop(calls, S)
      /\ UNCHANGED <<train, sorts, failed_creates, budgetVars, main>>
  BY DEF MakeTreeReturn, MainAt
<1>2. /\ \A q \in S : Len(q) = 1
      /\ <<"l">> \in S /\ <<"r">> \in S
  OBVIOUS
<1> HIDE DEF S
<1>3. calls' = [y \in DOMAIN calls \ S |-> calls[y]]
  BY <1>1 DEF Drop
<1>4. DOMAIN calls' = DOMAIN calls \ S /\ \A q \in DOMAIN calls' : calls'[q] = calls[q]
  BY <1>3
<1>5. CallsShape'
  <2>1. IsFiniteSet(DOMAIN calls \ S)
    BY FS_Subset DEF IInv, CallsShape
  <2>2. \A q \in DOMAIN calls' : IsCallOf(q, calls'[q])
    BY <1>4 DEF IInv, CallsShape
  <2> QED
    BY <1>3, <1>4, <2>1, <2>2 DEF CallsShape
<1>6. CallNames'
  <2>1. ASSUME NEW p \in DOMAIN calls', Len(p) > 1
        PROVE  Owner(p) \in DOMAIN calls' /\ CallLeads(calls'[Owner(p)].pc, p[Len(p)])
    <3>1. Owner(p) \in DOMAIN calls /\ CallLeads(calls[Owner(p)].pc, p[Len(p)])
      BY <1>4, <2>1 DEF IInv, CallNames
    <3>2. Owner(p) \notin S
      BY <1>1, <3>1 DEF Returned, CallLeads
    <3> QED
      BY <1>4, <3>1, <3>2
  <2> QED
    BY <2>1 DEF CallNames, Owner
<1>7. SortsShape' /\ SortNames' /\ SortThreads' \subseteq SortThreads
  BY <1>1, SortsUntouched DEF IInv
<1>8. SortOwners'
  <2>1. \A q \in DOMAIN calls : calls[q].pc = "sort" => q \in DOMAIN calls' /\ calls'[q].pc = "sort"
    BY <1>1, <1>4 DEF Returned
  <2> QED
    BY <1>1, <2>1, OwnersKept DEF IInv
<1>9. DataInv' /\ MainInv'
  BY <1>1, <1>2, <1>4 DEF IInv, DataInv, MainInv
<1>10. RootDebt' \subseteq RootDebt
  BY <1>1 DEF RootDebt
<1>11. InnerThreads' \subseteq InnerThreads
  BY <1>4, Zenon DEF InnerThreads
<1>12. SlotsInv
  BY DEF IInv, SlotsInv
<1> QED
  BY <1>1, <1>5, <1>6, <1>7, <1>8, <1>9, <1>10, <1>11, <1>12, SlotsKept DEF IInv

LEMMA MakeTreeKeeps ==
  ASSUME IInv, MakeTree
  PROVE  IInv'
<1>1. CASE MakeTreeEmpty
  <2>1. failed_creates' \in 0 .. CreateFailures
    BY <1>1 DEF MakeTreeEmpty, IInv, DataInv
  <2> QED
    BY <1>1, <2>1, EndKeeps DEF MakeTreeEmpty, MainAt
<1> QED
  BY <1>1, LeafStep, SortStepOfMain, AskLeftStep, AskRightStep, CreateLeftStep, CreateRightStep,
     RunStep, MainReturnStep
  DEF MakeTree

(* A step of a sort. *)
LEMMA SortingKeeps ==
  ASSUME IInv, Sorting
  PROVE  IInv'
<1>1. SortStep /\ UNCHANGED <<main, calls, tree>>
  BY DEF Sorting
<1>2. /\ train' = train /\ status = "running" /\ status' \in {"running", "abort"}
      /\ failed_creates' \in 0 .. CreateFailures
  <2>1. /\ train' = train /\ status = "running" /\ status' \in {"running", "abort"}
        /\ \/ failed_creates' = failed_creates
           \/ failed_creates < CreateFailures /\ failed_creates' = failed_creates + 1
    BY <1>1
    DEF SortStep, SortBase, SortAssert, SortSerial, SortLeft, SortRight, SortMerge, SortFork,
        CreateMayFail
  <2>2. failed_creates \in 0 .. CreateFailures
    BY DEF IInv, DataInv
  <2> QED
    BY <2>1, <2>2, FailuresAssumption
<1>3. /\ Cardinality(RootDebt) \in Nat /\ Cardinality(InnerThreads) \in Nat
      /\ Cardinality(SortThreads) \in Nat
  BY SlotsCount DEF IInv
<1>4. SlackKept
  <2>1. BudgetInv
    BY <1>3 DEF IInv, Covered, BudgetInv, BudgetBounds
  <2> QED
    BY <1>1, <2>1, SortKeepsSlack
<1>5. SortNames' /\ \A i \in DOMAIN sorts' : \E j \in DOMAIN sorts : j[1] = i[1]
  BY <1>1, SortKeepsNames DEF IInv
<1>6. SortOwners'
  BY <1>1, <1>5 DEF IInv, SortOwners
<1>7. CallsShape' /\ CallNames' /\ InnerThreads' = InnerThreads
  BY <1>1 DEF IInv, CallsShape, CallNames, Owner, InnerThreads
<1>8. RootDebt' = RootDebt
  BY <1>1, <1>2 DEF RootDebt, Asked, Returned
<1>9. DataInv' /\ MainInv'
  BY <1>1, <1>2 DEF IInv, DataInv, MainInv
<1>10. SortsShape' /\ BudgetBounds' /\ Covered'
  BY <1>3, <1>4, <1>7, <1>8 DEF IInv, SlackKept, Covered, BudgetBounds
<1> QED
  BY <1>5, <1>6, <1>7, <1>9, <1>10 DEF IInv

-----------------------------------------------------------------------------
LEMMA IInvInit == Init /\ cores >= 1 => IInv
<1> SUFFICES ASSUME Init, cores >= 1 PROVE IInv
  OBVIOUS
<1>1. DOMAIN calls = {} /\ DOMAIN sorts = {} /\ calls = <<>> /\ sorts = <<>>
  BY DEF Init
<1>2. SortsShape /\ CallsShape
  BY <1>1, FS_EmptySet DEF SortsShape, CallsShape
<1>3. SortNames /\ CallNames /\ SortOwners
  BY <1>1 DEF SortNames, CallNames, SortOwners
<1>4. DataInv /\ MainInv
  BY <1>1, FailuresAssumption DEF Init, DataInv, MainInv, MainPcs
<1>5. RootDebt = {} /\ InnerThreads = {} /\ SortThreads = {}
  BY <1>1 DEF Init, RootDebt, Asked, AfterRight, InnerThreads, SortThreads
<1>6. BudgetBounds /\ Covered
  BY <1>5, FS_EmptySet, LimitBounded DEF Init, BudgetInit, BudgetBounds, Covered
<1> QED
  BY <1>2, <1>3, <1>4, <1>6 DEF IInv

LEMMA IInvStep == IInv /\ [Next]_vars => IInv'
<1> SUFFICES ASSUME IInv, [Next]_vars PROVE IInv'
  OBVIOUS
<1>1. CASE UNCHANGED vars
  BY <1>1, NothingChanges DEF vars, sortVars, budgetVars
<1> QED
  BY <1>1, MakeTreeKeeps, PopulateNodesKeeps, SortingKeeps DEF Next, Step, Over

(* The invariant of a build on at least one core. *)
LEMMA IInvAlways == cores >= 1 /\ Spec => []IInv
  BY IInvInit, IInvStep, PTL DEF Spec

-----------------------------------------------------------------------------

(* At every moment of a build on at least one core the shared state has its types: the  *)
(* counter of the budget does not wrap, the depth a call hands on is the depth of its   *)
(* node, and every call with a thread releases its slot when it returns.                *)
THEOREM TypeOKAlways == cores >= 1 /\ Spec => []TypeOK
<1>1. IInv => TypeOK
  <2> SUFFICES ASSUME IInv PROVE TypeOK
    OBVIOUS
  <2>1. BudgetTypeOK
    BY LimitBounded, UIntAssumption DEF IInv, BudgetBounds, BudgetTypeOK
  <2>2. ASSUME NEW p \in DOMAIN calls
        PROVE  /\ calls[p].pc \in CallPcs
               /\ calls[p].depth = Len(p)
               /\ calls[p].thread => calls[p].is_thread
    BY Zenon DEF IInv, CallsShape, IsCallOf, IsCall
  <2> QED
    BY <2>1, <2>2 DEF IInv, DataInv, TypeOK, CallPcs
<1> QED
  BY <1>1, IInvAlways, PTL

(* No vector is read after its owner has returned: the caller of a call at work waits for *)
(* it, and the call that asked for a sort at work waits for its result.                    *)
THEOREM VectorsOutliveReadersAlways == cores >= 1 /\ Spec => []VectorsOutliveReaders
<1>1. IInv => VectorsOutliveReaders
  <2> SUFFICES ASSUME IInv PROVE VectorsOutliveReaders
    OBVIOUS
  <2>1. ASSUME NEW p \in DOMAIN calls, Len(p) > 1
        PROVE  Owner(p) \in DOMAIN calls /\ calls[Owner(p)].pc \in {"right", "join"}
    BY <2>1 DEF IInv, CallNames, CallLeads
  <2> QED
    BY <2>1 DEF IInv, SortOwners, VectorsOutliveReaders, Owner
<1> QED
  BY <1>1, IInvAlways, PTL

LiveSides == {side \in Sides : <<side>> \in LiveThreads}

RootThreads == {p \in LiveThreads : Len(p) = 1}

LEMMA RootThreadsCount ==
  ASSUME IInv
  PROVE  /\ IsFiniteSet(LiveSides) /\ IsFiniteSet(RootThreads)
         /\ Cardinality(RootThreads) <= Cardinality(LiveSides)
<1> DEFINE f == [p \in RootThreads |-> p[1]]
<1>1. \A p \in RootThreads : p[1] \in LiveSides /\ p = <<p[1]>>
  <2> SUFFICES ASSUME NEW p \in RootThreads PROVE p[1] \in LiveSides /\ p = <<p[1]>>
    OBVIOUS
  <2>1. p \in DOMAIN calls /\ Len(p) = 1 /\ p \in LiveThreads
    BY DEF RootThreads, LiveThreads
  <2>2. p \in Seq(Sides)
    BY <2>1, Named DEF IInv
  <2>3. p[1] \in Sides /\ p = <<p[1]>>
    BY <2>1, <2>2
  <2> QED
    BY <2>1, <2>3 DEF LiveSides
<1>2. f \in Injection(RootThreads, LiveSides)
  BY <1>1 DEF Injection, IsInjective
<1>3. IsFiniteSet(LiveSides)
  BY SidesCount, FS_Subset DEF LiveSides
<1> QED
  BY <1>2, <1>3, FS_Injection

(* The counter of the budget covers the threads of merge_sort and of populate_nodes and   *)
(* the slots make_tree has reserved, and keeps the limit, on any number of cores from one. *)
THEOREM BudgetCoversThreadsAlways == cores >= 1 /\ Spec => []BudgetCoversThreads
<1>1. IInv => BudgetCoversThreads
  <2> SUFFICES ASSUME IInv PROVE BudgetCoversThreads
    OBVIOUS
  <2>1. /\ IsFiniteSet(RootDebt) /\ Cardinality(RootDebt) \in Nat
        /\ IsFiniteSet(InnerThreads) /\ Cardinality(InnerThreads) \in Nat
        /\ Cardinality(SortThreads) \in Nat
    BY SlotsCount DEF IInv
  <2>2. /\ IsFiniteSet(LiveSides) /\ Cardinality(LiveSides) \in Nat
        /\ IsFiniteSet(RootThreads) /\ Cardinality(RootThreads) \in Nat
        /\ Cardinality(RootThreads) <= Cardinality(LiveSides)
    BY RootThreadsCount, FS_CardinalityType
  <2>3. /\ LiveSides \cup Reserved \subseteq RootDebt /\ LiveSides \cap Reserved = {}
    <3>1. LiveSides \cap Reserved = {}
      BY DEF LiveSides, Reserved, LiveThreads
    <3>2. ASSUME NEW side \in LiveSides PROVE side \in RootDebt
      <4>1. /\ side \in Sides /\ <<side>> \in DOMAIN calls /\ calls[<<side>>].pc # "returned"
        BY DEF LiveSides, LiveThreads
      <4>2. main.pc \in AfterRight /\ status # "built"
        BY <4>1 DEF IInv, MainInv, MainPcs, AfterRight, Sides
      <4> QED
        BY <4>1, <4>2 DEF RootDebt, Asked, Returned
    <3>3. ASSUME NEW side \in Reserved PROVE side \in RootDebt
      <4>1. /\ side \in Sides /\ main.pc \in {"ask right", "create left", "create right"}
            /\ main[side] /\ <<side>> \notin DOMAIN calls
        BY Zenon DEF Reserved, Sides
      <4>2. status # "built"
        BY <4>1 DEF IInv, MainInv
      <4>3. Asked(side)
        BY <4>1 DEF Asked, AfterRight, Sides, IInv, MainInv
      <4> QED
        BY <4>1, <4>2, <4>3 DEF RootDebt, Returned
    <3> QED
      BY <3>1, <3>2, <3>3
  <2>4. /\ IsFiniteSet(Reserved) /\ Cardinality(Reserved) \in Nat
        /\ Cardinality(LiveSides) + Cardinality(Reserved) <= Cardinality(RootDebt)
    <3>1. IsFiniteSet(Reserved)
      BY <2>1, <2>3, FS_Subset
    <3>2. Cardinality(LiveSides \cup Reserved) = Cardinality(LiveSides) + Cardinality(Reserved) - 0
      BY <2>2, <2>3, <3>1, FS_Union, FS_EmptySet
    <3>3. Cardinality(LiveSides \cup Reserved) <= Cardinality(RootDebt)
      BY <2>1, <2>3, NoMore
    <3> QED
      BY <2>2, <3>1, <3>2, <3>3, FS_CardinalityType
  <2>5. /\ Cardinality(LiveThreads) \in Nat
        /\ Cardinality(LiveThreads) <= Cardinality(InnerThreads) + Cardinality(RootThreads)
    <3>1. LiveThreads \subseteq InnerThreads \cup RootThreads
      <4> SUFFICES ASSUME NEW p \in LiveThreads PROVE p \in InnerThreads \cup RootThreads
        OBVIOUS
      <4>1. p \in DOMAIN calls
        BY DEF LiveThreads
      <4>2. Len(p) = 1 \/ Len(p) > 1
        <5>1. PICK n \in Nat : n = Len(p) /\ n >= 1
          BY <4>1, Named DEF IInv
        <5> QED
          BY <5>1
      <4> QED
        BY <4>1, <4>2, Zenon DEF LiveThreads, InnerThreads, RootThreads
    <3>2. /\ IsFiniteSet(InnerThreads \cup RootThreads)
          /\ Cardinality(InnerThreads \cup RootThreads)
               = Cardinality(InnerThreads) + Cardinality(RootThreads)
                   - Cardinality(InnerThreads \cap RootThreads)
          /\ Cardinality(InnerThreads \cap RootThreads) \in Nat
      BY <2>1, <2>2, FS_Union, FS_Intersection, FS_CardinalityType
    <3>3. /\ Cardinality(LiveThreads) \in Nat
          /\ Cardinality(LiveThreads) <= Cardinality(InnerThreads \cup RootThreads)
      BY <3>1, <3>2, NoMore
    <3> QED
      BY <2>1, <2>2, <3>2, <3>3
  <2> QED
    BY <2>1, <2>2, <2>4, <2>5 DEF IInv, Covered, BudgetBounds, BudgetCoversThreads
<1> QED
  BY <1>1, IInvAlways, PTL
=============================================================================
