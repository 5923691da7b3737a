-------------------------- MODULE MergeSort_proofs --------------------------
(***************************************************************************)
(* The budget of threads during a sort, for any cores, any training set    *)
(* and any schedule.  Nothing needs to be known of the names of the calls: *)
(* a call that runs in a thread gets its slot when it is put in sorts, and *)
(* the slot is released by the step with which the call returns, or never. *)
(***************************************************************************)
EXTENDS MergeSort, KnnOps_proofs

SortPcs == {"call", "left", "right", "returned"}

IsSortCall(s) ==
  /\ s = [a |-> s.a, begin |-> s.begin, end |-> s.end, depth |-> s.depth,
          dimension |-> s.dimension, is_thread |-> s.is_thread, pc |-> s.pc, out |-> s.out]
  /\ s.is_thread \in BOOLEAN
  /\ s.pc \in SortPcs

SortsShape ==
  /\ sorts = [id \in DOMAIN sorts |-> sorts[id]]
  /\ IsFiniteSet(DOMAIN sorts)
  /\ \A id \in DOMAIN sorts : IsSortCall(sorts[id])

BudgetBounds ==
  /\ tmp_thread_count \in Nat /\ max_threads \in Nat
  /\ tmp_thread_count <= max_threads /\ max_threads <= thread_limit

-----------------------------------------------------------------------------
(* The two functions of the budget. *)

LEMMA LimitBounded == thread_limit \in Nat /\ thread_limit < UIntRange
  BY CoresAssumption, UIntAssumption DEF thread_limit

LEMMA NoWrap ==
  ASSUME NEW c \in Nat, c > 0, c < UIntRange
  PROVE  (c + UIntRange - 1) % UIntRange = c - 1
<1>1. UIntRange \in Nat /\ UIntRange > 0
  BY UIntAssumption, CoresAssumption
<1>2. c + UIntRange - 1 = 1 * UIntRange + (c - 1) /\ c - 1 \in 0 .. UIntRange - 1
  BY <1>1
<1> QED
  BY <1>1, <1>2

LEMMA LimitConstant == thread_limit' = thread_limit
  BY DEF thread_limit

LEMMA Granted ==
  ASSUME BudgetBounds, NEW granted \in BOOLEAN, make_thread(granted)
  PROVE  /\ BudgetBounds'
         /\ granted => tmp_thread_count' = tmp_thread_count + 1
         /\ ~granted => tmp_thread_count' = tmp_thread_count /\ tmp_thread_count = thread_limit
<1>1. CASE granted
  <2>1. /\ tmp_thread_count < thread_limit
        /\ tmp_thread_count' = tmp_thread_count + 1
        /\ max_threads' = MaxOf(max_threads, tmp_thread_count + 1)
    BY <1>1, Zenon DEF make_thread
  <2> QED
    BY <1>1, <2>1, LimitConstant, LimitBounded DEF BudgetBounds, MaxOf
<1>2. CASE ~granted
  <2>1. /\ ~(tmp_thread_count < thread_limit)
        /\ tmp_thread_count' = tmp_thread_count
        /\ max_threads' = max_threads
    BY <1>2, Zenon DEF make_thread
  <2> QED
    BY <1>2, <2>1, LimitConstant, LimitBounded DEF BudgetBounds
<1> QED
  BY <1>1, <1>2

LEMMA Released ==
  ASSUME BudgetBounds, tmp_thread_count > 0, decrement_tmp_threads
  PROVE  BudgetBounds' /\ tmp_thread_count' = tmp_thread_count - 1
<1>1. tmp_thread_count \in Nat /\ tmp_thread_count < UIntRange
  BY LimitBounded, UIntAssumption DEF BudgetBounds
<1>2. tmp_thread_count' = tmp_thread_count - 1
  BY <1>1, NoWrap DEF decrement_tmp_threads
<1> QED
  BY <1>1, <1>2, LimitConstant DEF BudgetBounds, decrement_tmp_threads

-----------------------------------------------------------------------------
(* What the steps do to the records. *)

IsFunction(f) == f = [x \in DOMAIN f |-> f[x]]

(* What a call was given does not change. *)
SameRange(s, t) ==
  /\ t.a = s.a /\ t.begin = s.begin /\ t.end = s.end
  /\ t.dimension = s.dimension /\ t.depth = s.depth

(* A record after its call has gone on to another control point, or has returned. *)
LEMMA Moved ==
  ASSUME NEW s, IsSortCall(s), NEW here \in SortPcs, NEW t, t = [s EXCEPT !.pc = here]
  PROVE  IsSortCall(t) /\ t.pc = here /\ t.is_thread = s.is_thread /\ SameRange(s, t)
<1> DEFINE fields == {"a", "begin", "end", "depth", "dimension", "is_thread", "pc", "out"}
<1>1. DOMAIN s = fields /\ s = [x \in fields |-> s[x]]
  BY DEF IsSortCall
<1>2. t = [a |-> s.a, begin |-> s.begin, end |-> s.end, depth |-> s.depth,
           dimension |-> s.dimension, is_thread |-> s.is_thread, pc |-> here, out |-> s.out]
  BY <1>1
<1> QED
  BY <1>2 DEF IsSortCall, SameRange

LEMMA Delivered ==
  ASSUME NEW s, IsSortCall(s), NEW out, NEW t, t = [s EXCEPT !.out = out]
  PROVE  /\ IsSortCall(t) /\ t.pc = s.pc /\ t.is_thread = s.is_thread
         /\ SameRange(s, t) /\ t.out = out
<1> DEFINE fields == {"a", "begin", "end", "depth", "dimension", "is_thread", "pc", "out"}
<1>1. DOMAIN s = fields /\ s = [x \in fields |-> s[x]]
  BY DEF IsSortCall
<1>2. t = [a |-> s.a, begin |-> s.begin, end |-> s.end, depth |-> s.depth,
           dimension |-> s.dimension, is_thread |-> s.is_thread, pc |-> s.pc, out |-> out]
  BY <1>1
<1> QED
  BY <1>2 DEF IsSortCall, SameRange

LEMMA Gone ==
  ASSUME SortsShape, NEW id \in DOMAIN sorts, NEW here \in SortPcs,
         NEW f, f = [sorts EXCEPT ![id].pc = here]
  PROVE  /\ IsFunction(f) /\ DOMAIN f = DOMAIN sorts
         /\ \A i \in DOMAIN sorts : i # id => f[i] = sorts[i]
         /\ IsSortCall(f[id])
         /\ f[id].pc = here /\ f[id].is_thread = sorts[id].is_thread
         /\ SameRange(sorts[id], f[id])
<1>1. /\ IsFunction(f) /\ DOMAIN f = DOMAIN sorts
      /\ \A i \in DOMAIN sorts : i # id => f[i] = sorts[i]
      /\ f[id] = [sorts[id] EXCEPT !.pc = here]
  BY DEF SortsShape, IsFunction
<1>2. IsSortCall(sorts[id])
  BY DEF SortsShape
<1> QED
  BY <1>1, <1>2, Moved

Returns(f, id, out) == f = [sorts EXCEPT ![id].pc = "returned", ![id].out = out]

LEMMA GoneBack ==
  ASSUME SortsShape, NEW id \in DOMAIN sorts, NEW out, NEW f, Returns(f, id, out)
  PROVE  /\ IsFunction(f) /\ DOMAIN f = DOMAIN sorts
         /\ \A i \in DOMAIN sorts : i # id => f[i] = sorts[i]
         /\ IsSortCall(f[id])
         /\ f[id].pc = "returned" /\ f[id].is_thread = sorts[id].is_thread
         /\ SameRange(sorts[id], f[id]) /\ f[id].out = out
<1>1. PICK t : t = [sorts[id] EXCEPT !.pc = "returned"]
  OBVIOUS
<1>2. "returned" \in SortPcs /\ IsSortCall(sorts[id])
  BY DEF SortPcs, SortsShape
<1>3. /\ IsSortCall(t) /\ t.pc = "returned" /\ t.is_thread = sorts[id].is_thread
      /\ SameRange(sorts[id], t)
  BY <1>1, <1>2, Moved
<1>4. /\ IsFunction(f) /\ DOMAIN f = DOMAIN sorts
      /\ \A i \in DOMAIN sorts : i # id => f[i] = sorts[i]
      /\ f[id] = [t EXCEPT !.out = out]
  BY <1>1 DEF IsFunction, SortsShape, Returns
<1>5. /\ IsSortCall(f[id]) /\ f[id].pc = t.pc /\ f[id].is_thread = t.is_thread
      /\ SameRange(t, f[id]) /\ f[id].out = out
  BY <1>3, <1>4, Delivered
<1>6. SameRange(sorts[id], f[id])
  BY <1>3, <1>5 DEF SameRange
<1> QED
  BY <1>3, <1>4, <1>5, <1>6, Zenon

LEMMA NewCall ==
  ASSUME NEW a, NEW begin, NEW end, NEW depth, NEW dimension, NEW is_thread \in BOOLEAN
  PROVE  LET s == SortCall(a, begin, end, depth, dimension, is_thread)
         IN  IsSortCall(s) /\ s.pc = "call" /\ s.is_thread = is_thread
  BY DEF SortCall, IsSortCall, SortPcs

-----------------------------------------------------------------------------
(* The threads. *)

LEMMA ThreadsCount ==
  ASSUME SortsShape
  PROVE  IsFiniteSet(SortThreads) /\ Cardinality(SortThreads) \in Nat
<1>1. IsFiniteSet(SortThreads)
  BY FS_Subset DEF SortsShape, SortThreads
<1> QED
  BY <1>1, FS_CardinalityType

LEMMA NoMore ==
  ASSUME NEW S, NEW T, IsFiniteSet(S), T \subseteq S
  PROVE  Cardinality(T) \in Nat /\ Cardinality(T) <= Cardinality(S)
  BY FS_Subset, FS_CardinalityType

LEMMA OneMore ==
  ASSUME NEW S, NEW T, NEW x, IsFiniteSet(S), T \subseteq S \cup {x}
  PROVE  Cardinality(T) \in Nat /\ Cardinality(T) <= Cardinality(S) + 1
<1>1. IsFiniteSet(S \cup {x}) /\ Cardinality(S \cup {x}) <= Cardinality(S) + 1
      /\ Cardinality(S) \in Nat
  BY FS_AddElement, FS_CardinalityType
<1>2. Cardinality(T) \in Nat /\ Cardinality(T) <= Cardinality(S \cup {x})
      /\ Cardinality(S \cup {x}) \in Nat
  BY <1>1, NoMore, FS_CardinalityType
<1> QED
  BY <1>1, <1>2

LEMMA OneLess ==
  ASSUME NEW S, NEW T, NEW x \in S, IsFiniteSet(S), T \subseteq S \ {x}
  PROVE  /\ Cardinality(T) \in Nat /\ Cardinality(S) > 0
         /\ Cardinality(T) <= Cardinality(S) - 1
<1>1. IsFiniteSet(S \ {x}) /\ Cardinality(S \ {x}) = Cardinality(S) - 1
      /\ Cardinality(S) \in Nat /\ Cardinality(S \ {x}) \in Nat
  BY FS_RemoveElement, FS_CardinalityType
<1>2. Cardinality(T) \in Nat /\ Cardinality(T) <= Cardinality(S \ {x})
  BY <1>1, NoMore
<1> QED
  BY <1>1, <1>2

-----------------------------------------------------------------------------
(* The steps: whatever a sort does, the counter loses nothing against the threads at work. *)

SlackKept ==
  /\ SortsShape'
  /\ BudgetBounds'
  /\ Cardinality(SortThreads') \in Nat
  /\ tmp_thread_count - Cardinality(SortThreads)
       <= tmp_thread_count' - Cardinality(SortThreads')

BudgetInv ==
  /\ SortsShape
  /\ BudgetBounds
  /\ Cardinality(SortThreads) <= tmp_thread_count

(* A call returns: with its slot, if it has one, or keeping it. *)
LEMMA ReturnKeepsSlack ==
  ASSUME BudgetInv, NEW id \in DOMAIN sorts, sorts[id].pc # "returned",
         IsFunction(sorts'), DOMAIN sorts' \subseteq DOMAIN sorts,
         \A i \in DOMAIN sorts' : i # id => sorts'[i] = sorts[i],
         id \in DOMAIN sorts' => /\ IsSortCall(sorts'[id]) /\ sorts'[id].pc = "returned",
         return_thread(sorts[id].is_thread) \/ UNCHANGED budgetVars
  PROVE  SlackKept
<1>1. IsFiniteSet(SortThreads) /\ Cardinality(SortThreads) \in Nat
  BY ThreadsCount DEF BudgetInv
<1>2. SortsShape'
  BY FS_Subset DEF BudgetInv, SortsShape, IsFunction
<1>3. SortThreads' \subseteq SortThreads \ {id}
  BY DEF SortThreads, SortReturned
<1>4. Cardinality(SortThreads') \in Nat /\ Cardinality(SortThreads') <= Cardinality(SortThreads)
  BY <1>1, <1>3, NoMore
<1>5. CASE UNCHANGED budgetVars
  BY <1>1, <1>2, <1>4, <1>5, LimitConstant DEF SlackKept, BudgetInv, BudgetBounds, budgetVars
<1>6. CASE sorts[id].is_thread /\ decrement_tmp_threads
  <2>1. id \in SortThreads
    BY <1>6 DEF SortThreads, SortReturned
  <2>2. /\ Cardinality(SortThreads') \in Nat /\ Cardinality(SortThreads) > 0
        /\ Cardinality(SortThreads') <= Cardinality(SortThreads) - 1
    BY <1>1, <1>3, <2>1, OneLess
  <2>3. BudgetBounds' /\ tmp_thread_count' = tmp_thread_count - 1
    BY <1>1, <1>6, <2>2, Released DEF BudgetInv, BudgetBounds
  <2> QED
    BY <1>1, <1>2, <2>2, <2>3 DEF SlackKept, BudgetInv, BudgetBounds
<1> QED
  BY <1>5, <1>6 DEF return_thread

(* A fork that comes about: the parent goes on, and the half is called. *)
Forks(id, half, new, pc) == sorts' = Put([sorts EXCEPT ![id].pc = pc], half, new)

ForkAdds(id, half, new, pc) ==
  /\ SortsShape'
  /\ DOMAIN sorts' = DOMAIN sorts \cup {half}
  /\ sorts'[half] = new
  /\ half # id => /\ sorts'[id].pc = pc /\ sorts'[id].is_thread = sorts[id].is_thread
                  /\ SameRange(sorts[id], sorts'[id])
  /\ \A i \in DOMAIN sorts : i # half /\ i # id => sorts'[i] = sorts[i]

LEMMA Forked ==
  ASSUME SortsShape, NEW id \in DOMAIN sorts, NEW half, NEW new, IsSortCall(new),
         NEW pc \in SortPcs, Forks(id, half, new, pc)
  PROVE  ForkAdds(id, half, new, pc)
<1> DEFINE gone == [sorts EXCEPT ![id].pc = pc]
<1>1. /\ IsFunction(gone) /\ DOMAIN gone = DOMAIN sorts
      /\ \A i \in DOMAIN sorts : i # id => gone[i] = sorts[i]
      /\ IsSortCall(gone[id])
      /\ gone[id].pc = pc /\ gone[id].is_thread = sorts[id].is_thread
      /\ SameRange(sorts[id], gone[id])
  BY Gone
<1>2. sorts' = Put(gone, half, new)
  BY DEF Forks
<1> HIDE DEF gone
<1>3. IsFiniteSet(DOMAIN sorts \cup {half})
  BY FS_AddElement DEF SortsShape
<1>4. sorts' = [y \in DOMAIN sorts \cup {half} |-> IF y = half THEN new ELSE gone[y]]
  BY <1>1, <1>2 DEF Put
<1>5. SortsShape'
  BY <1>1, <1>3, <1>4 DEF SortsShape
<1> QED
  BY <1>1, <1>4, <1>5 DEF ForkAdds

LEMMA ForkOutcome ==
  ASSUME NEW id, NEW side, NEW begin, NEW end, NEW pc, SortFork(id, side, begin, end, pc)
  PROVE  \/ sorts' = sorts
         \/ \E new : IsSortCall(new) /\ Forks(id, Half(id, side), new, pc)
<1>1. PICK granted \in BOOLEAN :
        \/ sorts' = Put([sorts EXCEPT ![id].pc = pc], Half(id, side),
                        SortCall(sorts[id].a, begin, end, sorts[id].depth + 1,
                                 sorts[id].dimension, granted))
        \/ sorts' = sorts
  BY DEF SortFork
<1> DEFINE new == SortCall(sorts[id].a, begin, end, sorts[id].depth + 1,
                           sorts[id].dimension, granted)
<1>2. IsSortCall(new)
  BY DEF SortCall, IsSortCall, SortPcs
<1>3. sorts' = sorts \/ Forks(id, Half(id, side), new, pc)
  BY <1>1 DEF Forks
<1> HIDE DEF new
<1> QED
  BY <1>2, <1>3

LEMMA ForkKeepsSlack ==
  ASSUME BudgetInv, NEW id \in DOMAIN sorts, sorts[id].pc # "returned",
         NEW side, NEW begin, NEW end, NEW pc \in SortPcs, SortFork(id, side, begin, end, pc)
  PROVE  SlackKept
<1> DEFINE call(granted) == SortCall(sorts[id].a, begin, end, sorts[id].depth + 1,
                                     sorts[id].dimension, granted)
           Comes(granted) == Forks(id, Half(id, side), call(granted), pc)
<1>1. \/ make_thread(TRUE) /\ (Comes(TRUE) \/ sorts' = sorts)
      \/ make_thread(FALSE) /\ Comes(FALSE)
  <2>1. PICK granted \in BOOLEAN :
          /\ make_thread(granted)
          /\ Comes(granted) \/ (granted /\ sorts' = sorts)
    BY DEF SortFork, Forks
  <2>2. CASE granted = TRUE
    BY <2>1, <2>2
  <2>3. CASE granted = FALSE
    BY <2>1, <2>3
  <2> QED
    BY <2>2, <2>3
<1>2. IsFiniteSet(SortThreads) /\ Cardinality(SortThreads) \in Nat
  BY ThreadsCount DEF BudgetInv
<1>3. ASSUME NEW half, NEW new, IsSortCall(new), Forks(id, half, new, pc)
      PROVE  /\ SortsShape'
             /\ SortThreads' \subseteq SortThreads \cup {half}
             /\ ~new.is_thread => SortThreads' \subseteq SortThreads
  <2>1. ForkAdds(id, half, new, pc)
    BY <1>3, Forked DEF BudgetInv
  <2> QED
    BY <2>1 DEF ForkAdds, SortThreads, SortReturned
<1>4. CASE make_thread(TRUE) /\ Comes(TRUE)
  <2>1. IsSortCall(call(TRUE))
    BY NewCall
  <2>2. SortsShape' /\ SortThreads' \subseteq SortThreads \cup {Half(id, side)}
    BY <1>3, <1>4, <2>1
  <2>3. Cardinality(SortThreads') \in Nat
        /\ Cardinality(SortThreads') <= Cardinality(SortThreads) + 1
    BY <1>2, <2>2, OneMore
  <2>4. BudgetBounds' /\ tmp_thread_count' = tmp_thread_count + 1
    BY <1>4, Granted DEF BudgetInv
  <2> QED
    BY <1>2, <2>2, <2>3, <2>4 DEF SlackKept, BudgetInv, BudgetBounds
<1>5. CASE make_thread(TRUE) /\ sorts' = sorts
  <2>1. SortsShape' /\ SortThreads' = SortThreads
    BY <1>5 DEF BudgetInv, SortsShape, SortThreads, SortReturned
  <2>2. BudgetBounds' /\ tmp_thread_count' = tmp_thread_count + 1
    BY <1>5, Granted DEF BudgetInv
  <2> QED
    BY <1>2, <2>1, <2>2 DEF SlackKept, BudgetInv, BudgetBounds
<1>6. CASE make_thread(FALSE) /\ Comes(FALSE)
  <2>1. IsSortCall(call(FALSE)) /\ ~call(FALSE).is_thread
    BY NewCall
  <2>2. SortsShape' /\ SortThreads' \subseteq SortThreads
    BY <1>3, <1>6, <2>1
  <2>3. Cardinality(SortThreads') \in Nat /\ Cardinality(SortThreads') <= Cardinality(SortThreads)
    BY <1>2, <2>2, NoMore
  <2>4. BudgetBounds' /\ tmp_thread_count' = tmp_thread_count
    BY <1>6, Granted DEF BudgetInv
  <2> QED
    BY <1>2, <2>2, <2>3, <2>4 DEF SlackKept, BudgetInv, BudgetBounds
<1> QED
  BY <1>1, <1>4, <1>5, <1>6

LEMMA MergeKeepsSlack ==
  ASSUME BudgetInv, NEW id \in DOMAIN sorts, SortMerge(id)
  PROVE  SlackKept
<1> DEFINE children == {Half(id, "l"), Half(id, "r")}
           out == MergeRuns(train, sorts[Half(id, "l")].out, sorts[Half(id, "r")].out,
                            sorts[id].dimension)
<1>1. PICK f : Returns(f, id, out)
  BY DEF Returns
<1>2. /\ sorts[id].pc = "right"
      /\ sorts' = Drop(f, children)
      /\ return_thread(sorts[id].is_thread)
  BY <1>1 DEF SortMerge, Returns
<1> HIDE DEF children, out
<1>3. /\ IsFunction(f) /\ DOMAIN f = DOMAIN sorts
      /\ \A i \in DOMAIN sorts : i # id => f[i] = sorts[i]
      /\ IsSortCall(f[id])
      /\ f[id].pc = "returned"
  BY <1>1, GoneBack DEF BudgetInv
<1>4. sorts' = [y \in DOMAIN f \ children |-> f[y]]
  BY <1>2 DEF Drop
<1>5. /\ IsFunction(sorts') /\ DOMAIN sorts' \subseteq DOMAIN sorts
      /\ \A i \in DOMAIN sorts' : i # id => sorts'[i] = sorts[i]
      /\ id \in DOMAIN sorts' => /\ IsSortCall(sorts'[id]) /\ sorts'[id].pc = "returned"
  BY <1>3, <1>4 DEF IsFunction
<1> QED
  BY <1>2, <1>5, ReturnKeepsSlack

LEMMA SortKeepsSlack ==
  ASSUME BudgetInv, SortStep
  PROVE  SlackKept
<1> SUFFICES ASSUME NEW id \in DOMAIN sorts,
                    \/ SortBase(id) \/ SortAssert(id) \/ SortSerial(id)
                    \/ SortLeft(id) \/ SortRight(id) \/ SortMerge(id)
             PROVE  SlackKept
  BY DEF SortStep
<1>1. CASE SortBase(id) \/ SortSerial(id)
  <2>1. PICK out : Returns(sorts', id, out)
    <3>1. CASE SortBase(id)
      <4> DEFINE elements == <<sorts[id].a[sorts[id].begin + 1]>>
      <4>1. Returns(sorts', id, elements)
        BY <3>1 DEF SortBase, Returns
      <4> HIDE DEF elements
      <4> QED
        BY <4>1
    <3>2. CASE SortSerial(id)
      <4> DEFINE s == sorts[id]
                 elements == SerialSort(train, s.a, s.begin, s.end, s.dimension)
      <4>1. Returns(sorts', id, elements)
        BY <3>2 DEF SortSerial, Returns
      <4> HIDE DEF elements
      <4> QED
        BY <4>1
    <3> QED
      BY <1>1, <3>1, <3>2
  <2>2. /\ IsFunction(sorts') /\ DOMAIN sorts' = DOMAIN sorts
        /\ \A i \in DOMAIN sorts : i # id => sorts'[i] = sorts[i]
        /\ IsSortCall(sorts'[id])
        /\ sorts'[id].pc = "returned"
    BY <2>1, GoneBack DEF BudgetInv
  <2>3. /\ sorts[id].pc # "returned"
        /\ return_thread(sorts[id].is_thread) \/ UNCHANGED budgetVars
    BY <1>1 DEF SortBase, SortSerial
  <2> QED
    BY <2>2, <2>3, ReturnKeepsSlack
<1>2. CASE SortAssert(id)
  <2>1. UNCHANGED <<sorts, budgetVars>>
    BY <1>2 DEF SortAssert
  <2>2. SortsShape' /\ BudgetBounds' /\ SortThreads' = SortThreads
    BY <2>1, LimitConstant
    DEF BudgetInv, SortsShape, BudgetBounds, SortThreads, SortReturned, budgetVars
  <2>3. Cardinality(SortThreads) \in Nat
    BY ThreadsCount DEF BudgetInv
  <2> QED
    BY <2>1, <2>2, <2>3 DEF SlackKept, BudgetInv, BudgetBounds, budgetVars
<1>3. CASE SortLeft(id)
  BY <1>3, ForkKeepsSlack DEF SortLeft, SortPcs
<1>4. CASE SortRight(id)
  BY <1>4, ForkKeepsSlack DEF SortRight, SortPcs
<1>5. CASE SortMerge(id)
  BY <1>5, MergeKeepsSlack
<1> QED
  BY <1>1, <1>2, <1>3, <1>4, <1>5

-----------------------------------------------------------------------------
LEMMA BudgetInvInit == SortInit => BudgetInv
<1> SUFFICES ASSUME SortInit PROVE BudgetInv
  OBVIOUS
<1> DEFINE call == SortCall(Rows(train), 0, RootSample(train), 0, 0, FALSE)
<1>1. sorts = [y \in {Root} |-> call]
  BY DEF SortInit, Put
<1>2. IsSortCall(call) /\ call.is_thread = FALSE
  BY NewCall
<1> HIDE DEF call
<1>3. SortsShape /\ SortThreads = {}
  BY <1>1, <1>2, FS_Singleton DEF SortsShape, SortThreads
<1>4. tmp_thread_count = 0 /\ max_threads = 0
  BY DEF SortInit, BudgetInit
<1> QED
  BY <1>3, <1>4, FS_EmptySet, LimitBounded DEF BudgetInv, BudgetBounds

LEMMA BudgetInvStep == BudgetInv /\ [SortNext]_sortVars => BudgetInv'
<1> SUFFICES ASSUME BudgetInv, [SortNext]_sortVars PROVE BudgetInv'
  OBVIOUS
<1>1. IsFiniteSet(SortThreads) /\ Cardinality(SortThreads) \in Nat
  BY ThreadsCount DEF BudgetInv
<1>2. CASE SortStep
  <2>1. SlackKept
    BY <1>2, SortKeepsSlack
  <2> QED
    BY <1>1, <2>1 DEF SlackKept, BudgetInv, BudgetBounds
<1>3. CASE UNCHANGED <<sorts, budgetVars>>
  <2>1. SortsShape' /\ BudgetBounds' /\ SortThreads' = SortThreads
    BY <1>3, LimitConstant
    DEF BudgetInv, SortsShape, BudgetBounds, SortThreads, SortReturned, budgetVars
  <2> QED
    BY <1>3, <2>1 DEF BudgetInv, budgetVars
<1> QED
  BY <1>2, <1>3 DEF SortNext, SortTaken, SortOver, sortVars, budgetVars

(* The counter covers the threads of a sort at every moment, keeps the limit and does not *)
(* wrap, for any number of cores, any points and any schedule.                             *)
THEOREM SortBudgetAlways == SortSpec => []SortBudget
<1>1. BudgetInv => SortBudget
  BY LimitBounded, UIntAssumption DEF BudgetInv, BudgetBounds, SortBudget, BudgetTypeOK
<1> QED
  BY <1>1, BudgetInvInit, BudgetInvStep, PTL DEF SortSpec

-----------------------------------------------------------------------------
(* The results of the sorts.  A call that has forked a half knows of it only that it  *)
(* sorts that half of its own range, of the same vector, in the same coordinate: what *)
(* it returns then follows from the equation of the recursion (SerialSortSplits).     *)

Sides == {"l", "r"}

IsSortName(id) == id = <<id[1], id[2]>> /\ id[2] \in Seq(Sides)

(* Where a call is behind the fork of a half. *)
Beyond(pc, side) == pc = "right" \/ (pc = "left" /\ side = "l")

SortedCall(t, s) ==
  /\ s.a \in Seq(DOMAIN t)
  /\ s.begin \in Nat /\ s.end \in Nat /\ s.begin <= s.end /\ s.end <= Len(s.a)
  /\ s.dimension \in Dimensions
  /\ s.pc \in {"left", "right"} => s.end - s.begin >= 2
  /\ s.pc = "returned" => /\ s.begin < s.end
                          /\ s.out = SerialSort(t, s.a, s.begin, s.end, s.dimension)

IsHalf(side, s, h) ==
  /\ h.a = s.a /\ h.dimension = s.dimension
  /\ side = "l" => h.begin = s.begin /\ h.end = Mid(s.begin, s.end)
  /\ side = "r" => h.begin = Mid(s.begin, s.end) /\ h.end = s.end

RunsInv ==
  /\ SortsShape
  /\ train \in Datasets
  /\ \A id \in DOMAIN sorts :
       /\ IsSortName(id)
       /\ SortedCall(train, sorts[id])
       /\ \A side \in Sides :
            Beyond(sorts[id].pc, side) /\ Half(id, side) \in DOMAIN sorts =>
              IsHalf(side, sorts[id], sorts[Half(id, side)])

LEMMA HalfIsName ==
  ASSUME NEW id, IsSortName(id), NEW side \in Sides
  PROVE  IsSortName(Half(id, side)) /\ Half(id, side)[2] # <<>>
<1>1. Append(id[2], side) \in Seq(Sides) /\ Append(id[2], side) # <<>>
  BY AppendProperties DEF IsSortName
<1> QED
  BY <1>1 DEF Half, IsSortName

LEMMA HalvesApart ==
  ASSUME NEW i, IsSortName(i), NEW j, IsSortName(j), NEW s \in Sides, NEW t \in Sides,
         Half(i, s) = Half(j, t)
  PROVE  i = j /\ s = t
<1>1. PICK x \in Seq(Sides) : x = i[2]
  BY DEF IsSortName
<1>2. PICK y \in Seq(Sides) : y = j[2]
  BY DEF IsSortName
<1>3. i[1] = j[1] /\ Append(x, s) = Append(y, t)
  BY <1>1, <1>2 DEF Half
<1>4. /\ Len(x) \in Nat /\ Len(y) \in Nat
      /\ Len(Append(x, s)) = Len(x) + 1 /\ Len(Append(y, t)) = Len(y) + 1
      /\ Append(x, s)[Len(x) + 1] = s /\ Append(y, t)[Len(y) + 1] = t
      /\ \A k \in 1 .. Len(x) : Append(x, s)[k] = x[k]
      /\ \A k \in 1 .. Len(y) : Append(y, t)[k] = y[k]
  BY AppendProperties, LenProperties
<1>5. Len(x) = Len(y) /\ s = t
  BY <1>3, <1>4
<1>6. x = y
  <2>1. \A k \in 1 .. Len(x) : x[k] = y[k]
    BY <1>3, <1>4, <1>5
  <2> QED
    BY <1>5, <2>1, SeqEqual
<1> QED
  BY <1>1, <1>2, <1>3, <1>5, <1>6 DEF IsSortName

LEMMA SameRangeSorted ==
  ASSUME NEW t, NEW s, SortedCall(t, s), NEW u, SameRange(s, u), u.pc \in {"left", "right"},
         s.end - s.begin >= 2
  PROVE  SortedCall(t, u)
  BY DEF SortedCall, SameRange

LEMMA SameRangeHalf ==
  ASSUME NEW side, NEW s, NEW h, IsHalf(side, s, h), NEW u, SameRange(s, u),
         NEW k, SameRange(h, k)
  PROVE  IsHalf(side, u, k)
  BY DEF IsHalf, SameRange

LEMMA RunsVector ==
  ASSUME RunsInv, NEW id \in DOMAIN sorts
  PROVE  IsVector(train, sorts[id].a, sorts[id].dimension)
<1>1. train \in Seq([1 .. num_dimensions -> Nat]) /\ sorts[id].dimension \in Dimensions
      /\ sorts[id].a \in Seq(DOMAIN train)
  BY DatasetsAssumption DEF RunsInv, SortedCall
<1>2. sorts[id].dimension + 1 \in 1 .. num_dimensions
  BY <1>1, DimensionsAssumption DEF Dimensions
<1>3. \A i \in DOMAIN train : At(train, i, sorts[id].dimension) \in Nat
  <2> SUFFICES ASSUME NEW i \in DOMAIN train PROVE train[i][sorts[id].dimension + 1] \in Nat
    BY DEF At
  <2>1. train[i] \in [1 .. num_dimensions -> Nat]
    BY <1>1
  <2> QED
    BY <1>2, <2>1
<1> QED
  BY <1>1, <1>3 DEF IsVector

(* A call returns the sort of its range. *)
LEMMA ReturnKeepsRuns ==
  ASSUME RunsInv, train' = train, NEW id \in DOMAIN sorts, NEW f, NEW out, Returns(f, id, out),
         sorts[id].begin < sorts[id].end,
         out = SerialSort(train, sorts[id].a, sorts[id].begin, sorts[id].end, sorts[id].dimension),
         NEW D \in SUBSET DOMAIN sorts, sorts' = [i \in D |-> f[i]]
  PROVE  RunsInv'
<1>1. /\ IsFunction(f) /\ DOMAIN f = DOMAIN sorts
      /\ \A i \in DOMAIN sorts : i # id => f[i] = sorts[i]
      /\ IsSortCall(f[id]) /\ f[id].pc = "returned"
      /\ SameRange(sorts[id], f[id]) /\ f[id].out = out
  BY GoneBack DEF RunsInv
<1>2. DOMAIN sorts' = D /\ \A i \in D : sorts'[i] = f[i]
  OBVIOUS
<1>3. SortsShape'
  BY <1>1, <1>2, FS_Subset DEF RunsInv, SortsShape
<1>4. SortedCall(train, f[id])
  BY <1>1 DEF RunsInv, SortedCall, SameRange
<1>5. \A i \in DOMAIN sorts : SameRange(sorts[i], f[i]) /\ SortedCall(train, f[i])
  BY <1>1, <1>4 DEF RunsInv, SameRange
<1>6. ASSUME NEW i \in D, NEW side \in Sides, Beyond(f[i].pc, side), Half(i, side) \in D
      PROVE  IsHalf(side, f[i], f[Half(i, side)])
  <2>1. i # id /\ f[i] = sorts[i]
    BY <1>1, <1>6 DEF Beyond
  <2>2. IsHalf(side, sorts[i], sorts[Half(i, side)])
    BY <1>6, <2>1 DEF RunsInv
  <2> QED
    BY <1>5, <1>6, <2>2, SameRangeHalf
<1> QED
  BY <1>2, <1>3, <1>5, <1>6 DEF RunsInv

(* A call forks a half of its range. *)
LEMMA ForkKeepsRuns ==
  ASSUME RunsInv, train' = train, NEW id \in DOMAIN sorts, NEW side \in Sides,
         NEW pc \in {"left", "right"}, NEW new, IsSortCall(new), new.pc = "call",
         Forks(id, Half(id, side), new, pc), Size(sorts[id]) >= 2,
         \A s \in Sides : Beyond(pc, s) => s = side \/ Beyond(sorts[id].pc, s),
         IsHalf(side, sorts[id], new)
  PROVE  RunsInv'
<1> DEFINE half == Half(id, side)
<1>1. ForkAdds(id, half, new, pc)
  BY Forked DEF RunsInv, SortPcs
<1>2. IsSortName(id) /\ IsSortName(half) /\ SortedCall(train, sorts[id])
  BY HalfIsName DEF RunsInv
<1>3. /\ SortsShape' /\ DOMAIN sorts' = DOMAIN sorts \cup {half} /\ sorts'[half] = new
      /\ half # id => sorts'[id].pc = pc /\ SameRange(sorts[id], sorts'[id])
      /\ \A i \in DOMAIN sorts : i # half /\ i # id => sorts'[i] = sorts[i]
  BY <1>1 DEF ForkAdds
<1> HIDE DEF half
<1>4. SortedCall(train, new)
  <2>1. PICK mid : mid = Mid(sorts[id].begin, sorts[id].end)
    OBVIOUS
  <2>2. sorts[id].begin \in Nat /\ sorts[id].end \in Nat /\ sorts[id].begin <= sorts[id].end
    BY <1>2 DEF SortedCall
  <2>3. mid \in Nat /\ sorts[id].begin <= mid /\ mid <= sorts[id].end
    BY <2>1, <2>2, MidInside
  <2>4. sorts[id].end <= Len(sorts[id].a) /\ sorts[id].a \in Seq(DOMAIN train)
        /\ sorts[id].dimension \in Dimensions /\ Len(sorts[id].a) \in Nat
    BY <1>2 DEF SortedCall
  <2>5. CASE side = "l"
    BY <2>1, <2>2, <2>3, <2>4, <2>5 DEF SortedCall, IsHalf
  <2>6. CASE side = "r"
    BY <2>1, <2>2, <2>3, <2>4, <2>6 DEF SortedCall, IsHalf
  <2> QED
    BY <2>5, <2>6 DEF Sides
<1>5. ASSUME NEW i \in DOMAIN sorts, i # half
      PROVE  SameRange(sorts[i], sorts'[i]) /\ SortedCall(train, sorts'[i])
  <2>1. CASE i = id
    <3>1. sorts'[id].pc = pc /\ SameRange(sorts[id], sorts'[id])
      BY <1>3, <1>5, <2>1
    <3>2. SortedCall(train, sorts'[id])
      BY <1>2, <3>1, SameRangeSorted DEF Size
    <3> QED
      BY <2>1, <3>1, <3>2
  <2>2. CASE i # id
    BY <1>3, <1>5, <2>2 DEF RunsInv, SameRange
  <2> QED
    BY <2>1, <2>2
<1>6. ASSUME NEW i \in DOMAIN sorts', NEW s \in Sides, Beyond(sorts'[i].pc, s),
             Half(i, s) \in DOMAIN sorts'
      PROVE  IsHalf(s, sorts'[i], sorts'[Half(i, s)])
  <2>1. i # half /\ i \in DOMAIN sorts /\ IsSortName(i)
    BY <1>3, <1>6 DEF Beyond, RunsInv
  <2>2. SameRange(sorts[i], sorts'[i])
    BY <1>5, <2>1
  <2>3. CASE Half(i, s) = half
    <3>1. i = id /\ s = side
      BY <1>2, <2>1, <2>3, HalvesApart DEF half
    <3>2. SameRange(new, new)
      BY DEF SameRange
    <3>3. IsHalf(side, sorts'[id], new)
      BY <2>2, <3>1, <3>2, SameRangeHalf
    <3> QED
      BY <1>3, <2>3, <3>1, <3>3
  <2>4. CASE Half(i, s) # half
    <3>1. Half(i, s) \in DOMAIN sorts /\ SameRange(sorts[Half(i, s)], sorts'[Half(i, s)])
      BY <1>3, <1>5, <1>6, <2>4
    <3>2. Beyond(sorts[i].pc, s)
      <4>1. CASE i = id
        <5>1. s # side
          BY <2>4, <4>1 DEF half
        <5>2. Beyond(pc, s)
          BY <1>3, <1>6, <2>1, <4>1
        <5> QED
          BY <4>1, <5>1, <5>2
      <4>2. CASE i # id
        BY <1>3, <1>6, <2>1, <4>2
      <4> QED
        BY <4>1, <4>2
    <3>3. IsHalf(s, sorts[i], sorts[Half(i, s)])
      BY <2>1, <3>1, <3>2 DEF RunsInv
    <3> QED
      BY <2>2, <3>1, <3>3, SameRangeHalf
  <2> QED
    BY <2>3, <2>4
<1>7. \A i \in DOMAIN sorts' : IsSortName(i) /\ SortedCall(train, sorts'[i])
  BY <1>2, <1>3, <1>4, <1>5 DEF RunsInv
<1> QED
  BY <1>3, <1>6, <1>7 DEF RunsInv

(* A call merges what its halves returned. *)
Merges(id) ==
  LET s == sorts[id]
      l == Half(id, "l")
      r == Half(id, "r")
  IN  /\ s.pc = "right" /\ SortReturned(l) /\ SortReturned(r)
      /\ sorts' = Drop([sorts EXCEPT ![id].pc = "returned",
                          ![id].out = MergeRuns(train, sorts[l].out, sorts[r].out, s.dimension)],
                       {l, r})

LEMMA MergeKeepsRuns ==
  ASSUME RunsInv, train' = train, NEW id \in DOMAIN sorts, Merges(id)
  PROVE  RunsInv'
<1>1. PICK s : s = sorts[id]
  OBVIOUS
<1>2. PICK l : l = sorts[Half(id, "l")]
  OBVIOUS
<1>3. PICK r : r = sorts[Half(id, "r")]
  OBVIOUS
<1>4. PICK mid : mid = Mid(s.begin, s.end)
  OBVIOUS
<1>5. /\ Half(id, "l") \in DOMAIN sorts /\ Half(id, "r") \in DOMAIN sorts
      /\ l.pc = "returned" /\ r.pc = "returned" /\ s.pc = "right"
  BY <1>1, <1>2, <1>3 DEF Merges, SortReturned
<1>6. SortedCall(train, s) /\ SortedCall(train, l) /\ SortedCall(train, r)
      /\ IsHalf("l", s, l) /\ IsHalf("r", s, r)
  BY <1>1, <1>2, <1>3, <1>5 DEF RunsInv, Sides, Beyond
<1>7. /\ s.begin \in Nat /\ s.end \in Nat /\ s.end - s.begin >= 2
      /\ l.out = SerialSort(train, s.a, s.begin, mid, s.dimension)
      /\ r.out = SerialSort(train, s.a, mid, s.end, s.dimension)
  BY <1>4, <1>5, <1>6 DEF SortedCall, IsHalf
<1>8. s.begin < s.end /\ s.end - s.begin # 1
  BY <1>7
<1>9. PICK out : out = MergeRuns(train, l.out, r.out, s.dimension)
  OBVIOUS
<1>10. out = SerialSort(train, s.a, s.begin, s.end, s.dimension)
  BY <1>4, <1>7, <1>8, <1>9, SerialSortSplits
<1>11. PICK f : Returns(f, id, out)
  BY DEF Returns
<1>12. PICK D : D = DOMAIN sorts \ {Half(id, "l"), Half(id, "r")}
  OBVIOUS
<1>13. sorts' = Drop(f, {Half(id, "l"), Half(id, "r")})
  BY <1>1, <1>2, <1>3, <1>9, <1>11 DEF Merges, Returns
<1>14. DOMAIN f = DOMAIN sorts
  BY <1>11, GoneBack DEF RunsInv
<1>15. sorts' = [i \in D |-> f[i]]
  BY <1>12, <1>13, <1>14 DEF Drop
<1> QED
  BY <1>1, <1>8, <1>10, <1>11, <1>12, <1>15, ReturnKeepsRuns

(* One element, or a call that does not fork: Size(sorts[id]) says how much there is. *)
LEMMA SerialKeepsRuns ==
  ASSUME RunsInv, train' = train, NEW id \in DOMAIN sorts, NEW out, Returns(sorts', id, out),
         \/ Size(sorts[id]) = 1 /\ out = <<sorts[id].a[sorts[id].begin + 1]>>
         \/ /\ Size(sorts[id]) >= 2
            /\ out = SerialSort(train, sorts[id].a, sorts[id].begin, sorts[id].end,
                                sorts[id].dimension)
  PROVE  RunsInv'
<1>1. PICK s : s = sorts[id]
  OBVIOUS
<1>2. s.begin \in Nat /\ s.end \in Nat
  BY <1>1 DEF RunsInv, SortedCall
<1>3. s.begin < s.end
  BY <1>1, <1>2 DEF Size
<1>4. out = SerialSort(train, s.a, s.begin, s.end, s.dimension)
  <2>1. CASE Size(s) = 1 /\ out = <<s.a[s.begin + 1]>>
    BY <1>2, <1>3, <2>1, SerialSortSplits DEF Size
  <2> QED
    BY <1>1, <2>1
<1>5. PICK D : D = DOMAIN sorts
  OBVIOUS
<1>6. sorts' = [i \in D |-> sorts'[i]]
  BY <1>5, GoneBack DEF RunsInv, IsFunction
<1> QED
  BY <1>1, <1>3, <1>4, <1>5, <1>6, ReturnKeepsRuns

LEMMA SortKeepsRuns ==
  ASSUME RunsInv, SortStep
  PROVE  RunsInv'
<1>1. PICK id \in DOMAIN sorts :
        \/ SortBase(id) \/ SortAssert(id) \/ SortSerial(id)
        \/ SortLeft(id) \/ SortRight(id) \/ SortMerge(id)
  BY DEF SortStep
<1>2. /\ train' = train /\ SortedCall(train, sorts[id])
      /\ sorts[id].begin \in Nat /\ sorts[id].end \in Nat
  BY <1>1 DEF SortBase, SortAssert, SortSerial, SortLeft, SortRight, SortFork, SortMerge,
              RunsInv, SortedCall
<1>3. CASE SortBase(id)
  <2>1. PICK out : out = <<sorts[id].a[sorts[id].begin + 1]>>
    OBVIOUS
  <2>2. Returns(sorts', id, out) /\ Size(sorts[id]) = 1
    BY <1>3, <2>1 DEF SortBase, Returns
  <2> QED
    BY <1>2, <2>1, <2>2, SerialKeepsRuns
<1>4. CASE SortAssert(id)
  <2>1. sorts' = sorts
    BY <1>4 DEF SortAssert
  <2> QED
    BY <1>2, <2>1 DEF RunsInv, SortsShape
<1>5. CASE SortSerial(id)
  <2>1. PICK out : out = SerialSort(train, sorts[id].a, sorts[id].begin, sorts[id].end,
                                    sorts[id].dimension)
    OBVIOUS
  <2>2. Returns(sorts', id, out) /\ Size(sorts[id]) >= 2
    BY <1>5, <2>1 DEF SortSerial, Returns
  <2> QED
    BY <1>2, <2>1, <2>2, SerialKeepsRuns
<1>6. ASSUME NEW side \in Sides, NEW begin, NEW end, NEW pc \in {"left", "right"},
             SortFork(id, side, begin, end, pc), Size(sorts[id]) >= 2,
             \A s \in Sides : Beyond(pc, s) => s = side \/ Beyond(sorts[id].pc, s),
             side = "l" => begin = sorts[id].begin /\ end = Mid(sorts[id].begin, sorts[id].end),
             side = "r" => begin = Mid(sorts[id].begin, sorts[id].end) /\ end = sorts[id].end
      PROVE  RunsInv'
  <2>1. CASE sorts' = sorts
    BY <1>2, <2>1 DEF RunsInv, SortsShape
  <2>2. CASE sorts' # sorts
    <3>1. PICK granted \in BOOLEAN :
            sorts' = Put([sorts EXCEPT ![id].pc = pc], Half(id, side),
                         SortCall(sorts[id].a, begin, end, sorts[id].depth + 1,
                                  sorts[id].dimension, granted))
      BY <1>6, <2>2 DEF SortFork
    <3>2. PICK new : new = SortCall(sorts[id].a, begin, end, sorts[id].depth + 1,
                                    sorts[id].dimension, granted)
      OBVIOUS
    <3>3. IsSortCall(new) /\ new.pc = "call"
      BY <3>2, NewCall
    <3>4. IsHalf(side, sorts[id], new)
      BY <1>6, <3>2 DEF SortCall, IsHalf
    <3>5. Forks(id, Half(id, side), new, pc)
      BY <3>1, <3>2 DEF Forks
    <3> QED
      BY <1>2, <1>6, <3>3, <3>4, <3>5, ForkKeepsRuns
  <2> QED
    BY <2>1, <2>2
<1>7. CASE SortLeft(id)
  <2>1. /\ Size(sorts[id]) >= 2
        /\ SortFork(id, "l", sorts[id].begin, sorts[id].begin + Size(sorts[id]) \div 2, "left")
    BY <1>7 DEF SortLeft
  <2>2. sorts[id].begin + Size(sorts[id]) \div 2 = Mid(sorts[id].begin, sorts[id].end)
    BY DEF Size, Mid
  <2> QED
    BY <1>6, <2>1, <2>2 DEF Sides, Beyond
<1>8. CASE SortRight(id)
  <2>1. /\ sorts[id].pc = "left"
        /\ SortFork(id, "r", sorts[id].begin + Size(sorts[id]) \div 2, sorts[id].end, "right")
    BY <1>8 DEF SortRight
  <2>2. sorts[id].begin + Size(sorts[id]) \div 2 = Mid(sorts[id].begin, sorts[id].end)
    BY DEF Size, Mid
  <2>3. Size(sorts[id]) >= 2
    BY <1>2, <2>1 DEF SortedCall, Size
  <2> QED
    BY <1>6, <2>1, <2>2, <2>3 DEF Sides, Beyond
<1>9. CASE SortMerge(id)
  <2>1. Merges(id)
    BY <1>9 DEF SortMerge, Merges
  <2> QED
    BY <1>2, <2>1, MergeKeepsRuns
<1> QED
  BY <1>1, <1>3, <1>4, <1>5, <1>7, <1>8, <1>9

LEMMA RunsSorted == RunsInv => SortedRuns
<1> SUFFICES ASSUME RunsInv, NEW id \in DOMAIN sorts, SortReturned(id)
             PROVE  IsStableSortOf(train, sorts[id].out,
                                   SubSeq(sorts[id].a, sorts[id].begin + 1, sorts[id].end),
                                   sorts[id].dimension)
  BY DEF SortedRuns
<1>1. PICK s : s = sorts[id]
  OBVIOUS
<1>2. IsVector(train, s.a, s.dimension)
  BY <1>1, RunsVector
<1>3. /\ s.begin \in Nat /\ s.end \in Nat /\ s.begin < s.end /\ s.end <= Len(s.a)
      /\ s.out = SerialSort(train, s.a, s.begin, s.end, s.dimension)
      /\ s.a \in Seq(DOMAIN train)
  BY <1>1 DEF RunsInv, SortedCall, SortReturned
<1>4. s.begin \in 0 .. Len(s.a) /\ s.end \in 0 .. Len(s.a)
  BY <1>3
<1> QED
  BY <1>1, <1>2, <1>3, <1>4, SerialIsStable

(* The sort that make_tree, or main of merge.cpp, asks for. *)
LEMMA RunsAsked ==
  ASSUME NEW end, end \in 0 .. Len(train), train \in Datasets,
         sorts = Put(<<>>, Root, SortCall(Rows(train), 0, end, 0, 0, FALSE))
  PROVE  RunsInv
<1> DEFINE call == SortCall(Rows(train), 0, end, 0, 0, FALSE)
<1>1. sorts = [y \in {Root} |-> call]
  BY DEF Put
<1>2. IsSortCall(call) /\ call.pc = "call"
  BY NewCall
<1>3. train \in Seq([1 .. num_dimensions -> Nat])
  BY DatasetsAssumption
<1>4. Rows(train) \in Seq(DOMAIN train) /\ Len(Rows(train)) = Len(train)
  BY <1>3 DEF Rows
<1>5. 0 \in Dimensions
  BY DimensionsAssumption DEF Dimensions
<1>6. SortedCall(train, call)
  <2>1. /\ call.a = Rows(train) /\ call.begin = 0 /\ call.end = end /\ call.dimension = 0
    BY DEF SortCall
  <2>2. end \in Nat /\ end <= Len(train)
    BY <1>3
  <2> HIDE DEF call
  <2> QED
    BY <1>2, <1>4, <1>5, <2>1, <2>2 DEF SortedCall
<1> HIDE DEF call
<1>7. IsSortName(Root)
  BY DEF IsSortName, Root
<1>8. SortsShape
  BY <1>1, <1>2, FS_Singleton DEF SortsShape
<1> QED
  BY <1>1, <1>2, <1>6, <1>7, <1>8 DEF RunsInv, Beyond

LEMMA RunsInvInit == SortInit => RunsInv
<1> SUFFICES ASSUME SortInit PROVE RunsInv
  OBVIOUS
<1>1. train \in Datasets /\ train \in Seq([1 .. num_dimensions -> Nat])
  BY DatasetsAssumption DEF SortInit
<1>2. RootSample(train) = Len(train) \div 4
  BY DEF RootSample
<1>3. RootSample(train) \in 0 .. Len(train)
  BY <1>1, <1>2
<1> QED
  BY <1>1, <1>3, RunsAsked DEF SortInit

LEMMA RunsInvStep == RunsInv /\ [SortNext]_sortVars => RunsInv'
<1> SUFFICES ASSUME RunsInv, [SortNext]_sortVars PROVE RunsInv'
  OBVIOUS
<1>1. CASE SortStep
  BY <1>1, SortKeepsRuns
<1>2. CASE UNCHANGED <<train, sorts>>
  BY <1>2 DEF RunsInv, SortsShape
<1> QED
  BY <1>1, <1>2 DEF SortNext, SortTaken, SortOver, sortVars

(* Whatever threads the budget grants and however they interleave, every call of merge_sort *)
(* that has returned holds its range of the shared vector in stable order.                   *)
THEOREM SortedRunsAlways == SortSpec => []SortedRuns
  BY RunsInvInit, RunsInvStep, RunsSorted, PTL DEF SortSpec
=============================================================================
