---------------------------- MODULE ThreadBudget ----------------------------
(***************************************************************************)
(* The process-wide budget of temporary threads: KNN::make_thread and      *)
(* KNN::decrement_tmp_threads over the static counter tmp_thread_count,    *)
(* each one critical section of KNN::thread_lock, hence one step.  The     *)
(* counter is an unsigned int and wraps.                                   *)
(***************************************************************************)
EXTENDS Integers

CONSTANT
  cores,      \* first argument of k-nn
  UIntRange   \* number of values of an unsigned int, 2^32 in the source

ASSUME CoresAssumption == cores \in Nat
ASSUME UIntAssumption == UIntRange \in Nat /\ UIntRange > 64 + 2 * cores

VARIABLES tmp_thread_count, max_threads

budgetVars == <<tmp_thread_count, max_threads>>

(* set_depth_init_mutex: how deep calls may fork, how many threads may exist. *)
static_depth ==
  CASE cores < 2                 -> 1
    [] cores >= 2 /\ cores < 3   -> 2
    [] cores >= 3 /\ cores < 5   -> 3
    [] cores >= 5 /\ cores < 9   -> 4
    [] OTHER                     -> 5

thread_limit ==
  CASE cores < 2                 -> 2 * cores
    [] cores >= 2 /\ cores < 3   -> 2 + 2 * cores
    [] cores >= 3 /\ cores < 5   -> 6 + 2 * cores
    [] cores >= 5 /\ cores < 9   -> 14 + 2 * cores
    [] OTHER                     -> 30 + 2 * cores

BudgetInit == tmp_thread_count = 0 /\ max_threads = 0

MaxOf(a, b) == IF a >= b THEN a ELSE b

(* Slip: one thread more than the limit. *)
make_thread_late(granted) ==
  /\ granted = (tmp_thread_count <= thread_limit)
  /\ tmp_thread_count' = IF granted THEN tmp_thread_count + 1 ELSE tmp_thread_count
  /\ max_threads' = IF granted THEN MaxOf(max_threads, tmp_thread_count + 1)
                               ELSE max_threads

make_thread(granted) ==
  /\ granted = (tmp_thread_count < thread_limit)
  /\ tmp_thread_count' = IF granted THEN tmp_thread_count + 1 ELSE tmp_thread_count
  /\ max_threads' = IF granted THEN MaxOf(max_threads, tmp_thread_count + 1)
                               ELSE max_threads

(* Slip: two slots are released. *)
decrement_twice ==
  /\ tmp_thread_count' = (tmp_thread_count + UIntRange - 2) % UIntRange
  /\ UNCHANGED max_threads

decrement_tmp_threads ==
  /\ tmp_thread_count' = (tmp_thread_count + UIntRange - 1) % UIntRange
  /\ UNCHANGED max_threads

BudgetTypeOK == tmp_thread_count \in 0 .. UIntRange - 1 /\ max_threads \in 0 .. UIntRange - 1
=============================================================================
