---------------------------- MODULE ParallelGen ----------------------------
(***************************************************************************)
(* in/parallel_gen.cpp: one thread per core runs the script pgen.sh, which *)
(* generates a training file of n points for every n from start up to and  *)
(* including end, and a query file with each.  The threads get the         *)
(* addresses of the elements of one array of Info, and each frees the one  *)
(* it got.                                                                 *)
(*                                                                         *)
(* Element 0 is where the array begins: its delete frees all of it, while  *)
(* other threads may still read theirs.  The delete of another element is  *)
(* undefined: the allocator ends the process or does not notice.           *)
(*                                                                         *)
(* Files are named by n, or by the number of queries, which starts at the  *)
(* same number in every script: scripts that run at one time truncate and  *)
(* write the same files.  A file is told by which of its blocks it has;    *)
(* every writer writes all of them, at its own offset.                     *)
(*                                                                         *)
(* A generator may fail.  pgen.sh does not look at how it ended, goes on   *)
(* with the next file and returns 0.                                       *)
(***************************************************************************)
EXTENDS Integers, Sequences

CONSTANTS
  gen_cores,            \* hardware_concurrency
  Blocks,               \* a generated file is written in blocks 1 .. Blocks
  GenFailures           \* how many calls of pthread_create or system, or generators, may fail

ASSUME GenAssumption == gen_cores \in Nat /\ Blocks \in Nat \ {0} /\ GenFailures \in Nat

VARIABLES
  gen_main,             \* where main is: "create", "join", or how the process ended
  next,                 \* its loop counter
  gen,                  \* where each thread is
  script,               \* the files its script still has to write
  block,                \* the blocks of the first of them that are written, -1 before open
  freed,                \* whether the array has been freed
  files,                \* the generated files by name, each the set of its blocks
  gen_failed,           \* how many calls and generators have failed
  given_up              \* the files a generator failed to write to the end

genVars == <<gen_main, next, gen, script, block, freed, files, gen_failed, given_up>>

Start == 20000

Threads == 0 .. gen_cores - 1

(* The loop of main that fills the array: neighbours share a bound. *)
Interval(t) == [start |-> Start + t, end |-> Start + t + 1]

(* The files pgen.sh writes for its arguments, two for each number. *)
pgen(r) ==
  [n \in 1 .. 2 * (r.end - r.start + 1) |->
     IF n % 2 = 1 THEN <<"data", r.start + n \div 2>> ELSE <<"query", n \div 2>>]

Unread == [start |-> 0, end |-> -1]

GenInit ==
  /\ gen_main = "create" /\ next = 0
  /\ gen = [t \in Threads |-> "none"]
  /\ script = [t \in Threads |-> <<>>]
  /\ block = [t \in Threads |-> -1]
  /\ freed = FALSE
  /\ files = <<>>
  /\ gen_failed = 0 /\ given_up = {}

MayFail == gen_failed < GenFailures

GenRunning == gen_main \in {"create", "join"}

GenCreate ==
  /\ gen_main = "create" /\ next < gen_cores
  /\ \/ /\ gen' = [gen EXCEPT ![next] = "read"]
        /\ next' = next + 1
        /\ UNCHANGED <<gen_main, gen_failed>>
     \/ /\ MayFail
        /\ gen_main' = "abort" /\ gen_failed' = gen_failed + 1
        /\ UNCHANGED <<gen, next>>
  /\ UNCHANGED <<script, block, freed, files, given_up>>

GenCreated ==
  /\ gen_main = "create" /\ next = gen_cores
  /\ gen_main' = "join" /\ next' = 0
  /\ UNCHANGED <<gen, script, block, freed, files, gen_failed, given_up>>

(* Slip: the threads are not joined. *)
GenJoinUnwaited ==
  /\ gen_main = "join" /\ next < gen_cores
  /\ next' = next + 1
  /\ UNCHANGED <<gen_main, gen, script, block, freed, files, gen_failed, given_up>>

GenJoin ==
  /\ gen_main = "join" /\ next < gen_cores /\ gen[next] = "exited"
  /\ next' = next + 1
  /\ UNCHANGED <<gen_main, gen, script, block, freed, files, gen_failed, given_up>>

GenReturn ==
  /\ gen_main = "join" /\ next = gen_cores
  /\ gen_main' = "returned"
  /\ UNCHANGED <<next, gen, script, block, freed, files, gen_failed, given_up>>

(* start and end of the Info, for the command, and system(), asserted.  Once the array is *)
(* freed start and end may be anything: here what they were, or no range at all.          *)
StartScript(t) ==
  /\ GenRunning /\ gen[t] = "read"
  /\ \/ /\ \E r \in IF freed THEN {Interval(t), Unread} ELSE {Interval(t)} :
             script' = [script EXCEPT ![t] = pgen(r)]
        /\ gen' = [gen EXCEPT ![t] = "script"]
        /\ UNCHANGED <<gen_main, gen_failed>>
     \/ /\ MayFail
        /\ gen_main' = "abort" /\ gen_failed' = gen_failed + 1
        /\ UNCHANGED <<gen, script>>
  /\ UNCHANGED <<next, block, freed, files, given_up>>

(* The script of thread t is a process of its own: an abort of main does not stop it. *)
Writing(t) == gen[t] = "script" /\ script[t] # <<>>

(* open(name, "wb") *)
OpenFile(t) ==
  /\ Writing(t) /\ block[t] = -1
  /\ block' = [block EXCEPT ![t] = 0]
  /\ files' = [f \in DOMAIN files \cup {script[t][1]} |-> IF f = script[t][1] THEN {} ELSE files[f]]
  /\ UNCHANGED <<gen_main, next, gen, script, freed, gen_failed, given_up>>

WriteBlock(t) ==
  /\ Writing(t) /\ block[t] \in 0 .. Blocks - 1
  /\ block' = [block EXCEPT ![t] = @ + 1]
  /\ files' = [files EXCEPT ![script[t][1]] = @ \cup {block[t] + 1}]
  /\ UNCHANGED <<gen_main, next, gen, script, freed, gen_failed, given_up>>

(* Slip: the last block is never flushed. *)
CloseFileEarly(t) ==
  /\ Writing(t) /\ block[t] = Blocks - 1
  /\ block' = [block EXCEPT ![t] = -1]
  /\ script' = [script EXCEPT ![t] = Tail(@)]
  /\ UNCHANGED <<gen_main, next, gen, freed, files, gen_failed, given_up>>

CloseFile(t) ==
  /\ Writing(t) /\ block[t] = Blocks
  /\ block' = [block EXCEPT ![t] = -1]
  /\ script' = [script EXCEPT ![t] = Tail(@)]
  /\ UNCHANGED <<gen_main, next, gen, freed, files, gen_failed, given_up>>

(* The generator fails, before it has opened its file or somewhere in it, and the script    *)
(* runs the next one: for want of space or of the directory, or because it is not there.    *)
GeneratorFails(t) ==
  /\ Writing(t) /\ block[t] < Blocks
  /\ MayFail /\ gen_failed' = gen_failed + 1
  /\ given_up' = given_up \cup {script[t][1]}
  /\ block' = [block EXCEPT ![t] = -1]
  /\ script' = [script EXCEPT ![t] = Tail(@)]
  /\ UNCHANGED <<gen_main, next, gen, freed, files>>

(* The script has ended: delete info, and the thread returns. *)
DeleteInfo(t) ==
  /\ GenRunning /\ gen[t] = "script" /\ script[t] = <<>>
  /\ \/ gen' = [gen EXCEPT ![t] = "exited"] /\ UNCHANGED gen_main
     \/ t # 0 /\ gen_main' = "abort" /\ UNCHANGED gen
  /\ freed' = (freed \/ t = 0)
  /\ UNCHANGED <<next, script, block, files, gen_failed, given_up>>

ScriptStep(t) == OpenFile(t) \/ WriteBlock(t) \/ CloseFile(t) \/ GeneratorFails(t)

GenStep ==
  \/ GenCreate \/ GenCreated \/ GenJoin \/ GenReturn
  \/ \E t \in Threads : StartScript(t) \/ ScriptStep(t) \/ DeleteInfo(t)

GenSpec == GenInit /\ [][GenStep]_genVars

GenEnded == ~GenRunning /\ \A t \in Threads : ~Writing(t)

-----------------------------------------------------------------------------
(* Scripts that truncate and write one file at the same time leave a complete one behind, as  *)
(* long as every generator of that file goes to its end: a block is missing only while some   *)
(* script that has opened the file has yet to write it.                                       *)
SharedFilesEndComplete ==
  \A f \in DOMAIN files \ given_up : \A b \in (1 .. Blocks) \ files[f] :
    \E t \in Threads : Writing(t) /\ script[t][1] = f /\ block[t] \in 0 .. b - 1

(* A return of main does not mean that all files are there.  The file of a number may be      *)
(* missing or incomplete, for one of two causes: a generator of that very file has failed,    *)
(* which the script and the assertion on system() let pass; or thread 0 has freed the array   *)
(* before each thread with that number in its interval, none of which is thread 0, read it.   *)
MissingHasCause ==
  gen_main = "returned" =>
    \A n \in Start .. Start + gen_cores :
      \/ <<"data", n>> \in DOMAIN files /\ files[<<"data", n>>] = 1 .. Blocks
      \/ <<"data", n>> \in given_up
      \/ freed /\ \A t \in Threads : n \in {Interval(t).start, Interval(t).end} => t # 0
=============================================================================
