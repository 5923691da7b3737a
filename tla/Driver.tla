------------------------------- MODULE Driver -------------------------------
(***************************************************************************)
(* main of driver.cpp with KNN::results_to_file: runs of k-nn, several at  *)
(* a time, as the scripts start them, on the files of one directory.  A    *)
(* run may be killed at any step.                                          *)
(*                                                                         *)
(* An input is told by what decides the course of main: what each file     *)
(* starts with, whether the dimensions agree, and how make_tree and        *)
(* do_queries end (TreeBuild, DoQueries); args counts the arguments.  A    *)
(* result file is told by its size and by which run stored its header and  *)
(* its points; all stores go through a shared mapping of the file.  What   *)
(* is stored there, word by word, is the module ResultFile.                *)
(***************************************************************************)
EXTENDS Integers

CONSTANTS
  Runs,           \* the processes
  Names,          \* names of result files
  Inputs,         \* [args, train, query, same_dimensions, search]
  NoRun           \* an unwritten part of a file, or one stored in part

ASSUME RunsAssumption == NoRun \notin Runs
ASSUME InputsAssumption ==
  Inputs \subseteq [args : 0 .. 9, train : {"missing", "TRAINING", "QUERY"},
                    query : {"missing", "TRAINING", "QUERY"},
                    same_dimensions : BOOLEAN, search : {"exit", "abort", "results"}]

VARIABLES
  input, name,    \* argv of each run
  pc,             \* where main is in each run
  files           \* the result files, by name

vars == <<input, name, pc, files>>

NoFile == [present |-> FALSE, sized |-> FALSE, header |-> NoRun, points |-> NoRun]

Empty == [NoFile EXCEPT !.present = TRUE]

Complete(f) == f.sized /\ f.header # NoRun /\ f.points = f.header

(* "failed" is an end inside results_to_file, after the file was truncated. *)
Ended == {"refused", "unreadable", "mismatch", "exit", "abort", "segfault", "sigbus",
          "killed", "failed", "done"}

Init ==
  /\ input \in [Runs -> Inputs]
  /\ name \in [Runs -> Names]
  /\ pc = [r \in Runs |-> "arguments"]
  /\ files = [n \in Names |-> NoFile]

At(r, here) == pc[r] = here

Goes(r, next) == pc' = [pc EXCEPT ![r] = next]

Moves(r, next) == Goes(r, next) /\ UNCHANGED <<input, name, files>>

(* A wrong number of arguments is announced, and main goes on: without the first atoi reads *)
(* a null pointer, without another the constructor of std::string throws.  Arguments behind *)
(* the fourth are not looked at.                                                            *)
ReadArguments(r) ==
  /\ At(r, "arguments")
  /\ Moves(r, IF input[r].args = 0 THEN "segfault"
              ELSE IF input[r].args < 4 THEN "abort" ELSE "start")

(* Slip: the file is looked for and overwritten. *)
CheckOverwrites(r) == At(r, "start") /\ Moves(r, "map train")

(* file_exists(result) *)
CheckExists(r) ==
  At(r, "start") /\ Moves(r, IF files[name[r]].present THEN "refused" ELSE "map train")

(* get_file of the training file, then of the query file. *)
get_file(r, kind, here, next) ==
  At(r, here) /\ Moves(r, IF kind = "missing" THEN "unreadable" ELSE next)

MapTrain(r) == get_file(r, input[r].train, "map train", "map query")
MapQuery(r) == get_file(r, input[r].query, "map query", "parse train")

(* Both files are parsed before their type is looked at.  A query file read as training *)
(* file has enough bytes.                                                               *)
train_info_ctor(r) == At(r, "parse train") /\ Moves(r, "parse query")

(* A training file read as query file is eight bytes short: what lies behind it is read. *)
query_info_ctor(r) ==
  /\ At(r, "parse query")
  /\ \/ Moves(r, "check")
     \/ input[r].query = "TRAINING" /\ Moves(r, "segfault")

(* Slip: the type of the training file is not compared. *)
check_info_query(r) ==
  /\ At(r, "check")
  /\ Moves(r, IF input[r].query = "QUERY" /\ input[r].same_dimensions
                THEN "search" ELSE "mismatch")

(* Slip: main goes on as if it had returned, without an end of the run. *)
check_info_returns(r) ==
  /\ At(r, "check")
  /\ Moves(r, IF /\ input[r].train = "TRAINING" /\ input[r].query = "QUERY"
                 /\ input[r].same_dimensions
                THEN "search" ELSE "returned")

check_info(r) ==
  /\ At(r, "check")
  /\ Moves(r, IF /\ input[r].train = "TRAINING" /\ input[r].query = "QUERY"
                 /\ input[r].same_dimensions
                THEN "search" ELSE "mismatch")

(* Slip: the result file is opened before there are results. *)
SearchOpened(r) ==
  /\ At(r, "search")
  /\ files' = [files EXCEPT ![name[r]] = Empty]
  /\ Goes(r, IF input[r].search = "results" THEN "open" ELSE input[r].search)
  /\ UNCHANGED <<input, name>>

(* make_tree and do_queries up to the results. *)
Search(r) ==
  /\ At(r, "search")
  /\ Moves(r, IF input[r].search = "results" THEN "open" ELSE input[r].search)

(* results_to_file: open with O_CREAT and O_TRUNC. *)
Open(r) ==
  /\ At(r, "open")
  /\ files' = [files EXCEPT ![name[r]] = Empty]
  /\ Goes(r, "size")
  /\ UNCHANGED <<input, name>>

(* The assertion behind open: no such directory, or no right to write there.  Nothing was *)
(* created or truncated.                                                                  *)
OpenFails(r) == At(r, "open") /\ Moves(r, "abort")

(* lseek to the last byte, write it, mmap: the file has its full size, of zeros. *)
SetSize(r) ==
  /\ At(r, "size")
  /\ files' = [files EXCEPT ![name[r]].sized = TRUE]
  /\ Goes(r, "header")
  /\ UNCHANGED <<input, name>>

(* lseek fails, or write for want of space, and the file keeps its length; or mmap or the *)
(* assertion on madvise, when it has its full size.                                       *)
SetSizeFails(r) ==
  /\ At(r, "size")
  /\ \/ UNCHANGED files
     \/ files' = [files EXCEPT ![name[r]].sized = TRUE]
  /\ Goes(r, "failed")
  /\ UNCHANGED <<input, name>>

(* Slip: a run that finds its file truncated tries for ever. *)
StoreRetried(r, part, here, next) ==
  /\ At(r, here)
  /\ files[name[r]].sized
  /\ files' = [files EXCEPT ![name[r]][part] = r]
  /\ Goes(r, next)
  /\ UNCHANGED <<input, name>>

(* A store through the mapping; the file has no such page once another run truncated it. *)
Store(r, part, here, next) ==
  /\ At(r, here)
  /\ IF files[name[r]].sized
       THEN files' = [files EXCEPT ![name[r]][part] = r] /\ Goes(r, next)
       ELSE UNCHANGED files /\ Goes(r, "sigbus")
  /\ UNCHANGED <<input, name>>

(* Slip: the points go first and the header is forgotten. *)
StoreNoHeader(r) == At(r, "header") /\ Moves(r, "points")

StoreHeader(r) == Store(r, "header", "header", "points")
StorePoints(r) == Store(r, "points", "points", "sync")

(* urandom() finds no /dev/urandom when the type and two ids of the header are stored. *)
urandomFails(r) ==
  /\ At(r, "header") /\ files[name[r]].sized
  /\ files' = [files EXCEPT ![name[r]].header = NoRun]
  /\ Goes(r, "failed")
  /\ UNCHANGED <<input, name>>

(* msync, whose failure is only printed, munmap, close, and main returns 0. *)
Finish(r) == At(r, "sync") /\ Moves(r, "done")

(* munmap fails; everything has been stored. *)
FinishFails(r) == At(r, "sync") /\ Moves(r, "failed")

(* A signal from outside; what was stored stays. *)
Kill(r) == pc[r] \notin Ended /\ Moves(r, "killed")

main(r) ==
  \/ ReadArguments(r) \/ CheckExists(r) \/ MapTrain(r) \/ MapQuery(r)
  \/ train_info_ctor(r) \/ query_info_ctor(r) \/ check_info(r) \/ Search(r)
  \/ Open(r) \/ SetSize(r) \/ StoreHeader(r) \/ StorePoints(r) \/ Finish(r)
  \/ OpenFails(r) \/ SetSizeFails(r) \/ urandomFails(r) \/ FinishFails(r)

Over == (\A r \in Runs : pc[r] \in Ended) /\ UNCHANGED vars

Next == (\E r \in Runs : main(r) \/ Kill(r)) \/ Over

Fairness == \A r \in Runs : WF_vars(main(r))

Spec == Init /\ [][Next]_vars /\ Fairness

-----------------------------------------------------------------------------
Writing == {"size", "header", "points", "sync"}

Alone(r) == \A s \in Runs \ {r} : name[s] # name[r]

(* Type invariant. *)
TypeOK ==
  /\ input \in [Runs -> Inputs] /\ name \in [Runs -> Names]
  /\ \A r \in Runs : pc[r] \in Ended \cup Writing \cup
       {"arguments", "start", "map train", "map query", "parse train", "parse query", "check",
        "search", "open"}
  /\ files \in [Names -> [present : BOOLEAN, sized : BOOLEAN,
                          header : Runs \cup {NoRun}, points : Runs \cup {NoRun}]]

(* A run that ends well and shares its file with no other leaves its own complete result. *)
AloneIsComplete ==
  \A r \in Runs : pc[r] = "done" /\ Alone(r) =>
    Complete(files[name[r]]) /\ files[name[r]].header = r

(* A file that is not complete is being written, or is what a run left that was killed, that  *)
(* a system call of results_to_file failed after O_TRUNC, or that shared the file: a run that *)
(* returned 0, was refused, could not read its inputs or came to no results leaves none.      *)
IncompleteHasCause ==
  \A n \in Names : files[n].present /\ ~Complete(files[n]) =>
    \E r \in Runs : name[r] = n /\ (pc[r] \in Writing \cup {"killed", "failed"} \/ ~Alone(r))

(* A file that is not complete and that no run is about to write. *)
Abandoned(n) ==
  /\ files[n].present /\ ~Complete(files[n])
  /\ \A r \in Runs : name[r] = n => pc[r] \in Ended \cup {"arguments", "start"}

(* What a run leaves incomplete no later run repairs: file_exists takes the remains of a run  *)
(* that was killed, or that ran out of space, for a result, and every run of that name is     *)
(* refused until somebody removes them.                                                       *)
LeftoverStays == [][\A n \in Names : Abandoned(n) => Abandoned(n)']_vars

(* A run that lacks an argument, whose files do not fit, or whose search does not end with    *)
(* results, changes no file by any of its steps.  (The failures of results_to_file are not    *)
(* among these: most come after O_TRUNC.)                                                     *)
Unfit(r) == \/ input[r].args < 4
            \/ input[r].search # "results" \/ ~input[r].same_dimensions
            \/ input[r].train # "TRAINING" \/ input[r].query # "QUERY"

UnfitTouchesNothing ==
  [][\A r \in Runs : Unfit(r) /\ pc'[r] # pc[r] => files' = files]_vars

(* Every run ends, whatever the others do to its file and whichever of its calls fail. *)
RunsEnd == <>(\A r \in Runs : pc[r] \in Ended)

-----------------------------------------------------------------------------
(* Statements of the repository that the code does not meet. *)

(* driver.cpp:34-37 refuses to run when the result file exists: a complete result is not *)
(* overwritten.                                                                          *)
NeverOverwritten ==
  [][\A n \in Names : Complete(files[n]) => files'[n] = files[n]]_vars
=============================================================================
