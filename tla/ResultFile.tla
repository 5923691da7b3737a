----------------------------- MODULE ResultFile -----------------------------
(***************************************************************************)
(* KNN::results_to_file, one step per store through the mapping, and       *)
(* KNN::_check_output, which reads the file back and compares it with the  *)
(* results in memory.                                                      *)
(*                                                                         *)
(* results[q] are the neighbours of query q in the order the priority      *)
(* queue gave them, the farthest first; each is a point.  A store behind   *)
(* the end of the file but within its last page is lost.                   *)
(***************************************************************************)
EXTENDS KnnOps, Formats, BatchSizes

CONSTANT ResultIds      \* what urandom may return: 0 .. 69999999

ASSUME ResultIdsAssumption == ResultIds \subseteq Nat /\ ResultIds # {}

VARIABLES
  ids,          \* train_id, query_id and res_id of the KNN object
  results,      \* KNN::results
  file,         \* the words of the result file
  writer        \* where results_to_file is: pc, the index idx and its loop counters

resultVars == <<ids, results, file, writer>>

num_floats == num_queries * k * num_dimensions

file_size == 56 + 4 * num_floats

(* The words of the file when its last byte has been written. *)
FileWords == 0 .. file_size \div 4 - 1

WriterClosed == [pc |-> "none", idx |-> 0, i |-> 0, j |-> 0, d |-> 0]

(* The words of f from idx on replaced by those of a store. *)
StoreWords(f, idx, words) ==
  [w \in DOMAIN f |-> IF w \in idx .. idx + Len(words) - 1 THEN words[w - idx + 1] ELSE f[w]]

Header(res_id) ==
  <<RESULT, ids.train_id, ids.query_id, res_id, num_queries, num_dimensions, k>>

ResultInit(train_id, query_id) ==
  /\ ids = [train_id |-> train_id, query_id |-> query_id, res_id |-> 0]
  /\ results = [q \in 1 .. num_queries |-> <<>>]
  /\ file = <<>>
  /\ writer = WriterClosed

(* open, lseek, write of one byte and mmap: a file of zeros. *)
OpenResult ==
  /\ writer.pc = "none"
  /\ file' = [w \in FileWords |-> 0]
  /\ writer' = [writer EXCEPT !.pc = "header"]
  /\ UNCHANGED <<ids, results>>

(* The process ends inside results_to_file: open fails, or lseek or write, and there is no    *)
(* file or an empty one; or mmap or madvise, and it is all zeros.  The writer is where it was. *)
OpenFails ==
  /\ writer.pc = "none"
  /\ file' \in {<<>>, [w \in FileWords |-> 0]}
  /\ UNCHANGED <<ids, results, writer>>

(* There is no /dev/urandom when res_id is to be drawn: three numbers are stored. *)
urandomFails == writer.pc = "header" /\ writer.idx = 3 /\ UNCHANGED resultVars

(* munmap fails; everything is stored. *)
UnmapFails == writer.pc = "points" /\ writer.i = num_queries /\ UNCHANGED resultVars

(* One number of the header; res_id is drawn when its turn has come. *)
StoreHeader ==
  /\ writer.pc = "header" /\ writer.idx < 7
  /\ \E r \in ResultIds :
       /\ ids' = IF writer.idx = 3 THEN [ids EXCEPT !.res_id = r] ELSE ids
       /\ LET long == Header(ids'.res_id)[writer.idx + 1]
          IN  file' = StoreWords(file, 2 * writer.idx, <<long % WordRange, long \div WordRange>>)
  /\ writer' = [writer EXCEPT !.idx = @ + 1]
  /\ UNCHANGED results

(* Slip: the index is not doubled. *)
HeaderDoneUnscaled ==
  /\ writer.pc = "header" /\ writer.idx = 7
  /\ writer' = [writer EXCEPT !.pc = "points", !.j = k - 1]
  /\ UNCHANGED <<ids, results, file>>

(* idx *= 2, and the loops are entered. *)
HeaderDone ==
  /\ writer.pc = "header" /\ writer.idx = 7
  /\ writer' = [writer EXCEPT !.pc = "points", !.idx = 2 * @, !.j = k - 1]
  /\ UNCHANGED <<ids, results, file>>

(* The loop counters after a coordinate was stored: dimensions within neighbours, which *)
(* count down, within queries.                                                          *)
NextStore(s) ==
  IF s.d + 1 < num_dimensions THEN [s EXCEPT !.idx = @ + 1, !.d = @ + 1]
  ELSE IF s.j > 0 THEN [s EXCEPT !.idx = @ + 1, !.d = 0, !.j = @ - 1]
  ELSE [s EXCEPT !.idx = @ + 1, !.d = 0, !.j = k - 1, !.i = @ + 1]

(* Slip: the neighbours are stored as the queue gave them, the farthest first. *)
StoreCoordinateFarthest ==
  /\ writer.pc = "points" /\ writer.i < num_queries
  /\ file' = StoreWords(file, writer.idx, <<results[writer.i + 1][k - writer.j][writer.d + 1]>>)
  /\ writer' = NextStore(writer)
  /\ UNCHANGED <<ids, results>>

(* fl_ptr[idx] = results[i][j].point[k] *)
StoreCoordinate ==
  /\ writer.pc = "points" /\ writer.i < num_queries
  /\ file' = StoreWords(file, writer.idx, <<results[writer.i + 1][writer.j + 1][writer.d + 1]>>)
  /\ writer' = NextStore(writer)
  /\ UNCHANGED <<ids, results>>

(* msync, whose failure is only printed, munmap and close. *)
CloseResult ==
  /\ writer.pc = "points" /\ writer.i = num_queries
  /\ writer' = [writer EXCEPT !.pc = "closed"]
  /\ UNCHANGED <<ids, results, file>>

results_to_file ==
  OpenResult \/ StoreHeader \/ HeaderDone \/ StoreCoordinate \/ CloseResult

results_to_file_exits == OpenFails \/ urandomFails \/ UnmapFails

(* Whether the assertions of _check_output hold of file f. *)
_check_output(f) ==
  /\ 4 * Cardinality(DOMAIN f) = file_size
  /\ \A i \in 0 .. 6 : Long(f, i) = Header(ids.res_id)[i + 1]
  /\ LET points == PointsFrom(f, 7, num_queries * k, num_dimensions)
     IN  \A i \in 0 .. num_queries - 1, j \in 0 .. k - 1 :
           points[i * k + j + 1] = results[i + 1][k - j]

-----------------------------------------------------------------------------
(* The word for coordinate d of the n-th nearest neighbour of query q. *)
Index(q, n, d) == 14 + ((q - 1) * k + (n - 1)) * num_dimensions + d

(* The first word that has not been stored yet. *)
Position ==
  CASE writer.pc = "none" -> 0
    [] writer.pc = "header" -> 2 * writer.idx
    [] OTHER -> writer.idx

(* The file grows in order and without a gap, whatever the sizes: all words before the      *)
(* position are as they are to be, the header and then the neighbours of each query from    *)
(* the nearest to the farthest; those behind are zero; no store falls behind the end, and   *)
(* the last one fills the file, whose size was computed apart.                              *)
WrittenAsLaidOut ==
  LET stored(w, value) == file[w] = IF w < Position THEN value ELSE 0
  IN  writer.pc # "none" =>
        /\ Position <= Cardinality(DOMAIN file)
        /\ \A w \in 0 .. 13 : stored(w, HeaderWord(Header(ids.res_id), w))
        /\ \A q \in 1 .. num_queries, n \in 1 .. k, d \in Dimensions :
             stored(Index(q, n, d), results[q][k - n + 1][d + 1])
        /\ writer.pc = "closed" => Position = Cardinality(DOMAIN file)

(* A file that was closed passes _check_output. *)
ClosedPassesCheck == writer.pc = "closed" => _check_output(file)
=============================================================================
