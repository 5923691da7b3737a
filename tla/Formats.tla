------------------------------ MODULE Formats ------------------------------
(***************************************************************************)
(* The three file formats: what the generators training_data.py and        *)
(* query_file.py write, what train_info_ctor and query_info_ctor of the    *)
(* driver read, and what the stand-alone program dump reads back.          *)
(*                                                                         *)
(* A file is a function from the index of a 32-bit word.  It starts with   *)
(* 64-bit numbers of two words each, the lower one first; the rest are     *)
(* floats of one word.  The names "TRAINING", "QUERY" and "RESULT" of a    *)
(* file type are taken for the number their eight bytes make.  A point is  *)
(* a sequence of coordinates.                                              *)
(***************************************************************************)
EXTENDS Naturals, Sequences

CONSTANTS
  WordRange,                  \* 2^32
  TRAINING, QUERY, RESULT     \* the file types, as 64-bit numbers

ASSUME WordRangeAssumption == WordRange \in Nat \ {0}
ASSUME FileTypesAssumption ==
  /\ {TRAINING, QUERY, RESULT} \subseteq 0 .. WordRange * WordRange - 1
  /\ TRAINING # QUERY /\ TRAINING # RESULT /\ QUERY # RESULT

(* Element i of the file, read as an array of 64-bit numbers. *)
Long(f, i) == f[2 * i] + WordRange * f[2 * i + 1]

(* Word w of a file that begins with the 64-bit numbers of header. *)
HeaderWord(header, w) ==
  LET long == header[(w \div 2) + 1]
  IN  IF w % 2 = 0 THEN long % WordRange ELSE long \div WordRange

(* n points stored row by row behind idx 64-bit numbers (idx *= 2; fl_ptr[idx] ...). *)
PointsFrom(f, idx, n, dimensions) ==
  [i \in 1 .. n |-> [d \in 1 .. dimensions |-> f[2 * idx + (i - 1) * dimensions + d - 1]]]

(* A header followed by points, as the generators write them. *)
FileOf(header, points, dimensions) ==
  LET words == 2 * Len(header)
  IN  [w \in 0 .. words + Len(points) * dimensions - 1 |->
         IF w < words THEN HeaderWord(header, w)
         ELSE points[((w - words) \div dimensions) + 1][((w - words) % dimensions) + 1]]

(* training_data.py <rows> <cols> ... *)
training_data(id, points, cols) == FileOf(<<TRAINING, id, Len(points), cols>>, points, cols)

(* query_file.py <queryCount> <cols> ... <k> *)
query_file(id, points, cols, neighbors) ==
  FileOf(<<QUERY, id, Len(points), cols, neighbors>>, points, cols)

(* train_info_ctor *)
train_info(f) ==
  [file_type |-> Long(f, 0), id |-> Long(f, 1), num_pts |-> Long(f, 2),
   num_dimensions |-> Long(f, 3), points |-> PointsFrom(f, 4, Long(f, 2), Long(f, 3))]

(* query_info_ctor *)
query_info(f) ==
  [file_type |-> Long(f, 0), id |-> Long(f, 1), num_queries |-> Long(f, 2),
   num_dimensions |-> Long(f, 3), k |-> Long(f, 4),
   points |-> PointsFrom(f, 5, Long(f, 2), Long(f, 3))]

check_info(t, q) ==
  t.file_type = TRAINING /\ q.file_type = QUERY /\ t.num_dimensions = q.num_dimensions

(***************************************************************************)
(* dump: its Reader walks the bytes behind the file type, eight for every  *)
(* uint64_t and four for every float.  Neighbours are listed by query.     *)
(***************************************************************************)
Reader(f, byte, values, dimensions) ==
  [i \in 1 .. values |-> [d \in 1 .. dimensions |->
     f[(byte + 4 * ((i - 1) * dimensions + d - 1)) \div 4]]]

dump(f) ==
  CASE Long(f, 0) = TRAINING ->
         [id |-> Long(f, 1), n_points |-> Long(f, 2), n_dims |-> Long(f, 3),
          points |-> Reader(f, 32, Long(f, 2), Long(f, 3))]
    [] Long(f, 0) = QUERY ->
         [id |-> Long(f, 1), n_queries |-> Long(f, 2), n_dims |-> Long(f, 3),
          n_neighbors |-> Long(f, 4), points |-> Reader(f, 40, Long(f, 2), Long(f, 3))]
    [] Long(f, 0) = RESULT ->
         LET n == Long(f, 6)
             all == Reader(f, 56, Long(f, 4) * n, Long(f, 5))
         IN  [training_id |-> Long(f, 1), query_id |-> Long(f, 2), result_id |-> Long(f, 3),
              n_queries |-> Long(f, 4), n_dims |-> Long(f, 5), n_neighbors |-> n,
              neighbors |-> [q \in 1 .. Long(f, 4) |-> SubSeq(all, (q - 1) * n + 1, q * n)]]
=============================================================================
