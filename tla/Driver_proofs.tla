--------------------------- MODULE Driver_proofs ---------------------------
(***************************************************************************)
(* Runs of k-nn on one directory: for any number of runs, any inputs and   *)
(* any names, with runs killed at any step and any system call of          *)
(* results_to_file failing.  A run that shares its file with no other has  *)
(* stored what its place in results_to_file says (OwnStores); any other    *)
(* file may be in any state, and has two runs as the cause.                *)
(***************************************************************************)
EXTENDS Driver, TLAPS

BeforeSearch == {"start", "map train", "map query", "parse train", "parse query", "check"}

(* What main has found to hold of the inputs when it has come so far. *)
InputsFit ==
  \A r \in Runs :
    /\ pc[r] \in BeforeSearch \cup {"search", "open", "done"} \cup Writing => input[r].args >= 4
    /\ pc[r] \in {"search", "open", "done"} \cup Writing =>
         /\ input[r].train = "TRAINING" /\ input[r].query = "QUERY"
         /\ input[r].same_dimensions
    /\ pc[r] \in {"open", "done"} \cup Writing => input[r].search = "results"

OwnStores ==
  \A r \in Runs : Alone(r) =>
    /\ pc[r] \in {"header", "points", "sync", "done"} => files[name[r]].sized
    /\ pc[r] \in {"points", "sync", "done"} => files[name[r]].header = r
    /\ pc[r] \in {"sync", "done"} => files[name[r]].points = r

(* pc is a function on the runs. *)
IsMap == pc = [r \in Runs |-> pc[r]]

IInv == TypeOK /\ IsMap /\ InputsFit /\ OwnStores /\ IncompleteHasCause

Pcs == Ended \cup Writing \cup BeforeSearch \cup {"arguments", "search", "open"}

Parts == [present : BOOLEAN, sized : BOOLEAN, header : Runs \cup {NoRun},
          points : Runs \cup {NoRun}]

LEMMA Types ==
  TypeOK <=> /\ input \in [Runs -> Inputs] /\ name \in [Runs -> Names]
             /\ \A r \in Runs : pc[r] \in Pcs
             /\ files \in [Names -> Parts]
  BY DEF TypeOK, Pcs, Parts, BeforeSearch

-----------------------------------------------------------------------------
(* A step of one run, as far as the files go. *)

Advances(r, next) ==
  /\ pc' = [pc EXCEPT ![r] = next] /\ next \in Pcs
  /\ input' = input /\ name' = name

LEMMA Advanced ==
  ASSUME IsMap, NEW r \in Runs, NEW next, Advances(r, next)
  PROVE  /\ IsMap' /\ pc'[r] = next
         /\ \A s \in Runs : s # r => pc'[s] = pc[s]
         /\ \A s \in Runs : Alone(s)' <=> Alone(s)
  BY DEF IsMap, Advances, Alone

(* The run that moves leaves all files alone. *)
LEMMA MoveKeeps ==
  ASSUME IInv, NEW r \in Runs, NEW next, Advances(r, next), files' = files,
         pc[r] \notin Ended,
         pc[r] \in Writing => next \in {"killed", "failed", "done"} \/ (next = "sigbus" /\ ~Alone(r)),
         next = "done" => pc[r] = "sync",
         next \in Ended \cup BeforeSearch \cup {"search", "open"},
         InputsFit'
  PROVE  IInv'
<1>1. /\ pc'[r] = next
      /\ \A s \in Runs : s # r => pc'[s] = pc[s]
      /\ \A s \in Runs : Alone(s)' <=> Alone(s)
      /\ input' = input /\ name' = name /\ IsMap'
  BY Advanced DEF Advances, IInv
<1>2. TypeOK'
  <2>1. \A s \in Runs : pc'[s] \in Pcs
    BY <1>1, Types DEF IInv, Advances
  <2>2. /\ input' \in [Runs -> Inputs] /\ name' \in [Runs -> Names]
        /\ files' \in [Names -> Parts]
    BY <1>1, Types DEF IInv
  <2> QED
    BY <2>1, <2>2 DEF TypeOK, Pcs, Parts, BeforeSearch
<1>3. OwnStores'
  <2> SUFFICES ASSUME NEW s \in Runs, Alone(s)'
               PROVE  /\ pc'[s] \in {"header", "points", "sync", "done"} => files'[name'[s]].sized
                      /\ pc'[s] \in {"points", "sync", "done"} => files'[name'[s]].header = s
                      /\ pc'[s] \in {"sync", "done"} => files'[name'[s]].points = s
    BY DEF OwnStores
  <2>1. CASE s # r
    BY <1>1, <2>1 DEF IInv, OwnStores
  <2>2. CASE s = r /\ next = "done"
    BY <1>1, <2>2 DEF IInv, OwnStores
  <2>3. CASE s = r /\ next # "done"
    BY <1>1, <2>3 DEF Ended, BeforeSearch
  <2> QED
    BY <2>1, <2>2, <2>3
<1>4. IncompleteHasCause'
  <2> SUFFICES ASSUME NEW n \in Names, files[n].present /\ ~Complete(files[n])
               PROVE  \E s \in Runs : name'[s] = n /\ (pc'[s] \in Writing \cup {"killed", "failed"} \/ ~Alone(s)')
    BY <1>1 DEF IncompleteHasCause, Complete
  <2>1. PICK s \in Runs : name[s] = n /\ (pc[s] \in Writing \cup {"killed", "failed"} \/ ~Alone(s))
    BY DEF IInv, IncompleteHasCause
  <2>2. CASE s # r \/ ~Alone(s)
    BY <1>1, <2>1, <2>2
  <2>3. CASE s = r /\ Alone(s)
    <3>1. pc[r] \in Writing
      BY <2>1, <2>3 DEF Ended
    <3>2. next # "done"
      BY <2>1, <2>3, RunsAssumption DEF IInv, OwnStores, Complete
    <3> QED
      BY <1>1, <2>1, <2>3, <3>1, <3>2
  <2> QED
    BY <2>2, <2>3
<1> QED
  BY <1>1, <1>2, <1>3, <1>4 DEF IInv

(* What a run has stored in its file f when it goes on to next. *)
Stores(r, next, f) ==
  /\ f \in Parts
  /\ next # "size" => f.sized
  /\ Alone(r) /\ next \in {"points", "sync"} => f.header = r
  /\ next = "sync" => f.points = r

(* The run that moves changes its own file, and goes on writing or fails. *)
LEMMA WriteKeeps ==
  ASSUME IInv, NEW r \in Runs, NEW next \in Writing \cup {"failed"}, Advances(r, next),
         pc[r] \in Writing \cup {"open"},
         NEW f, Stores(r, next, f), files' = [files EXCEPT ![name[r]] = f]
  PROVE  IInv'
<1>1. /\ pc'[r] = next
      /\ \A s \in Runs : s # r => pc'[s] = pc[s]
      /\ \A s \in Runs : Alone(s)' <=> Alone(s)
      /\ input' = input /\ name' = name /\ IsMap'
  BY Advanced DEF Advances, IInv
<1>2. /\ name \in [Runs -> Names] /\ files \in [Names -> Parts]
      /\ input \in [Runs -> Inputs] /\ \A s \in Runs : pc[s] \in Pcs
  BY Types DEF IInv
<1>3. /\ files'[name[r]] = f /\ \A n \in Names : n # name[r] => files'[n] = files[n]
      /\ files' \in [Names -> Parts]
  BY <1>2 DEF Stores
<1>4. TypeOK'
  <2>1. \A s \in Runs : pc'[s] \in Pcs
    BY <1>1, <1>2 DEF Advances
  <2> QED
    BY <1>1, <1>2, <1>3, <2>1 DEF TypeOK, Pcs, Parts, BeforeSearch
<1>5. InputsFit'
  BY <1>1 DEF IInv, InputsFit, Writing, BeforeSearch
<1>6. OwnStores'
  <2> SUFFICES ASSUME NEW s \in Runs, Alone(s)'
               PROVE  /\ pc'[s] \in {"header", "points", "sync", "done"} => files'[name'[s]].sized
                      /\ pc'[s] \in {"points", "sync", "done"} => files'[name'[s]].header = s
                      /\ pc'[s] \in {"sync", "done"} => files'[name'[s]].points = s
    BY DEF OwnStores
  <2>1. CASE s # r
    <3>1. name[s] # name[r] /\ name[s] \in Names
      BY <1>1, <1>2, <2>1 DEF Alone
    <3> QED
      BY <1>1, <1>3, <2>1, <3>1 DEF IInv, OwnStores
  <2>2. CASE s = r
    BY <1>1, <1>3, <2>2 DEF Writing, Stores
  <2> QED
    BY <2>1, <2>2
<1>7. IncompleteHasCause'
  <2> SUFFICES ASSUME NEW n \in Names, files'[n].present /\ ~Complete(files'[n])
               PROVE  \E s \in Runs : name'[s] = n /\ (pc'[s] \in Writing \cup {"killed", "failed"} \/ ~Alone(s)')
    BY DEF IncompleteHasCause, Complete
  <2>1. CASE n = name[r]
    BY <1>1, <2>1
  <2>2. CASE n # name[r]
    <3>1. PICK s \in Runs : name[s] = n /\ (pc[s] \in Writing \cup {"killed", "failed"} \/ ~Alone(s))
      BY <1>3, <2>2 DEF IInv, IncompleteHasCause
    <3> QED
      BY <1>1, <2>2, <3>1
  <2> QED
    BY <2>1, <2>2
<1> QED
  BY <1>1, <1>4, <1>5, <1>6, <1>7 DEF IInv

-----------------------------------------------------------------------------
(* The actions. *)

(* A step that leaves the files alone and ends a run that was not writing, or brings it on *)
(* to a place before the opening of its file.                                              *)
LEMMA MovesKeeps ==
  ASSUME IInv, NEW r \in Runs, NEW next, Moves(r, next),
         pc[r] \in BeforeSearch \cup {"arguments", "search"},
         next \in (Ended \ {"done"}) \cup BeforeSearch \cup {"search", "open"},
         next \in BeforeSearch \cup {"search", "open"} => input[r].args >= 4,
         next \in {"search", "open"} => /\ input[r].train = "TRAINING"
                                        /\ input[r].query = "QUERY"
                                        /\ input[r].same_dimensions,
         next = "open" => input[r].search = "results"
  PROVE  IInv'
<1>1. Advances(r, next) /\ files' = files
  BY DEF Moves, Goes, Advances, Pcs
<1>2. /\ pc'[r] = next /\ input' = input
      /\ \A s \in Runs : s # r => pc'[s] = pc[s]
  BY <1>1, Advanced DEF Advances, IInv
<1>3. InputsFit'
  <2> SUFFICES ASSUME NEW s \in Runs
               PROVE
    /\ pc'[s] \in BeforeSearch \cup {"search", "open", "done"} \cup Writing => input'[s].args >= 4
    /\ pc'[s] \in {"search", "open", "done"} \cup Writing =>
         /\ input'[s].train = "TRAINING" /\ input'[s].query = "QUERY"
         /\ input'[s].same_dimensions
    /\ pc'[s] \in {"open", "done"} \cup Writing => input'[s].search = "results"
    BY DEF InputsFit
  <2>1. CASE s # r
    BY <1>2, <2>1 DEF IInv, InputsFit
  <2>2. CASE s = r
    BY <1>2, <2>2 DEF Ended, BeforeSearch, Writing
  <2> QED
    BY <2>1, <2>2
<1>4. pc[r] \notin Ended \cup Writing /\ next # "done"
  BY DEF Ended, BeforeSearch, Writing
<1> QED
  BY <1>1, <1>3, <1>4, MoveKeeps

LEMMA ReadArgumentsKeeps ==
  ASSUME IInv, NEW r \in Runs, ReadArguments(r)
  PROVE  IInv'
<1>1. input[r].args \in 0 .. 9
  BY Types, InputsAssumption DEF IInv
<1>2. CASE input[r].args < 4
  <2>1. PICK next \in {"segfault", "abort"} : Moves(r, next)
    BY <1>2 DEF ReadArguments
  <2>2. pc[r] = "arguments" /\ next \notin BeforeSearch \cup {"search", "open", "done"}
    BY <2>1 DEF ReadArguments, At, BeforeSearch
  <2> QED
    BY <2>1, <2>2, MovesKeeps DEF Ended
<1>3. CASE input[r].args >= 4
  <2>1. Moves(r, "start") /\ pc[r] = "arguments"
    BY <1>1, <1>3 DEF ReadArguments, At
  <2> QED
    BY <1>3, <2>1, MovesKeeps DEF BeforeSearch
<1> QED
  BY <1>1, <1>2, <1>3

(* The steps up to check_info. *)
LEMMA ReadingKeeps ==
  ASSUME IInv, NEW r \in Runs,
         CheckExists(r) \/ MapTrain(r) \/ MapQuery(r) \/ train_info_ctor(r) \/ query_info_ctor(r)
  PROVE  IInv'
<1>1. PICK next : next \in BeforeSearch \cup {"refused", "unreadable", "segfault"} /\ Moves(r, next)
  BY DEF CheckExists, MapTrain, MapQuery, get_file, train_info_ctor, query_info_ctor,
         BeforeSearch
<1>2. pc[r] \in BeforeSearch
  BY DEF CheckExists, MapTrain, MapQuery, get_file, train_info_ctor, query_info_ctor,
         BeforeSearch, At
<1>3. input[r].args >= 4
  BY <1>2 DEF IInv, InputsFit
<1>4. next \notin {"search", "open", "done"} /\ next \in Ended \cup BeforeSearch
  BY <1>1 DEF Ended, BeforeSearch
<1> QED
  BY <1>1, <1>2, <1>3, <1>4, MovesKeeps

LEMMA check_infoKeeps ==
  ASSUME IInv, NEW r \in Runs, check_info(r)
  PROVE  IInv'
<1>1. pc[r] = "check" /\ pc[r] \in BeforeSearch
  BY DEF check_info, At, BeforeSearch
<1>2. input[r].args >= 4
  BY <1>1 DEF IInv, InputsFit
<1>3. CASE /\ input[r].train = "TRAINING" /\ input[r].query = "QUERY"
           /\ input[r].same_dimensions
  <2>1. Moves(r, "search")
    BY <1>3 DEF check_info
  <2> QED
    BY <1>1, <1>2, <1>3, <2>1, MovesKeeps
<1>4. CASE ~(/\ input[r].train = "TRAINING" /\ input[r].query = "QUERY"
             /\ input[r].same_dimensions)
  <2>1. Moves(r, "mismatch")
    BY <1>4 DEF check_info
  <2>2. "mismatch" \notin BeforeSearch
    BY DEF BeforeSearch
  <2> QED
    BY <1>1, <2>1, <2>2, MovesKeeps DEF Ended
<1> QED
  BY <1>3, <1>4

LEMMA SearchKeeps ==
  ASSUME IInv, NEW r \in Runs, Search(r)
  PROVE  IInv'
<1>1. pc[r] = "search"
  BY DEF Search, At
<1>2. /\ input[r].args >= 4 /\ input[r].train = "TRAINING" /\ input[r].query = "QUERY"
      /\ input[r].same_dimensions
  BY <1>1 DEF IInv, InputsFit
<1>3. CASE input[r].search = "results"
  <2>1. Moves(r, "open")
    BY <1>3 DEF Search
  <2> QED
    BY <1>1, <1>2, <1>3, <2>1, MovesKeeps
<1>4. CASE input[r].search # "results"
  <2>1. input[r].search \in {"exit", "abort"}
    BY <1>4, Types, InputsAssumption DEF IInv
  <2>2. Moves(r, input[r].search)
    BY <1>4 DEF Search
  <2>3. input[r].search \notin BeforeSearch \cup {"search", "open", "done"}
    BY <2>1 DEF BeforeSearch
  <2> QED
    BY <1>1, <2>1, <2>2, <2>3, MovesKeeps DEF Ended
<1> QED
  BY <1>3, <1>4

LEMMA OpenKeeps ==
  ASSUME IInv, NEW r \in Runs, Open(r)
  PROVE  IInv'
<1>1. Stores(r, "size", Empty)
  BY DEF Stores, Empty, NoFile, Parts
<1>2. Advances(r, "size") /\ pc[r] = "open" /\ files' = [files EXCEPT ![name[r]] = Empty]
  BY DEF Open, At, Goes, Advances, Pcs, Writing
<1> QED
  BY <1>1, <1>2, WriteKeeps DEF Writing

LEMMA OpenFailsKeeps ==
  ASSUME IInv, NEW r \in Runs, OpenFails(r)
  PROVE  IInv'
<1>1. Advances(r, "abort") /\ files' = files /\ pc[r] = "open"
  BY DEF OpenFails, At, Moves, Goes, Advances, Pcs, Ended
<1>2. /\ pc'[r] = "abort" /\ input' = input
      /\ \A s \in Runs : s # r => pc'[s] = pc[s]
  BY <1>1, Advanced DEF Advances, IInv
<1>3. InputsFit'
  BY <1>2 DEF IInv, InputsFit, BeforeSearch, Writing
<1> QED
  BY <1>1, <1>3, MoveKeeps DEF Ended, Writing

(* The file of a run after a store is again one. *)
LEMMA OwnFile ==
  ASSUME IInv, NEW r \in Runs
  PROVE  files[name[r]] \in Parts /\ files \in [Names -> Parts] /\ name[r] \in Names
  BY Types DEF IInv

LEMMA SetSizeKeeps ==
  ASSUME IInv, NEW r \in Runs, SetSize(r)
  PROVE  IInv'
<1>0. PICK f : f = [files[name[r]] EXCEPT !.sized = TRUE]
  OBVIOUS
<1>1. Stores(r, "header", f)
  BY <1>0, OwnFile DEF Stores, Parts
<1>2. Advances(r, "header") /\ pc[r] = "size" /\ files' = [files EXCEPT ![name[r]] = f]
  BY <1>0, OwnFile DEF SetSize, At, Goes, Advances, Pcs, Writing
<1> QED
  BY <1>1, <1>2, WriteKeeps DEF Writing

(* A run that fails and leaves its file as it is. *)
LEMMA FailsKeeps ==
  ASSUME IInv, NEW r \in Runs, pc[r] \in Writing, files' = files,
         Goes(r, "failed"), UNCHANGED <<input, name>>
  PROVE  IInv'
<1>1. Advances(r, "failed")
  BY DEF Goes, Advances, Pcs, Ended
<1>2. /\ pc'[r] = "failed" /\ input' = input
      /\ \A s \in Runs : s # r => pc'[s] = pc[s]
  BY <1>1, Advanced DEF Advances, IInv
<1>3. InputsFit'
  BY <1>2 DEF IInv, InputsFit, BeforeSearch, Writing
<1>4. pc[r] \notin Ended /\ "failed" \in Ended
  BY DEF Ended, Writing
<1> QED
  BY <1>1, <1>3, <1>4, MoveKeeps

LEMMA SetSizeFailsKeeps ==
  ASSUME IInv, NEW r \in Runs, SetSizeFails(r)
  PROVE  IInv'
<1>1. pc[r] = "size" /\ Goes(r, "failed") /\ UNCHANGED <<input, name>>
  BY DEF SetSizeFails, At
<1>2. CASE files' = files
  BY <1>1, <1>2, FailsKeeps DEF Writing
<1>3. CASE files' = [files EXCEPT ![name[r]].sized = TRUE]
  <2>0. PICK f : f = [files[name[r]] EXCEPT !.sized = TRUE]
    OBVIOUS
  <2>1. Stores(r, "failed", f)
    BY <2>0, OwnFile DEF Stores, Parts
  <2>2. Advances(r, "failed") /\ files' = [files EXCEPT ![name[r]] = f]
    BY <1>1, <1>3, <2>0, OwnFile DEF Goes, Advances, Pcs, Ended
  <2> QED
    BY <1>1, <2>1, <2>2, WriteKeeps DEF Writing
<1> QED
  BY <1>2, <1>3 DEF SetSizeFails

LEMMA urandomFailsKeeps ==
  ASSUME IInv, NEW r \in Runs, urandomFails(r)
  PROVE  IInv'
<1>0. PICK f : f = [files[name[r]] EXCEPT !.header = NoRun]
  OBVIOUS
<1>1. pc[r] = "header" /\ files[name[r]].sized
  BY DEF urandomFails, At
<1>2. Stores(r, "failed", f)
  BY <1>0, <1>1, OwnFile DEF Stores, Parts
<1>3. Advances(r, "failed") /\ files' = [files EXCEPT ![name[r]] = f]
  BY <1>0, OwnFile DEF urandomFails, Goes, Advances, Pcs, Ended
<1> QED
  BY <1>1, <1>2, <1>3, WriteKeeps DEF Writing

(* A store of a run whose file was truncated under it ends that run. *)
LEMMA LostStoreKeeps ==
  ASSUME IInv, NEW r \in Runs, pc[r] \in {"header", "points"}, ~files[name[r]].sized,
         files' = files, Goes(r, "sigbus"), UNCHANGED <<input, name>>
  PROVE  IInv'
<1>1. ~Alone(r)
  BY DEF IInv, OwnStores
<1>2. Advances(r, "sigbus")
  BY DEF Goes, Advances, Pcs, Ended
<1>3. /\ pc'[r] = "sigbus" /\ input' = input
      /\ \A s \in Runs : s # r => pc'[s] = pc[s]
  BY <1>2, Advanced DEF Advances, IInv
<1>4. InputsFit'
  BY <1>3 DEF IInv, InputsFit, BeforeSearch, Writing
<1>5. pc[r] \notin Ended /\ "sigbus" \in Ended
  BY DEF Ended
<1> QED
  BY <1>1, <1>2, <1>4, <1>5, MoveKeeps

LEMMA StoreHeaderKeeps ==
  ASSUME IInv, NEW r \in Runs, StoreHeader(r)
  PROVE  IInv'
<1>1. pc[r] = "header" /\ UNCHANGED <<input, name>>
  BY DEF StoreHeader, Store, At
<1>2. CASE files[name[r]].sized
  <2>0. PICK f : f = [files[name[r]] EXCEPT !.header = r]
    OBVIOUS
  <2>1. Stores(r, "points", f)
    BY <1>2, <2>0, OwnFile DEF Stores, Parts
  <2>2. Advances(r, "points") /\ files' = [files EXCEPT ![name[r]] = f]
    BY <1>1, <1>2, <2>0, OwnFile DEF StoreHeader, Store, Goes, Advances, Pcs, Writing
  <2> QED
    BY <1>1, <2>1, <2>2, WriteKeeps DEF Writing
<1>3. CASE ~files[name[r]].sized
  BY <1>1, <1>3, LostStoreKeeps DEF StoreHeader, Store
<1> QED
  BY <1>2, <1>3

LEMMA StorePointsKeeps ==
  ASSUME IInv, NEW r \in Runs, StorePoints(r)
  PROVE  IInv'
<1>1. pc[r] = "points" /\ UNCHANGED <<input, name>>
  BY DEF StorePoints, Store, At
<1>2. CASE files[name[r]].sized
  <2>0. PICK f : f = [files[name[r]] EXCEPT !.points = r]
    OBVIOUS
  <2>1. Stores(r, "sync", f)
    BY <1>1, <1>2, <2>0, OwnFile DEF Stores, Parts, IInv, OwnStores
  <2>2. Advances(r, "sync") /\ files' = [files EXCEPT ![name[r]] = f]
    BY <1>1, <1>2, <2>0, OwnFile DEF StorePoints, Store, Goes, Advances, Pcs, Writing
  <2> QED
    BY <1>1, <2>1, <2>2, WriteKeeps DEF Writing
<1>3. CASE ~files[name[r]].sized
  BY <1>1, <1>3, LostStoreKeeps DEF StorePoints, Store
<1> QED
  BY <1>2, <1>3

LEMMA FinishKeeps ==
  ASSUME IInv, NEW r \in Runs, Finish(r)
  PROVE  IInv'
<1>1. Advances(r, "done") /\ files' = files /\ pc[r] = "sync"
  BY DEF Finish, At, Moves, Goes, Advances, Pcs, Ended
<1>2. /\ pc'[r] = "done" /\ input' = input
      /\ \A s \in Runs : s # r => pc'[s] = pc[s]
  BY <1>1, Advanced DEF Advances, IInv
<1>3. InputsFit'
  BY <1>1, <1>2 DEF IInv, InputsFit, Writing
<1> QED
  BY <1>1, <1>3, MoveKeeps DEF Ended

LEMMA FinishFailsKeeps ==
  ASSUME IInv, NEW r \in Runs, FinishFails(r)
  PROVE  IInv'
<1>1. /\ pc[r] \in Writing /\ files' = files /\ Goes(r, "failed")
      /\ UNCHANGED <<input, name>>
  BY DEF FinishFails, At, Moves, Writing
<1> QED
  BY <1>1, FailsKeeps

LEMMA KillKeeps ==
  ASSUME IInv, NEW r \in Runs, Kill(r)
  PROVE  IInv'
<1>1. Advances(r, "killed") /\ files' = files /\ pc[r] \notin Ended
  BY DEF Kill, Moves, Goes, Advances, Pcs, Ended
<1>2. /\ pc'[r] = "killed" /\ input' = input
      /\ \A s \in Runs : s # r => pc'[s] = pc[s]
  BY <1>1, Advanced DEF Advances, IInv
<1>3. InputsFit'
  BY <1>2 DEF IInv, InputsFit, BeforeSearch, Writing
<1> QED
  BY <1>1, <1>3, MoveKeeps DEF Ended

-----------------------------------------------------------------------------
LEMMA IInvInit == Init => IInv
<1> SUFFICES ASSUME Init PROVE IInv
  OBVIOUS
<1>1. \A r \in Runs : pc[r] = "arguments"
  BY DEF Init
<1>2. TypeOK /\ IsMap
  BY DEF Init, TypeOK, IsMap, NoFile
<1>3. InputsFit /\ OwnStores
  BY <1>1 DEF InputsFit, OwnStores, BeforeSearch, Writing
<1>4. IncompleteHasCause
  BY DEF Init, IncompleteHasCause, NoFile
<1> QED
  BY <1>2, <1>3, <1>4 DEF IInv

LEMMA IInvStep == IInv /\ [Next]_vars => IInv'
<1> SUFFICES ASSUME IInv, [Next]_vars PROVE IInv'
  OBVIOUS
<1>1. CASE UNCHANGED vars
  <2>1. input' = input /\ name' = name /\ pc' = pc /\ files' = files
    BY <1>1 DEF vars
  <2>2. TypeOK' /\ IsMap'
    BY <2>1 DEF IInv, TypeOK, IsMap
  <2>3. InputsFit' /\ OwnStores'
    BY <2>1 DEF IInv, InputsFit, OwnStores, Alone
  <2>4. IncompleteHasCause'
    BY <2>1 DEF IInv, IncompleteHasCause, Alone, Complete
  <2> QED
    BY <2>2, <2>3, <2>4 DEF IInv
<1>2. ASSUME NEW r \in Runs, main(r) PROVE IInv'
  BY <1>2, ReadArgumentsKeeps, ReadingKeeps, check_infoKeeps, SearchKeeps, OpenKeeps,
     SetSizeKeeps, StoreHeaderKeeps, StorePointsKeeps, FinishKeeps, OpenFailsKeeps,
     SetSizeFailsKeeps, urandomFailsKeeps, FinishFailsKeeps DEF main
<1>3. ASSUME NEW r \in Runs, Kill(r) PROVE IInv'
  BY <1>3, KillKeeps
<1> QED
  BY <1>1, <1>2, <1>3 DEF Next, Over

LEMMA IInvAlways == Spec => []IInv
  BY IInvInit, IInvStep, PTL DEF Spec

(* main keeps its state well formed: driver.cpp, results_to_file. *)
THEOREM TypeOKAlways == Spec => []TypeOK
<1>1. IInv => TypeOK
  BY DEF IInv
<1> QED
  BY <1>1, IInvAlways, PTL

(* A run that returned 0 and shares its result file with no other run, whatever the other *)
(* runs do and wherever they are killed, left its own complete result (results_to_file).  *)
THEOREM AloneIsCompleteAlways == Spec => []AloneIsComplete
<1>1. IInv => AloneIsComplete
  BY RunsAssumption, OwnFile DEF IInv, OwnStores, AloneIsComplete, Complete
<1> QED
  BY <1>1, IInvAlways, PTL

(* Whatever is killed and whichever system call fails, a result file that is not complete is  *)
(* being written, or was left by a run that was killed or failed inside results_to_file after *)
(* O_TRUNC, or is the name of two runs; no other end of main leaves one.                      *)
THEOREM IncompleteHasCauseAlways == Spec => []IncompleteHasCause
<1>1. IInv => IncompleteHasCause
  BY DEF IInv
<1> QED
  BY <1>1, IInvAlways, PTL

(* The actions of a run, as far as they matter to an abandoned file and to an unfit run. *)
LEMMA StepOfRun ==
  ASSUME IInv, NEW s \in Runs, main(s) \/ Kill(s)
  PROVE  /\ name' = name /\ pc[s] \notin Ended
         /\ \A r \in Runs : r # s => pc'[r] = pc[r]
         /\ pc[s] \notin Writing \cup {"open"} => files' = files
         /\ \A n \in Names : n # name[s] => files'[n] = files[n]
         /\ pc[s] \in {"arguments", "start"} /\ files[name[s]].present
              => pc'[s] \in Ended \cup {"start"}
<1>1. \E next : Goes(s, next)
  BY DEF main, Kill, ReadArguments, CheckExists, MapTrain, MapQuery, get_file, train_info_ctor,
     query_info_ctor, check_info, Search, Open, OpenFails, SetSize, SetSizeFails, StoreHeader,
     urandomFails, StorePoints, Store, Finish, FinishFails, Moves
<1>2. \A r \in Runs : r # s => pc'[r] = pc[r]
  BY <1>1 DEF Goes, IInv, IsMap
<1>3. CASE Kill(s)
  <2>1. pc'[s] = "killed" /\ files' = files /\ name' = name /\ pc[s] \notin Ended
    BY <1>3 DEF Kill, Moves, Goes, IInv, IsMap
  <2> QED
    BY <1>2, <2>1 DEF Ended
<1>4. CASE ReadArguments(s) \/ CheckExists(s)
  <2>1. files' = files /\ name' = name /\ pc[s] \in {"arguments", "start"}
    BY <1>4 DEF ReadArguments, CheckExists, At, Moves
  <2>2. CASE ReadArguments(s)
    <3>1. pc'[s] \in {"segfault", "abort", "start"}
      BY <2>2 DEF ReadArguments, Moves, Goes, IInv, IsMap
    <3> QED
      BY <1>2, <2>1, <3>1 DEF Ended
  <2>3. CASE CheckExists(s)
    <3>1. files[name[s]].present => pc'[s] = "refused"
      BY <2>3 DEF CheckExists, Moves, Goes, IInv, IsMap
    <3> QED
      BY <1>2, <2>1, <3>1 DEF Ended
  <2> QED
    BY <1>4, <2>2, <2>3
<1>5. CASE \/ MapTrain(s) \/ MapQuery(s) \/ train_info_ctor(s) \/ query_info_ctor(s)
           \/ check_info(s) \/ Search(s)
  <2>1. /\ files' = files /\ name' = name
        /\ pc[s] \in (BeforeSearch \ {"start"}) \cup {"search"}
    BY <1>5 DEF MapTrain, MapQuery, get_file, train_info_ctor, query_info_ctor, check_info,
       Search, At, Moves, BeforeSearch
  <2> QED
    BY <1>2, <2>1 DEF Ended, BeforeSearch
<1>6. CASE \/ Open(s) \/ OpenFails(s) \/ SetSize(s) \/ SetSizeFails(s) \/ StoreHeader(s)
           \/ urandomFails(s) \/ StorePoints(s) \/ Finish(s) \/ FinishFails(s)
  <2>1. name' = name /\ pc[s] \in Writing \cup {"open"}
    BY <1>6 DEF Open, OpenFails, SetSize, SetSizeFails, StoreHeader, urandomFails, StorePoints,
       Store, Finish, FinishFails, At, Moves, Writing
  <2>2. files' = files \/ \E f : files' = [files EXCEPT ![name[s]] = f]
    BY <1>6 DEF Open, OpenFails, SetSize, SetSizeFails, StoreHeader, urandomFails, StorePoints,
       Store, Finish, FinishFails, Moves
  <2>3. \A n \in Names : n # name[s] => files'[n] = files[n]
    BY <2>2, OwnFile
  <2> QED
    BY <1>2, <2>1, <2>3 DEF Ended, Writing
<1> QED
  BY <1>3, <1>4, <1>5, <1>6 DEF main

(* What a killed or failed run left incomplete stays so, for any number of further runs of *)
(* that name: file_exists of driver.cpp refuses each of them.                              *)
THEOREM LeftoverStaysAlways == Spec => LeftoverStays
<1> DEFINE Stay == \A n \in Names : Abandoned(n) => Abandoned(n)'
<1>1. ASSUME IInv, Next PROVE Stay
  <2> SUFFICES ASSUME NEW n \in Names, Abandoned(n) PROVE Abandoned(n)'
    OBVIOUS
  <2>1. ASSUME NEW s \in Runs, main(s) \/ Kill(s) PROVE Abandoned(n)'
    <3>1. /\ name' = name /\ pc[s] \notin Ended
          /\ \A r \in Runs : r # s => pc'[r] = pc[r]
          /\ pc[s] \notin Writing \cup {"open"} => files' = files
          /\ n # name[s] => files'[n] = files[n]
          /\ pc[s] \in {"arguments", "start"} /\ files[name[s]].present
               => pc'[s] \in Ended \cup {"start"}
      BY <1>1, <2>1, StepOfRun
    <3>2. CASE name[s] = n
      <4>1. pc[s] \in {"arguments", "start"} /\ files[name[s]].present
        BY <3>1, <3>2 DEF Abandoned
      <4>2. files' = files /\ pc'[s] \in Ended \cup {"start"}
        BY <3>1, <4>1 DEF Writing
      <4> QED
        BY <3>1, <4>2 DEF Abandoned, Complete
    <3>3. CASE name[s] # n
      <4>1. \A r \in Runs : name[r] = n => pc'[r] = pc[r]
        BY <3>1, <3>3
      <4> QED
        BY <3>1, <3>3, <4>1 DEF Abandoned, Complete
    <3> QED
      BY <3>2, <3>3
  <2>2. CASE Over
    BY <2>2 DEF Over, vars, Abandoned, Complete
  <2> QED
    BY <1>1, <2>1, <2>2 DEF Next
<1>2. IInv /\ [Next]_vars => [Stay]_vars
  BY <1>1
<1>3. Spec => [][Stay]_vars
  BY <1>2, IInvAlways, PTL DEF Spec
<1> QED
  BY <1>3 DEF LeftoverStays

(* A run that lacks an argument, whose inputs do not fit each other, or whose search comes to *)
(* no results never gets to the open with O_CREAT and O_TRUNC in results_to_file: its steps   *)
(* leave every file as it is.                                                                 *)
THEOREM UnfitTouchesNothingAlways == Spec => UnfitTouchesNothing
<1> DEFINE Touch == \A r \in Runs : Unfit(r) /\ pc'[r] # pc[r] => files' = files
<1>1. ASSUME IInv, Next PROVE Touch
  <2> SUFFICES ASSUME NEW r \in Runs, Unfit(r), pc'[r] # pc[r] PROVE files' = files
    OBVIOUS
  <2>1. input[r].args \in 0 .. 9
    BY <1>1, Types, InputsAssumption DEF IInv
  <2>2. pc[r] \notin Writing \cup {"open"}
    BY <1>1, <2>1 DEF IInv, InputsFit, Unfit
  <2>3. ASSUME NEW s \in Runs, main(s) \/ Kill(s) PROVE files' = files
    <3>1. s = r
      BY <1>1, <2>3, StepOfRun
    <3> QED
      BY <1>1, <2>2, <2>3, <3>1, StepOfRun
  <2>4. CASE Over
    BY <2>4 DEF Over, vars
  <2> QED
    BY <1>1, <2>3, <2>4 DEF Next
<1>2. IInv /\ [Next]_vars => [Touch]_vars
  BY <1>1
<1>3. Spec => [][Touch]_vars
  BY <1>2, IInvAlways, PTL DEF Spec
<1> QED
  BY <1>3 DEF UnfitTouchesNothing
=============================================================================
