-------------------------- MODULE Programs_proofs --------------------------
(***************************************************************************)
(* The search tree exercise, for any files of numbers and NaN, the input   *)
(* generator, for any number of cores and blocks, and the sorts as the     *)
(* programs of MCPrograms run them.                                        *)
(***************************************************************************)
EXTENDS MCPrograms, MergeSort_proofs

(* The generator. *)

Files == {"data", "query"} \X Int

GenTypes ==
  /\ gen = [t \in Threads |-> gen[t]]
  /\ block = [t \in Threads |-> block[t]]
  /\ script \in [Threads -> Seq(Files)]
  /\ next \in 0 .. gen_cores
  /\ \A t \in Threads : block[t] \in -1 .. Blocks
  /\ \A f \in DOMAIN files : files[f] \subseteq 1 .. Blocks

(* What the control point of main says of the threads. *)
GenPhases ==
  /\ gen_main = "create" => \A t \in Threads : t >= next => gen[t] = "none"
  /\ gen_main = "join" => \A t \in Threads : t < next => gen[t] = "exited"
  /\ gen_main = "returned" => \A t \in Threads : gen[t] = "exited"
  /\ \A t \in Threads : gen[t] = "exited" => script[t] = <<>>

(* A file that is open is there. *)
OpenIsThere ==
  \A t \in Threads : Writing(t) /\ block[t] >= 0 => script[t][1] \in DOMAIN files

(* A thread that is not writing has no file open. *)
ClosedIdle == \A t \in Threads : ~Writing(t) => block[t] = -1

(* What a thread that read its Info has to generate is there, or still in its script, or a *)
(* generator has failed to write it.                                                       *)
DataDue ==
  \A t \in Threads : (t = 0 \/ ~freed) /\ gen[t] \in {"script", "exited"} =>
    \A n \in {Start + t, Start + t + 1} :
      \/ <<"data", n>> \in DOMAIN files \cup given_up
      \/ \E i \in 1 .. Len(script[t]) : script[t][i] = <<"data", n>>

(* Only thread 0 frees the array, as its last step. *)
FreedBy == \A t \in Threads : t = 0 /\ freed => gen[t] = "exited"

GenInv == /\ GenTypes /\ GenPhases /\ OpenIsThere /\ ClosedIdle /\ DataDue /\ FreedBy
          /\ SharedFilesEndComplete

LEMMA Scripts ==
  ASSUME NEW t \in Threads
  PROVE  /\ pgen(Unread) \in Seq(Files)
         /\ pgen(Interval(t)) \in Seq(Files)
         /\ \A n \in {Start + t, Start + t + 1} :
              \E i \in 1 .. Len(pgen(Interval(t))) : pgen(Interval(t))[i] = <<"data", n>>
<1>1. /\ Interval(t).start = Start + t /\ Interval(t).end = Start + t + 1
      /\ Start + t \in Int /\ Start \in Int
  BY GenAssumption DEF Interval, Threads, Start
<1>2. pgen(Interval(t)) = [n \in 1 .. 4 |-> IF n % 2 = 1 THEN <<"data", Start + t + n \div 2>>
                                                     ELSE <<"query", n \div 2>>]
  BY <1>1 DEF pgen
<1>3. pgen(Interval(t)) \in Seq(Files) /\ Len(pgen(Interval(t))) = 4
  BY <1>1, <1>2 DEF Files
<1>4. pgen(Interval(t))[1] = <<"data", Start + t>> /\ pgen(Interval(t))[3] = <<"data", Start + t + 1>>
  BY <1>1, <1>2
<1>5. pgen(Unread) \in Seq(Files)
  <2>1. 2 * (Unread.end - Unread.start + 1) = 0
    BY DEF Unread
  <2>2. pgen(Unread) = [n \in 1 .. 0 |-> IF n % 2 = 1 THEN <<"data", Unread.start + n \div 2>>
                                                     ELSE <<"query", n \div 2>>]
    BY <2>1 DEF pgen
  <2> QED
    BY <2>2
<1> QED
  BY <1>1, <1>3, <1>4, <1>5

(* A step of main, or of a thread that is not writing before or after, leaves the files alone. *)
LEMMA QuietKeepsFiles ==
  ASSUME SharedFilesEndComplete, files' = files, given_up' = given_up,
         \A t \in Threads : Writing(t) => Writing(t)' /\ script'[t] = script[t] /\ block'[t] = block[t]
  PROVE  SharedFilesEndComplete'
<1> SUFFICES ASSUME NEW f \in DOMAIN files \ given_up, NEW b \in (1 .. Blocks) \ files[f]
             PROVE  \E t \in Threads : Writing(t)' /\ script'[t][1] = f /\ block'[t] \in 0 .. b - 1
  BY DEF SharedFilesEndComplete, Threads
<1>1. PICK t \in Threads : Writing(t) /\ script[t][1] = f /\ block[t] \in 0 .. b - 1
  BY DEF SharedFilesEndComplete
<1> QED
  BY <1>1

LEMMA GenCreateKeeps ==
  ASSUME GenInv, GenCreate
  PROVE  GenInv'
<1> USE GenAssumption
<1>1. /\ script' = script /\ block' = block /\ freed' = freed /\ files' = files
      /\ given_up' = given_up /\ next \in Threads /\ gen[next] = "none" /\ gen_main = "create"
  BY DEF GenCreate, GenInv, GenTypes, GenPhases, Threads
<1>2. CASE gen_main' = "abort" /\ gen' = gen /\ next' = next
  <2>1. GenTypes' /\ FreedBy'
    BY <1>1, <1>2 DEF GenInv, GenTypes, FreedBy, Threads
  <2>2. GenPhases'
    BY <1>1, <1>2 DEF GenInv, GenPhases, Threads
  <2>3. OpenIsThere' /\ ClosedIdle' /\ DataDue'
    BY <1>1, <1>2 DEF GenInv, OpenIsThere, ClosedIdle, DataDue, Writing, Threads
  <2>4. SharedFilesEndComplete'
    BY <1>1, <1>2, QuietKeepsFiles DEF GenInv, Writing
  <2> QED
    BY <2>1, <2>2, <2>3, <2>4 DEF GenInv
<1>3. CASE gen_main' = gen_main /\ gen' = [gen EXCEPT ![next] = "read"] /\ next' = next + 1
  <2>0. /\ gen'[next] = "read" /\ \A t \in Threads : t # next => gen'[t] = gen[t]
        /\ gen' = [t \in Threads |-> gen'[t]]
    BY <1>1, <1>3 DEF GenInv, GenTypes
  <2>1. GenTypes' /\ FreedBy'
    BY <1>1, <1>3, <2>0 DEF GenInv, GenTypes, FreedBy, Threads
  <2>2. GenPhases'
    BY <1>1, <1>3, <2>0 DEF GenInv, GenPhases, Threads
  <2>3. \A t \in Threads : /\ Writing(t)' <=> Writing(t)
                           /\ gen'[t] \in {"script", "exited"} => gen[t] \in {"script", "exited"}
    BY <1>1, <2>0 DEF Writing
  <2>4. OpenIsThere' /\ ClosedIdle'
    <3>1. OpenIsThere'
      BY <1>1, <2>3 DEF GenInv, OpenIsThere, Threads
    <3>2. ClosedIdle'
      BY <1>1, <2>3 DEF GenInv, ClosedIdle, Threads
    <3> QED
      BY <3>1, <3>2
  <2>5. DataDue'
    <3> SUFFICES ASSUME NEW t \in Threads, t = 0 \/ ~freed, gen'[t] \in {"script", "exited"},
                        NEW n \in {Start + t, Start + t + 1}
                 PROVE  \/ <<"data", n>> \in DOMAIN files \cup given_up
                        \/ \E i \in 1 .. Len(script[t]) : script[t][i] = <<"data", n>>
      BY <1>1 DEF DataDue, Threads
    <3> QED
      BY <2>3 DEF GenInv, DataDue
  <2>6. SharedFilesEndComplete'
    BY <1>1, <1>3, <2>0, QuietKeepsFiles DEF GenInv, Writing
  <2> QED
    BY <2>1, <2>2, <2>4, <2>5, <2>6 DEF GenInv
<1> QED
  BY <1>2, <1>3 DEF GenCreate

(* GenCreated, GenJoin and GenReturn: main alone goes on. *)
LEMMA GenMainKeeps ==
  ASSUME GenInv, GenCreated \/ GenJoin \/ GenReturn
  PROVE  GenInv'
<1> USE GenAssumption
<1>1. /\ script' = script /\ block' = block /\ freed' = freed /\ files' = files /\ gen' = gen
      /\ given_up' = given_up /\ next' \in 0 .. gen_cores
  BY DEF GenCreated, GenJoin, GenReturn, GenInv, GenTypes
<1>2. GenTypes' /\ FreedBy'
  BY <1>1 DEF GenInv, GenTypes, FreedBy, Threads
<1>3. GenPhases'
  <2>1. next \in 0 .. gen_cores
    BY DEF GenInv, GenTypes
  <2>2. CASE GenCreated
    BY <1>1, <2>1, <2>2 DEF GenCreated, GenInv, GenPhases, Threads
  <2>3. CASE GenJoin
    BY <1>1, <2>1, <2>3 DEF GenJoin, GenInv, GenPhases, Threads
  <2>4. CASE GenReturn
    BY <1>1, <2>1, <2>4 DEF GenReturn, GenInv, GenPhases, Threads
  <2> QED
    BY <2>2, <2>3, <2>4
<1>4. OpenIsThere' /\ ClosedIdle' /\ DataDue'
  BY <1>1 DEF GenInv, OpenIsThere, ClosedIdle, DataDue, Writing, Threads
<1>5. SharedFilesEndComplete'
  BY <1>1, QuietKeepsFiles DEF GenInv, Writing
<1> QED
  BY <1>2, <1>3, <1>4, <1>5 DEF GenInv

LEMMA StartScriptKeeps ==
  ASSUME GenInv, NEW t \in Threads, StartScript(t)
  PROVE  GenInv'
<1> USE GenAssumption
<1>1. /\ block' = block /\ freed' = freed /\ files' = files /\ next' = next
      /\ given_up' = given_up /\ gen[t] = "read"
  BY DEF StartScript
<1>2. CASE gen_main' = "abort" /\ gen' = gen /\ script' = script
  <2>1. GenTypes' /\ FreedBy'
    BY <1>1, <1>2 DEF GenInv, GenTypes, FreedBy, Threads
  <2>2. GenPhases'
    BY <1>1, <1>2 DEF GenInv, GenPhases, Threads
  <2>3. OpenIsThere' /\ ClosedIdle' /\ DataDue'
    BY <1>1, <1>2 DEF GenInv, OpenIsThere, ClosedIdle, DataDue, Writing, Threads
  <2>4. SharedFilesEndComplete'
    BY <1>1, <1>2, QuietKeepsFiles DEF GenInv, Writing
  <2> QED
    BY <2>1, <2>2, <2>3, <2>4 DEF GenInv
<1>3. ASSUME NEW r \in IF freed THEN {Interval(t), Unread} ELSE {Interval(t)},
             script' = [script EXCEPT ![t] = pgen(r)], gen' = [gen EXCEPT ![t] = "script"],
             gen_main' = gen_main
      PROVE  GenInv'
  <2>0. /\ gen'[t] = "script" /\ \A u \in Threads : u # t => gen'[u] = gen[u]
        /\ gen' = [u \in Threads |-> gen'[u]]
        /\ script'[t] = pgen(r) /\ \A u \in Threads : u # t => script'[u] = script[u]
        /\ pgen(r) \in Seq(Files) /\ script' \in [Threads -> Seq(Files)]
    BY <1>3, Scripts DEF GenInv, GenTypes
  <2>1. GenTypes'
    BY <1>1, <2>0 DEF GenInv, GenTypes, Threads
  <2>2. FreedBy'
    BY <1>1, <2>0 DEF GenInv, FreedBy, Threads
  <2>3. GenPhases'
    <3>1. GenRunning
      BY DEF StartScript
    <3> QED
      BY <1>1, <1>3, <2>0, <3>1 DEF GenInv, GenPhases, GenRunning, Threads
  <2>4. OpenIsThere'
    <3> SUFFICES ASSUME NEW u \in Threads, Writing(u)', block[u] >= 0
                 PROVE  script'[u][1] \in DOMAIN files
      BY <1>1 DEF OpenIsThere, Threads
    <3>1. u # t => Writing(u)
      BY <2>0 DEF Writing
    <3>2. CASE u # t
      BY <2>0, <3>1, <3>2 DEF GenInv, OpenIsThere
    <3>3. CASE u = t
      BY <1>1, <3>3 DEF GenInv, ClosedIdle, Writing
    <3> QED
      BY <3>2, <3>3
  <2>5. DataDue'
    <3> SUFFICES ASSUME NEW u \in Threads, u = 0 \/ ~freed, gen'[u] \in {"script", "exited"},
                        NEW n \in {Start + u, Start + u + 1}
                 PROVE  \/ <<"data", n>> \in DOMAIN files \cup given_up
                        \/ \E i \in 1 .. Len(script'[u]) : script'[u][i] = <<"data", n>>
      BY <1>1 DEF DataDue, Threads
    <3>1. CASE u # t
      <4>1. gen[u] \in {"script", "exited"} /\ script'[u] = script[u]
        BY <2>0, <3>1
      <4>2. \/ <<"data", n>> \in DOMAIN files \cup given_up
            \/ \E i \in 1 .. Len(script[u]) : script[u][i] = <<"data", n>>
        BY <4>1 DEF GenInv, DataDue
      <4> QED
        BY <4>1, <4>2
    <3>2. CASE u = t
      <4>1. ~freed
        BY <1>1, <3>2 DEF GenInv, FreedBy
      <4>2. r = Interval(t)
        BY <4>1
      <4> QED
        BY <2>0, <3>2, <4>2, Scripts
    <3> QED
      BY <3>1, <3>2
  <2>6. SharedFilesEndComplete'
    <3>1. \A u \in Threads : Writing(u) => u # t
      BY <1>1 DEF Writing
    <3>2. \A u \in Threads : Writing(u) => Writing(u)' /\ script'[u] = script[u] /\ block'[u] = block[u]
      BY <1>1, <2>0, <3>1 DEF Writing
    <3> QED
      BY <1>1, <3>2, QuietKeepsFiles DEF GenInv
  <2> QED
    BY <1>1, <2>0, <2>1, <2>2, <2>3, <2>4, <2>5, <2>6 DEF GenInv, ClosedIdle, Threads, Writing
<1> QED
  BY <1>2, <1>3 DEF StartScript

(* What the steps of a script leave alone. *)
LEMMA ScriptFrame ==
  ASSUME GenInv, gen_main' = gen_main, next' = next, gen' = gen, freed' = freed,
         \A t \in Threads : gen[t] = "exited" => script'[t] = <<>>
  PROVE  GenPhases' /\ FreedBy'
<1>1. GenPhases'
  BY DEF GenInv, GenPhases, Threads
<1>2. FreedBy'
  BY DEF GenInv, FreedBy, Threads
<1> QED
  BY <1>1, <1>2

LEMMA DataKeeps ==
  ASSUME DataDue, gen' = gen, script' = script, freed' = freed, given_up' = given_up,
         DOMAIN files \subseteq DOMAIN files'
  PROVE  DataDue'
<1> SUFFICES ASSUME NEW u \in Threads, u = 0 \/ ~freed, gen[u] \in {"script", "exited"},
                    NEW n \in {Start + u, Start + u + 1}
             PROVE  \/ <<"data", n>> \in DOMAIN files' \cup given_up
                    \/ \E i \in 1 .. Len(script[u]) : script[u][i] = <<"data", n>>
  BY DEF DataDue, Threads
<1>1. \/ <<"data", n>> \in DOMAIN files \cup given_up
      \/ \E i \in 1 .. Len(script[u]) : script[u][i] = <<"data", n>>
  BY DEF DataDue
<1> QED
  BY <1>1

LEMMA OpenFileKeeps ==
  ASSUME GenInv, NEW t \in Threads, OpenFile(t)
  PROVE  GenInv'
<1> USE GenAssumption
<1> DEFINE f == script[t][1]
<1>1. /\ gen_main' = gen_main /\ next' = next /\ gen' = gen /\ script' = script /\ freed' = freed
      /\ given_up' = given_up /\ Writing(t) /\ block[t] = -1 /\ \A u \in Threads : Writing(u)' <=> Writing(u)
  BY DEF OpenFile, Writing
<1>2. /\ block'[t] = 0 /\ \A u \in Threads : u # t => block'[u] = block[u]
      /\ block' = [u \in Threads |-> block'[u]]
  BY DEF OpenFile, GenInv, GenTypes
<1>3. /\ DOMAIN files' = DOMAIN files \cup {f} /\ files'[f] = {}
      /\ \A g \in DOMAIN files : g # f => files'[g] = files[g]
  BY DEF OpenFile
<1>4. GenTypes'
  <2>1. \A u \in Threads : block'[u] \in -1 .. Blocks
    BY <1>1, <1>2 DEF GenInv, GenTypes
  <2>2. \A g \in DOMAIN files' : files'[g] \subseteq 1 .. Blocks
    BY <1>1, <1>3 DEF GenInv, GenTypes
  <2> QED
    BY <1>1, <1>2, <2>1, <2>2 DEF GenInv, GenTypes, Threads
<1>5. GenPhases' /\ FreedBy'
  BY <1>1, ScriptFrame DEF GenInv, GenPhases
<1>6. OpenIsThere' /\ ClosedIdle'
  BY <1>1, <1>2, <1>3 DEF GenInv, OpenIsThere, ClosedIdle, Threads
<1>7. DataDue'
  <2>1. DOMAIN files \subseteq DOMAIN files'
    BY <1>3
  <2> QED
    BY <1>1, <2>1, DataKeeps DEF GenInv
<1>8. SharedFilesEndComplete'
  <2> SUFFICES ASSUME NEW g \in DOMAIN files' \ given_up', NEW b \in (1 .. Blocks) \ files'[g]
               PROVE  \E u \in Threads : Writing(u)' /\ script'[u][1] = g /\ block'[u] \in 0 .. b - 1
    BY DEF SharedFilesEndComplete, Threads
  <2>1. CASE g = f
    BY <1>1, <1>2, <2>1
  <2>2. CASE g # f
    <3>1. g \in DOMAIN files \ given_up /\ files'[g] = files[g]
      BY <1>1, <1>3, <2>2
    <3>2. PICK u \in Threads : Writing(u) /\ script[u][1] = g /\ block[u] \in 0 .. b - 1
      BY <3>1 DEF GenInv, SharedFilesEndComplete
    <3> QED
      BY <1>1, <1>2, <2>2, <3>2
  <2> QED
    BY <2>1, <2>2
<1> QED
  BY <1>4, <1>5, <1>6, <1>7, <1>8 DEF GenInv

LEMMA WriteBlockKeeps ==
  ASSUME GenInv, NEW t \in Threads, WriteBlock(t)
  PROVE  GenInv'
<1> USE GenAssumption
<1> DEFINE f == script[t][1]
<1>1. /\ gen_main' = gen_main /\ next' = next /\ gen' = gen /\ script' = script /\ freed' = freed
      /\ given_up' = given_up /\ Writing(t) /\ block[t] \in 0 .. Blocks - 1 /\ \A u \in Threads : Writing(u)' <=> Writing(u)
  BY DEF WriteBlock, Writing
<1>2. /\ block'[t] = block[t] + 1 /\ \A u \in Threads : u # t => block'[u] = block[u]
      /\ block' = [u \in Threads |-> block'[u]]
  BY DEF WriteBlock, GenInv, GenTypes
<1>3. /\ f \in DOMAIN files /\ DOMAIN files' = DOMAIN files
      /\ files'[f] = files[f] \cup {block[t] + 1}
      /\ \A g \in DOMAIN files : g # f => files'[g] = files[g]
  BY <1>1 DEF WriteBlock, GenInv, OpenIsThere
<1>4. GenTypes'
  <2>1. \A u \in Threads : block'[u] \in -1 .. Blocks
    BY <1>1, <1>2 DEF GenInv, GenTypes
  <2>2. \A g \in DOMAIN files' : files'[g] \subseteq 1 .. Blocks
    BY <1>1, <1>3 DEF GenInv, GenTypes
  <2> QED
    BY <1>1, <1>2, <2>1, <2>2 DEF GenInv, GenTypes, Threads
<1>5. GenPhases' /\ FreedBy'
  BY <1>1, ScriptFrame DEF GenInv, GenPhases
<1>6. OpenIsThere' /\ ClosedIdle'
  BY <1>1, <1>2, <1>3 DEF GenInv, OpenIsThere, ClosedIdle, Threads
<1>7. DataDue'
  <2>1. DOMAIN files \subseteq DOMAIN files'
    BY <1>3
  <2> QED
    BY <1>1, <2>1, DataKeeps DEF GenInv
<1>8. SharedFilesEndComplete'
  <2> SUFFICES ASSUME NEW g \in DOMAIN files' \ given_up', NEW b \in (1 .. Blocks) \ files'[g]
               PROVE  \E u \in Threads : Writing(u)' /\ script'[u][1] = g /\ block'[u] \in 0 .. b - 1
    BY DEF SharedFilesEndComplete, Threads
  <2>1. b \in (1 .. Blocks) \ files[g] /\ g \in DOMAIN files \ given_up /\ (g = f => b # block[t] + 1)
    BY <1>1, <1>3
  <2>2. PICK u \in Threads : Writing(u) /\ script[u][1] = g /\ block[u] \in 0 .. b - 1
    BY <2>1 DEF GenInv, SharedFilesEndComplete
  <2>3. CASE u = t
    BY <1>1, <1>2, <2>1, <2>2, <2>3
  <2>4. CASE u # t
    BY <1>1, <1>2, <2>2, <2>4
  <2> QED
    BY <2>3, <2>4
<1> QED
  BY <1>4, <1>5, <1>6, <1>7, <1>8 DEF GenInv

(* CloseFile with the file written, and GeneratorFails: the script goes on to its next file. *)
LEMMA NextFileKeeps ==
  ASSUME GenInv, NEW t \in Threads, CloseFile(t) \/ GeneratorFails(t)
  PROVE  GenInv'
<1> USE GenAssumption
<1>1. /\ gen_main' = gen_main /\ next' = next /\ gen' = gen /\ files' = files /\ freed' = freed
      /\ Writing(t) /\ gen[t] = "script" /\ script[t] # <<>>
      /\ given_up \subseteq given_up'
      /\ block[t] = Blocks \/ script[t][1] \in given_up'
  BY DEF CloseFile, GeneratorFails, Writing
<1>2. /\ block'[t] = -1 /\ \A u \in Threads : u # t => block'[u] = block[u]
      /\ block' = [u \in Threads |-> block'[u]]
  BY DEF CloseFile, GeneratorFails, GenInv, GenTypes
<1>3. /\ script'[t] = Tail(script[t]) /\ \A u \in Threads : u # t => script'[u] = script[u]
      /\ script[t] \in Seq(Files)
  BY DEF CloseFile, GeneratorFails, GenInv, GenTypes
<1>4. script' \in [Threads -> Seq(Files)]
  <2>1. Tail(script[t]) \in Seq(Files)
    BY <1>1, <1>3
  <2> QED
    BY <2>1 DEF CloseFile, GeneratorFails, GenInv, GenTypes
<1>5. GenTypes'
  <2>1. \A u \in Threads : block'[u] \in -1 .. Blocks
    BY <1>1, <1>2 DEF GenInv, GenTypes
  <2> QED
    BY <1>1, <1>2, <1>4, <2>1 DEF GenInv, GenTypes, Threads
<1>6. GenPhases' /\ FreedBy'
  <2>1. \A u \in Threads : gen[u] = "exited" => u # t /\ script[u] = <<>>
    BY <1>1 DEF GenInv, GenPhases
  <2> QED
    BY <1>1, <1>3, <2>1, ScriptFrame
<1>7. \A u \in Threads : u # t => (Writing(u)' <=> Writing(u))
  BY <1>1, <1>3 DEF Writing
<1>8. OpenIsThere' /\ ClosedIdle'
  <2>1. OpenIsThere'
    <3> SUFFICES ASSUME NEW u \in Threads, Writing(u)', block'[u] >= 0
                 PROVE  script'[u][1] \in DOMAIN files
      BY <1>1 DEF OpenIsThere, Threads
    <3>1. u # t
      BY <1>2
    <3> QED
      BY <1>2, <1>3, <1>7, <3>1 DEF GenInv, OpenIsThere
  <2>2. ClosedIdle'
    <3> SUFFICES ASSUME NEW u \in Threads, ~Writing(u)'
                 PROVE  block'[u] = -1
      BY DEF ClosedIdle, Threads
    <3> QED
      BY <1>2, <1>7 DEF GenInv, ClosedIdle
  <2> QED
    BY <2>1, <2>2
<1>9. DataDue'
  <2> SUFFICES ASSUME NEW u \in Threads, u = 0 \/ ~freed, gen[u] \in {"script", "exited"},
                      NEW n \in {Start + u, Start + u + 1},
                      <<"data", n>> \notin DOMAIN files \cup given_up'
               PROVE  \E i \in 1 .. Len(script'[u]) : script'[u][i] = <<"data", n>>
    BY <1>1 DEF DataDue, Threads
  <2>1. PICK i \in 1 .. Len(script[u]) : script[u][i] = <<"data", n>>
    BY <1>1 DEF GenInv, DataDue
  <2>2. CASE u # t
    BY <1>3, <2>1, <2>2
  <2>3. CASE u = t
    <3>1. script[t][1] \in DOMAIN files \cup given_up'
      BY <1>1, GenAssumption DEF GenInv, OpenIsThere
    <3>2. i # 1
      BY <2>1, <2>3, <3>1
    <3>3. i - 1 \in 1 .. Len(Tail(script[t])) /\ Tail(script[t])[i - 1] = script[t][i]
      BY <1>1, <1>3, <2>1, <2>3, <3>2
    <3> QED
      BY <1>3, <2>1, <2>3, <3>3
  <2> QED
    BY <2>2, <2>3
<1>10. SharedFilesEndComplete'
  <2> SUFFICES ASSUME NEW g \in DOMAIN files \ given_up', NEW b \in (1 .. Blocks) \ files[g]
               PROVE  \E u \in Threads : Writing(u)' /\ script'[u][1] = g /\ block'[u] \in 0 .. b - 1
    BY <1>1 DEF SharedFilesEndComplete, Threads
  <2>1. PICK u \in Threads : Writing(u) /\ script[u][1] = g /\ block[u] \in 0 .. b - 1
    BY <1>1 DEF GenInv, SharedFilesEndComplete
  <2>2. u # t
    BY <1>1, <2>1
  <2> QED
    BY <1>2, <1>3, <1>7, <2>1, <2>2
<1> QED
  BY <1>5, <1>6, <1>8, <1>9, <1>10 DEF GenInv

LEMMA DeleteInfoKeeps ==
  ASSUME GenInv, NEW t \in Threads, DeleteInfo(t)
  PROVE  GenInv'
<1> USE GenAssumption
<1>1. /\ next' = next /\ script' = script /\ block' = block /\ files' = files
      /\ given_up' = given_up
      /\ gen[t] = "script" /\ script[t] = <<>> /\ GenRunning
      /\ freed' <=> (freed \/ t = 0)
  BY DEF DeleteInfo
<1>2. \/ gen'[t] = "exited" /\ gen_main' = gen_main
      \/ gen'[t] = gen[t] /\ t # 0 /\ gen_main' = "abort"
  BY DEF DeleteInfo, GenInv, GenTypes
<1>3. /\ \A u \in Threads : u # t => gen'[u] = gen[u]
      /\ gen' = [u \in Threads |-> gen'[u]]
  BY DEF DeleteInfo, GenInv, GenTypes
<1>4. GenTypes'
  BY <1>1, <1>3 DEF GenInv, GenTypes, Threads
<1>5. GenPhases'
  BY <1>1, <1>2, <1>3 DEF GenInv, GenPhases, GenRunning, Threads
<1>6. FreedBy'
  <2> SUFFICES ASSUME NEW u \in Threads, u = 0, freed'
               PROVE  gen'[u] = "exited"
    BY DEF FreedBy, Threads
  <2>1. CASE u = t
    BY <1>2, <2>1
  <2>2. CASE u # t
    BY <1>1, <1>3, <2>2 DEF GenInv, FreedBy
  <2> QED
    BY <2>1, <2>2
<1>7. \A u \in Threads : Writing(u)' <=> Writing(u)
  BY <1>1, <1>2, <1>3 DEF Writing
<1>8. OpenIsThere' /\ ClosedIdle'
  BY <1>1, <1>7 DEF GenInv, OpenIsThere, ClosedIdle, Threads
<1>9. DataDue'
  <2> SUFFICES ASSUME NEW u \in Threads, u = 0 \/ ~freed', gen'[u] \in {"script", "exited"},
                      NEW n \in {Start + u, Start + u + 1}
               PROVE  \/ <<"data", n>> \in DOMAIN files \cup given_up
                      \/ \E i \in 1 .. Len(script[u]) : script[u][i] = <<"data", n>>
    BY <1>1 DEF DataDue, Threads
  <2>1. gen[u] \in {"script", "exited"}
    BY <1>1, <1>3
  <2>2. u = 0 \/ ~freed
    BY <1>1
  <2> QED
    BY <2>1, <2>2 DEF GenInv, DataDue
<1>10. SharedFilesEndComplete'
  BY <1>1, <1>7, QuietKeepsFiles DEF GenInv
<1> QED
  BY <1>4, <1>5, <1>6, <1>8, <1>9, <1>10 DEF GenInv

LEMMA GenAlways == GenSpec => []GenInv
<1>1. GenInit => GenInv
  <2> SUFFICES ASSUME GenInit PROVE GenInv
    OBVIOUS
  <2>1. GenTypes /\ GenPhases /\ FreedBy
    BY GenAssumption DEF GenInit, GenTypes, GenPhases, FreedBy, Files, Threads
  <2>2. OpenIsThere /\ ClosedIdle /\ DataDue
    BY DEF GenInit, OpenIsThere, ClosedIdle, DataDue, Writing
  <2>3. SharedFilesEndComplete
    BY DEF GenInit, SharedFilesEndComplete
  <2> QED
    BY <2>1, <2>2, <2>3 DEF GenInv
<1>2. GenInv /\ [GenStep]_genVars => GenInv'
  <2> SUFFICES ASSUME GenInv, [GenStep]_genVars PROVE GenInv'
    OBVIOUS
  <2>1. CASE UNCHANGED genVars
    <3>1. /\ gen_main' = gen_main /\ next' = next /\ gen' = gen /\ script' = script
          /\ block' = block /\ freed' = freed /\ files' = files /\ given_up' = given_up
      BY <2>1 DEF genVars
    <3>2. GenTypes' /\ GenPhases' /\ FreedBy'
      BY <3>1 DEF GenInv, GenTypes, GenPhases, FreedBy, Threads
    <3>3. OpenIsThere' /\ ClosedIdle'
      BY <3>1 DEF GenInv, OpenIsThere, ClosedIdle, Writing, Threads
    <3>4. DataDue'
      BY <3>1, DataKeeps DEF GenInv
    <3>5. SharedFilesEndComplete'
      BY <3>1, QuietKeepsFiles DEF GenInv, Writing
    <3> QED
      BY <3>2, <3>3, <3>4, <3>5 DEF GenInv
  <2>2. CASE GenCreate \/ GenCreated \/ GenJoin \/ GenReturn
    BY <2>2, GenCreateKeeps, GenMainKeeps
  <2>3. ASSUME NEW t \in Threads, StartScript(t) \/ ScriptStep(t) \/ DeleteInfo(t) PROVE GenInv'
    BY <2>3, StartScriptKeeps, OpenFileKeeps, WriteBlockKeeps, NextFileKeeps, DeleteInfoKeeps
       DEF ScriptStep
  <2> QED
    BY <2>1, <2>2, <2>3 DEF GenStep
<1> QED
  BY <1>1, <1>2, PTL DEF GenSpec

(* However many scripts truncate and write one file at one time, a block of it is missing only *)
(* while one of them has yet to write it, unless a generator of that file has failed: pgen.sh  *)
(* in the threads of parallel_gen.cpp.                                                         *)
THEOREM SharedFilesEndCompleteAlways == GenSpec => []SharedFilesEndComplete
<1>1. GenInv => SharedFilesEndComplete
  BY DEF GenInv
<1> QED
  BY <1>1, GenAlways, PTL

(* On at least one core, a data file that is missing or incomplete when main of               *)
(* parallel_gen.cpp returns has one of two causes: a generator of that file failed, which      *)
(* pgen.sh does not notice, or thread 0 freed the array of Info that other threads had yet to  *)
(* read.                                                                                       *)
THEOREM MissingHasCauseAlways == gen_cores >= 1 /\ GenSpec => []MissingHasCause
<1> SUFFICES ASSUME gen_cores >= 1 PROVE GenSpec => []MissingHasCause
  OBVIOUS
<1>1. ASSUME GenInv PROVE MissingHasCause
  <2>1. ASSUME gen_main = "returned", NEW n, NEW t \in Threads, n \in {Start + t, Start + t + 1},
               t = 0 \/ ~freed, <<"data", n>> \notin given_up
        PROVE  <<"data", n>> \in DOMAIN files /\ files[<<"data", n>>] = 1 .. Blocks
    <3>1. \A u \in Threads : gen[u] = "exited" /\ script[u] = <<>> /\ ~Writing(u)
      BY <1>1, <2>1 DEF GenInv, GenPhases, Writing
    <3>2. <<"data", n>> \in DOMAIN files
      <4>1. \/ <<"data", n>> \in DOMAIN files
            \/ \E i \in 1 .. Len(script[t]) : script[t][i] = <<"data", n>>
        BY <1>1, <2>1, <3>1 DEF GenInv, DataDue
      <4>2. Len(script[t]) = 0
        BY <3>1
      <4> QED
        BY <4>1, <4>2
    <3>3. (1 .. Blocks) \ files[<<"data", n>>] = {}
      BY <1>1, <2>1, <3>1, <3>2 DEF GenInv, SharedFilesEndComplete
    <3>4. files[<<"data", n>>] \subseteq 1 .. Blocks
      BY <1>1, <3>2 DEF GenInv, GenTypes
    <3> QED
      BY <3>2, <3>3, <3>4
  <2>2. ASSUME NEW n \in Start .. Start + gen_cores
        PROVE  \E t \in Threads : n \in {Start + t, Start + t + 1}
    <3>1. n - Start \in Threads \/ n - Start - 1 \in Threads
      BY GenAssumption DEF Threads, Start
    <3> QED
      BY <3>1 DEF Start
  <2>3. ASSUME gen_main = "returned", NEW n \in Start .. Start + gen_cores,
               <<"data", n>> \notin given_up,
               NEW t \in Threads, n \in {Interval(t).start, Interval(t).end}, t = 0
        PROVE  <<"data", n>> \in DOMAIN files /\ files[<<"data", n>>] = 1 .. Blocks
    BY <2>1, <2>3 DEF Interval
  <2>4. ASSUME gen_main = "returned", NEW n \in Start .. Start + gen_cores, ~freed,
               <<"data", n>> \notin given_up
        PROVE  <<"data", n>> \in DOMAIN files /\ files[<<"data", n>>] = 1 .. Blocks
    BY <2>1, <2>2, <2>4
  <2> QED
    BY <2>3, <2>4 DEF MissingHasCause
<1>2. GenInv => MissingHasCause
  BY <1>1
<1> QED
  BY <1>2, GenAlways, PTL

-----------------------------------------------------------------------------
(* The search tree. *)

Paths == Seq({"l", "r"})

LEMMA PrefixByElement ==
  ASSUME NEW s \in Paths, NEW t \in Paths
  PROVE  IsPrefix(s, t) <=> Len(s) <= Len(t) /\ \A i \in 1 .. Len(s) : s[i] = t[i]
<1>1. CASE Len(s) <= Len(t)
  <2>1. SubSeq(s, 1, Len(s)) = [i \in 1 .. Len(s) |-> s[i]]
    BY DEF Paths
  <2>2. SubSeq(t, 1, Len(s)) = [i \in 1 .. Len(s) |-> t[i]]
    BY <1>1 DEF Paths
  <2> QED
    BY <1>1, <2>1, <2>2 DEF IsPrefix
<1>2. CASE ~(Len(s) <= Len(t))
  BY <1>2 DEF IsPrefix
<1> QED
  BY <1>1, <1>2

LEMMA Children ==
  ASSUME NEW p \in Paths, NEW side \in {"l", "r"}
  PROVE  /\ Child(p, side) \in Paths /\ Len(Child(p, side)) = Len(p) + 1
         /\ Child(p, side)[Len(p) + 1] = side
         /\ \A i \in 1 .. Len(p) : Child(p, side)[i] = p[i]
         /\ Len(p) \in Nat
  BY DEF Paths, Child

(* What lies below a node lies on one of its sides. *)
LEMMA OneSide ==
  ASSUME NEW p \in Paths, NEW m \in Paths, IsPrefix(p, m), p # m
  PROVE  /\ IsPrefix(Child(p, "l"), m) \/ IsPrefix(Child(p, "r"), m)
         /\ ~(IsPrefix(Child(p, "l"), m) /\ IsPrefix(Child(p, "r"), m))
<1>1. Len(p) <= Len(m) /\ Len(p) \in Nat /\ Len(m) \in Nat /\ \A i \in 1 .. Len(p) : p[i] = m[i]
  BY PrefixByElement DEF Paths
<1>2. Len(p) < Len(m)
  BY <1>1 DEF Paths
<1>3. m[Len(p) + 1] \in {"l", "r"}
  BY <1>1, <1>2 DEF Paths
<1>4. ASSUME NEW side \in {"l", "r"}
      PROVE  IsPrefix(Child(p, side), m) <=> m[Len(p) + 1] = side
  <2>1. PICK c \in Paths : c = Child(p, side)
    BY Children
  <2>2. /\ Len(c) = Len(p) + 1 /\ c[Len(p) + 1] = side
        /\ \A i \in 1 .. Len(p) : c[i] = p[i]
    BY <2>1, Children
  <2>3. IsPrefix(c, m) <=> Len(c) <= Len(m) /\ \A i \in 1 .. Len(c) : c[i] = m[i]
    BY PrefixByElement
  <2>4. \A i \in 1 .. Len(p) : c[i] = m[i]
    BY <1>1, <2>2
  <2>5. (\A i \in 1 .. Len(c) : c[i] = m[i]) <=> m[Len(p) + 1] = side
    BY <1>1, <2>2, <2>4
  <2>6. Len(c) <= Len(m)
    BY <1>1, <1>2, <2>2
  <2>7. IsPrefix(c, m) <=> m[Len(p) + 1] = side
    BY <2>3, <2>5, <2>6
  <2> QED
    BY <2>1, <2>7
<1> QED
  BY <1>3, <1>4

(* A path is a prefix of a child of a node when it is that child or a prefix of the node. *)
LEMMA PrefixOfChild ==
  ASSUME NEW p \in Paths, NEW q \in Paths, NEW side \in {"l", "r"}
  PROVE  IsPrefix(q, Child(p, side)) <=> q = Child(p, side) \/ IsPrefix(q, p)
<1> DEFINE c == Child(p, side)
<1>0. /\ c \in Paths /\ Len(c) = Len(p) + 1 /\ Len(q) \in Nat /\ Len(p) \in Nat
      /\ \A i \in 1 .. Len(p) : c[i] = p[i]
  BY Children DEF Paths
<1> HIDE DEF c
<1>1. ASSUME IsPrefix(q, c), q # c PROVE IsPrefix(q, p)
  <2>1. Len(q) <= Len(c) /\ \A i \in 1 .. Len(q) : q[i] = c[i]
    BY <1>0, <1>1, PrefixByElement
  <2>2. Len(q) # Len(c)
    BY <1>0, <1>1, <2>1 DEF Paths
  <2> QED
    BY <1>0, <2>1, <2>2, PrefixByElement
<1>2. ASSUME IsPrefix(q, p) PROVE IsPrefix(q, c)
  <2>1. Len(q) <= Len(p) /\ \A i \in 1 .. Len(q) : q[i] = p[i]
    BY <1>2, PrefixByElement
  <2> QED
    BY <1>0, <2>1, PrefixByElement
<1>3. IsPrefix(c, c)
  BY <1>0, PrefixByElement
<1> QED
  BY <1>1, <1>2, <1>3 DEF c

LEMMA PrefixTransitive ==
  ASSUME NEW p \in Paths, NEW q \in Paths, NEW m \in Paths, IsPrefix(p, q), IsPrefix(q, m)
  PROVE  IsPrefix(p, m)
<1>1. Len(p) <= Len(q) /\ Len(q) <= Len(m) /\ Len(p) \in Nat /\ Len(q) \in Nat /\ Len(m) \in Nat
  BY PrefixByElement DEF Paths
<1>2. \A i \in 1 .. Len(p) : p[i] = q[i]
  BY PrefixByElement
<1>3. \A i \in 1 .. Len(q) : q[i] = m[i]
  BY PrefixByElement
<1> QED
  BY <1>1, <1>2, <1>3, PrefixByElement

(* The path above a path that is not the empty one. *)
LEMMA Above ==
  ASSUME NEW m \in Paths, m # <<>>
  PROVE  \E q \in Paths, side \in {"l", "r"} : m = Child(q, side)
<1> DEFINE q == SubSeq(m, 1, Len(m) - 1)
<1>1. Len(m) >= 1 /\ Len(m) \in Nat
  BY DEF Paths
<1>2. q \in Paths /\ m[Len(m)] \in {"l", "r"}
  BY <1>1 DEF Paths
<1>3. m = Child(q, m[Len(m)])
  BY <1>1, <1>2 DEF Child, Paths
<1> QED
  BY <1>2, <1>3

LEMMA ChildOnce ==
  ASSUME NEW p \in Paths, NEW q \in Paths, NEW side \in {"l", "r"}, NEW other \in {"l", "r"},
         Child(p, side) = Child(q, other)
  PROVE  p = q /\ side = other
BY DEF Paths, Child

LEMMA NotBelowItself ==
  ASSUME NEW p \in Paths, NEW side \in {"l", "r"}
  PROVE  ~IsPrefix(Child(p, side), p) /\ ~IsPrefix(Child(p, side), <<>>)
<1>1. <<>> \in Paths /\ Len(<<>>) = 0
  BY DEF Paths
<1>2. PICK c \in Paths : c = Child(p, side) /\ Len(c) = Len(p) + 1 /\ Len(p) \in Nat
  BY Children
<1> QED
  BY <1>1, <1>2, PrefixByElement

LEMMA EmptyHasNoPrefix ==
  ASSUME NEW q \in Paths, IsPrefix(q, <<>>)
  PROVE  q = <<>>
<1>1. <<>> \in Paths /\ Len(<<>>) = 0 /\ Len(q) \in Nat
  BY DEF Paths
<1>2. Len(q) <= 0
  BY <1>1, PrefixByElement
<1> QED
  BY <1>1, <1>2 DEF Paths

-----------------------------------------------------------------------------
TreeTypes ==
  /\ array \in Seq(Int \cup {NaN})
  /\ inserting \in 1 .. Len(array) + 1
  /\ place \in Paths /\ DOMAIN nodes \subseteq Paths
  /\ \A p \in DOMAIN nodes : nodes[p] \in 1 .. inserting - 1

(* With a node the nodes above it are in the tree; insert has come through nodes to where it *)
(* looks.                                                                                    *)
Closed == \A m \in DOMAIN nodes : \A q \in Paths : IsPrefix(q, m) => q \in DOMAIN nodes

PlaceReached == \A q \in Paths : IsPrefix(q, place) /\ q # place => q \in DOMAIN nodes

(* The left side of a node is where the comparison of insert came out true, be the values  *)
(* numbers or not.                                                                         *)
NodeSides ==
  \A p \in DOMAIN nodes : \A m \in DOMAIN nodes :
    /\ IsPrefix(Child(p, "l"), m) => LessOrEqual(Value(m), Value(p))
    /\ IsPrefix(Child(p, "r"), m) => ~LessOrEqual(Value(m), Value(p))

PlaceSides ==
  inserting <= Len(array) =>
    \A p \in DOMAIN nodes :
      /\ IsPrefix(Child(p, "l"), place) => LessOrEqual(array[inserting], Value(p))
      /\ IsPrefix(Child(p, "r"), place) => ~LessOrEqual(array[inserting], Value(p))

AllPlaced == \A n \in 1 .. inserting - 1 : \E p \in DOMAIN nodes : nodes[p] = n

TreeInv == TreeTypes /\ Closed /\ PlaceReached /\ NodeSides /\ PlaceSides /\ AllPlaced

LEMMA TreeInitial == TreeInit => TreeInv
<1> SUFFICES ASSUME TreeInit PROVE TreeInv
  OBVIOUS
<1>1. DOMAIN nodes = {} /\ place = <<>> /\ inserting = 1 /\ array \in Seq(Int \cup {NaN})
  BY ArraysAssumption DEF TreeInit
<1>2. TreeTypes
  BY <1>1 DEF TreeTypes, Paths
<1>3. PlaceReached
  BY <1>1, EmptyHasNoPrefix DEF PlaceReached
<1> QED
  BY <1>1, <1>2, <1>3 DEF TreeInv, Closed, NodeSides, PlaceSides, AllPlaced

LEMMA DescendKeeps ==
  ASSUME TreeInv, Descend
  PROVE  TreeInv'
<1>1. /\ array' = array /\ nodes' = nodes /\ inserting' = inserting
      /\ place \in Paths /\ DOMAIN nodes \subseteq Paths
      /\ inserting <= Len(array) /\ place \in DOMAIN nodes
  BY DEF Descend, TreeInv, TreeTypes
<1>2. PICK side \in {"l", "r"} :
        /\ place' = Child(place, side)
        /\ side = "l" => LessOrEqual(array[inserting], Value(place))
        /\ side = "r" => ~LessOrEqual(array[inserting], Value(place))
  BY DEF Descend, Child
<1>3. place' \in Paths
  BY <1>1, <1>2, Children
<1>4. TreeTypes'
  BY <1>1, <1>3 DEF TreeInv, TreeTypes
<1>5. Closed' /\ AllPlaced'
  BY <1>1 DEF TreeInv, Closed, AllPlaced
<1>6. NodeSides'
  BY <1>1 DEF TreeInv, NodeSides, Value
<1>7. PlaceReached'
  <2> SUFFICES ASSUME NEW q \in Paths, IsPrefix(q, place'), q # place'
               PROVE  q \in DOMAIN nodes
    BY <1>1 DEF PlaceReached
  <2>1. IsPrefix(q, place)
    BY <1>1, <1>2, PrefixOfChild
  <2> QED
    BY <1>1, <2>1 DEF TreeInv, PlaceReached
<1>8. ASSUME NEW p \in DOMAIN nodes, NEW s \in {"l", "r"}, IsPrefix(Child(p, s), place')
      PROVE  /\ s = "l" => LessOrEqual(array[inserting], Value(p))
             /\ s = "r" => ~LessOrEqual(array[inserting], Value(p))
  <2>1. Child(p, s) = place' \/ IsPrefix(Child(p, s), place)
    <3>1. Child(p, s) \in Paths
      BY <1>1, <1>8, Children
    <3> QED
      BY <1>1, <1>2, <1>8, <3>1, PrefixOfChild
  <2>2. CASE Child(p, s) = place'
    <3>1. p = place /\ s = side
      BY <1>1, <1>2, <2>2, ChildOnce
    <3> QED
      BY <1>2, <3>1
  <2>3. CASE IsPrefix(Child(p, s), place)
    BY <1>1, <2>3 DEF TreeInv, PlaceSides
  <2> QED
    BY <2>1, <2>2, <2>3
<1>9. PlaceSides'
  <2> SUFFICES ASSUME NEW p \in DOMAIN nodes
               PROVE  /\ IsPrefix(Child(p, "l"), place') => LessOrEqual(array[inserting], Value(p))
                      /\ IsPrefix(Child(p, "r"), place') => ~LessOrEqual(array[inserting], Value(p))
    BY <1>1 DEF PlaceSides, Value
  <2> QED
    BY <1>8
<1> QED
  BY <1>4, <1>5, <1>6, <1>7, <1>9 DEF TreeInv

LEMMA AttachKeeps ==
  ASSUME TreeInv, Attach
  PROVE  TreeInv'
<1>1. /\ array' = array /\ inserting' = inserting + 1 /\ place' = <<>>
      /\ place \in Paths /\ DOMAIN nodes \subseteq Paths /\ <<>> \in Paths
      /\ inserting <= Len(array) /\ place \notin DOMAIN nodes
      /\ inserting \in 1 .. Len(array) + 1 /\ Len(array) \in Nat
  BY DEF Attach, TreeInv, TreeTypes, Paths
<1>2. /\ DOMAIN nodes' = DOMAIN nodes \cup {place} /\ nodes'[place] = inserting
      /\ \A p \in DOMAIN nodes : nodes'[p] = nodes[p] /\ p # place
  BY <1>1 DEF Attach
<1>3. TreeTypes'
  <2>1. \A p \in DOMAIN nodes' : nodes'[p] \in 1 .. inserting' - 1
    BY <1>1, <1>2 DEF TreeInv, TreeTypes
  <2>2. inserting' \in 1 .. Len(array') + 1
    BY <1>1
  <2> QED
    BY <1>1, <1>2, <2>1, <2>2 DEF TreeInv, TreeTypes
<1>4. Closed'
  BY <1>1, <1>2 DEF TreeInv, Closed, PlaceReached
<1>5. PlaceReached'
  BY <1>1, EmptyHasNoPrefix DEF PlaceReached
<1>6. AllPlaced'
  <2> SUFFICES ASSUME NEW n \in 1 .. inserting PROVE \E p \in DOMAIN nodes' : nodes'[p] = n
    BY <1>1 DEF AllPlaced
  <2>1. CASE n = inserting
    BY <1>2, <2>1
  <2>2. CASE n # inserting
    <3>1. n \in 1 .. inserting - 1
      BY <1>1, <2>2
    <3>2. PICK p \in DOMAIN nodes : nodes[p] = n
      BY <3>1 DEF TreeInv, AllPlaced
    <3> QED
      BY <1>2, <3>2
  <2> QED
    BY <2>1, <2>2
<1>7. PlaceSides'
  BY <1>1, <1>2, NotBelowItself DEF PlaceSides
<1>8. ASSUME NEW p \in DOMAIN nodes', NEW m \in DOMAIN nodes', NEW s \in {"l", "r"},
             IsPrefix(Child(p, s), m)
      PROVE  /\ s = "l" => LessOrEqual(Value(m)', Value(p)')
             /\ s = "r" => ~LessOrEqual(Value(m)', Value(p)')
  <2>0. p \in Paths /\ m \in Paths /\ Child(p, s) \in Paths
    BY <1>1, <1>2, Children
  <2>1. p # place
    <3>1. ASSUME p = place PROVE FALSE
      <4>1. IsPrefix(place, Child(place, s))
        <5>1. PICK c \in Paths : c = Child(place, s) /\ Len(c) = Len(place) + 1
                 /\ Len(place) \in Nat /\ \A i \in 1 .. Len(place) : c[i] = place[i]
          BY <1>1, Children
        <5> QED
          BY <1>1, <5>1, PrefixByElement
      <4>2. IsPrefix(place, m) /\ m # place
        BY <1>1, <1>8, <2>0, <3>1, <4>1, PrefixTransitive, NotBelowItself
      <4>3. m \in DOMAIN nodes
        BY <1>2, <4>2
      <4> QED
        BY <1>1, <4>2, <4>3 DEF TreeInv, Closed
    <3> QED
      BY <3>1
  <2>2. p \in DOMAIN nodes /\ Value(p)' = Value(p)
    BY <1>1, <1>2, <2>1 DEF Value
  <2>3. CASE m = place
    <3>1. Value(m)' = array[inserting]
      BY <1>1, <1>2, <2>3 DEF Value
    <3> QED
      BY <1>1, <1>8, <2>2, <2>3, <3>1 DEF TreeInv, PlaceSides
  <2>4. CASE m # place
    <3>1. m \in DOMAIN nodes /\ Value(m)' = Value(m)
      BY <1>1, <1>2, <2>4 DEF Value
    <3> QED
      BY <1>8, <2>2, <3>1 DEF TreeInv, NodeSides
  <2> QED
    BY <2>3, <2>4
<1>9. NodeSides'
  BY <1>8 DEF NodeSides
<1> QED
  BY <1>3, <1>4, <1>5, <1>6, <1>7, <1>9 DEF TreeInv

LEMMA TreeAlways == TreeSpec => []TreeInv
<1>1. TreeInv /\ [TreeStep]_treeVars => TreeInv'
  <2> SUFFICES ASSUME TreeInv, [TreeStep]_treeVars PROVE TreeInv'
    OBVIOUS
  <2>1. CASE UNCHANGED treeVars
    <3>1. array' = array /\ nodes' = nodes /\ inserting' = inserting /\ place' = place
      BY <2>1 DEF treeVars
    <3>2. TreeTypes' /\ Closed' /\ PlaceReached' /\ AllPlaced'
      BY <3>1 DEF TreeInv, TreeTypes, Closed, PlaceReached, AllPlaced
    <3>3. NodeSides' /\ PlaceSides'
      BY <3>1 DEF TreeInv, NodeSides, PlaceSides, Value
    <3> QED
      BY <3>2, <3>3 DEF TreeInv
  <2> QED
    BY <2>1, DescendKeeps, AttachKeeps DEF TreeStep
<1> QED
  BY <1>1, TreeInitial, PTL DEF TreeSpec

(* Numbers compare one way or the other. *)
LEMMA NumbersCompare ==
  ASSUME NEW a \in Int \cup {NaN}, NEW b \in Int \cup {NaN}
  PROVE  /\ a # NaN /\ b # NaN /\ ~LessOrEqual(a, b) => Greater(a, b)
         /\ LessOrEqual(a, b) \/ Greater(a, b) => a # NaN /\ b # NaN
         /\ ~(LessOrEqual(a, b) /\ Greater(a, b))
  BY ArraysAssumption DEF LessOrEqual, Greater

LEMMA Values ==
  ASSUME TreeInv
  PROVE  /\ \A p \in DOMAIN nodes : Value(p) \in Int \cup {NaN} /\ Value(p) \in Range(array)
         /\ ~Inserted => array[inserting] \in Int \cup {NaN} /\ array[inserting] \in Range(array)
<1>1. array \in Seq(Int \cup {NaN}) /\ inserting \in 1 .. Len(array) + 1 /\ Len(array) \in Nat
  BY DEF TreeInv, TreeTypes
<1>2. \A i \in 1 .. Len(array) : array[i] \in Int \cup {NaN} /\ array[i] \in Range(array)
  BY <1>1 DEF Range
<1>3. \A p \in DOMAIN nodes : nodes[p] \in 1 .. Len(array)
  BY <1>1 DEF TreeInv, TreeTypes
<1> QED
  BY <1>1, <1>2, <1>3 DEF Value, Inserted

(* insert of bst.cpp orders a file of numbers at every moment, keeps each value read so far, *)
(* and has the next one at a place that fits, whatever the file.                             *)
THEOREM NumbersAreOrderedAlways == TreeSpec => []NumbersAreOrdered
<1>1. ASSUME TreeInv PROVE NumbersAreOrdered
  <2> SUFFICES ASSUME NaN \notin Range(array)
               PROVE  /\ Ordered
                      /\ \A n \in 1 .. inserting - 1 : \E p \in DOMAIN nodes : nodes[p] = n
                      /\ \A p \in DOMAIN nodes : place # p /\ IsPrefix(p, place) /\ ~Inserted =>
                           IF IsPrefix(Child(p, "l"), place)
                             THEN LessOrEqual(array[inserting], Value(p))
                             ELSE Greater(array[inserting], Value(p))
    BY DEF NumbersAreOrdered
  <2>1. /\ \A p \in DOMAIN nodes : Value(p) \in Int \cup {NaN} /\ Value(p) # NaN
        /\ ~Inserted => array[inserting] \in Int \cup {NaN} /\ array[inserting] # NaN
    BY <1>1, Values
  <2>2. Ordered
    BY <1>1, <2>1, NumbersCompare DEF Ordered, TreeInv, NodeSides
  <2>3. \A n \in 1 .. inserting - 1 : \E p \in DOMAIN nodes : nodes[p] = n
    BY <1>1 DEF TreeInv, AllPlaced
  <2>4. ASSUME NEW p \in DOMAIN nodes, place # p, IsPrefix(p, place), ~Inserted
        PROVE  IF IsPrefix(Child(p, "l"), place) THEN LessOrEqual(array[inserting], Value(p))
                                                 ELSE Greater(array[inserting], Value(p))
    <3>1. p \in Paths /\ place \in Paths /\ inserting <= Len(array)
      BY <1>1, <2>4 DEF TreeInv, TreeTypes, Inserted
    <3>2. IsPrefix(Child(p, "l"), place) \/ IsPrefix(Child(p, "r"), place)
      BY <2>4, <3>1, OneSide
    <3>3. CASE IsPrefix(Child(p, "l"), place)
      BY <1>1, <3>1, <3>3 DEF TreeInv, PlaceSides
    <3>4. CASE ~IsPrefix(Child(p, "l"), place)
      <4>1. ~LessOrEqual(array[inserting], Value(p))
        BY <1>1, <3>1, <3>2, <3>4 DEF TreeInv, PlaceSides
      <4> QED
        BY <2>1, <2>4, <3>4, <4>1, NumbersCompare
    <3> QED
      BY <3>3, <3>4
  <2> QED
    BY <2>2, <2>3, <2>4
<1> QED
  BY <1>1, TreeAlways, PTL

(* verify of bst.cpp accepts exactly the trees of insert that are ordered throughout, for any *)
(* file: a value that is no number shows at the node next to it.                              *)
THEOREM VerifyIsEnoughAlways == TreeSpec => []VerifyIsEnough
<1>1. ASSUME TreeInv PROVE VerifyIsEnough
  <2>0. /\ DOMAIN nodes \subseteq Paths
        /\ \A p \in DOMAIN nodes : Value(p) \in Int \cup {NaN}
    BY <1>1, Values DEF TreeInv, TreeTypes
  <2>1. ASSUME Ordered PROVE verify
    <3>1. \A p \in DOMAIN nodes : \A s \in {"l", "r"} : IsPrefix(Child(p, s), Child(p, s))
      BY <2>0, Children, PrefixOfChild
    <3> QED
      BY <2>1, <3>1 DEF Ordered, verify
  <2>2. ASSUME verify, NEW m \in DOMAIN nodes, m # <<>> PROVE Value(m) # NaN
    <3>1. PICK q \in Paths, side \in {"l", "r"} : m = Child(q, side)
      BY <2>0, <2>2, Above
    <3>2. q \in DOMAIN nodes
      <4>1. IsPrefix(q, m)
        BY <2>0, <3>1, PrefixOfChild, PrefixByElement
      <4> QED
        BY <1>1, <4>1 DEF TreeInv, Closed
    <3> QED
      BY <2>0, <2>2, <3>1, <3>2, NumbersCompare DEF verify
  <2>3. ASSUME verify, NEW p \in DOMAIN nodes, NEW m \in DOMAIN nodes,
               IsPrefix(Child(p, "r"), m)
        PROVE  Greater(Value(m), Value(p))
    <3>1. Child(p, "r") \in Paths /\ Child(p, "r") \in DOMAIN nodes
      BY <1>1, <2>0, <2>3, Children DEF TreeInv, Closed
    <3>2. Value(p) # NaN
      BY <2>0, <2>3, <3>1, NumbersCompare DEF verify
    <3>3. m # <<>>
      BY <2>0, <2>3, NotBelowItself
    <3>4. Value(m) # NaN
      BY <2>2, <2>3, <3>3
    <3>5. ~LessOrEqual(Value(m), Value(p))
      BY <1>1, <2>3 DEF TreeInv, NodeSides
    <3> QED
      BY <2>0, <3>2, <3>4, <3>5, NumbersCompare
  <2>4. ASSUME verify PROVE Ordered
    BY <1>1, <2>3, <2>4 DEF Ordered, TreeInv, NodeSides
  <2> QED
    BY <2>1, <2>4 DEF VerifyIsEnough
<1> QED
  BY <1>1, TreeAlways, PTL

-----------------------------------------------------------------------------
(* The sorts, of KNN and of merge.cpp: whichever program a behaviour is of. *)

LEMMA StandaloneKeepsRuns ==
  ASSUME RunsInv, StandaloneStep
  PROVE  RunsInv'
<1>1. PICK id \in DOMAIN sorts :
        \/ StandaloneBase(id) \/ StandaloneSerial(id)
        \/ StandaloneLeft(id) \/ StandaloneRight(id) \/ StandaloneMerge(id)
  BY DEF StandaloneStep
<1>2. /\ train' = train /\ SortedCall(train, sorts[id])
      /\ sorts[id].begin \in Nat /\ sorts[id].end \in Nat
  BY <1>1 DEF StandaloneBase, StandaloneSerial, StandaloneLeft, StandaloneRight,
              StandaloneFork, StandaloneMerge, RunsInv, SortedCall
<1>3. CASE StandaloneBase(id)
  <2>1. PICK out : out = <<sorts[id].a[sorts[id].begin + 1]>>
    OBVIOUS
  <2>2. Returns(sorts', id, out) /\ Size(sorts[id]) = 1
    BY <1>3, <2>1 DEF StandaloneBase, Returns
  <2> QED
    BY <1>2, <2>1, <2>2, SerialKeepsRuns
<1>4. CASE StandaloneSerial(id)
  <2>1. PICK out : out = SerialSort(train, sorts[id].a, sorts[id].begin, sorts[id].end,
                                    sorts[id].dimension)
    OBVIOUS
  <2>2. Returns(sorts', id, out) /\ Size(sorts[id]) >= 2
    BY <1>4, <2>1 DEF StandaloneSerial, Returns
  <2> QED
    BY <1>2, <2>1, <2>2, SerialKeepsRuns
<1>5. ASSUME NEW side \in Sides, NEW begin, NEW end, NEW pc \in {"left", "right"},
             StandaloneFork(id, side, begin, end, pc), Size(sorts[id]) >= 2,
             \A s \in Sides : Beyond(pc, s) => s = side \/ Beyond(sorts[id].pc, s),
             side = "l" => begin = sorts[id].begin /\ end = Mid(sorts[id].begin, sorts[id].end),
             side = "r" => begin = Mid(sorts[id].begin, sorts[id].end) /\ end = sorts[id].end
      PROVE  RunsInv'
  <2>1. CASE sorts' = sorts
    BY <1>2, <2>1 DEF RunsInv, SortsShape
  <2>2. CASE sorts' # sorts
    <3>1. PICK new : new = SortCall(sorts[id].a, begin, end, sorts[id].depth + 1,
                                    sorts[id].dimension, FALSE)
      OBVIOUS
    <3>2. IsSortCall(new) /\ new.pc = "call"
      BY <3>1, NewCall DEF SortCall
    <3>3. IsHalf(side, sorts[id], new)
      BY <1>5, <3>1 DEF SortCall, IsHalf
    <3>4. Forks(id, Half(id, side), new, pc)
      <4>1. sorts' = Put([sorts EXCEPT ![id].pc = pc], Half(id, side),
                         SortCall(sorts[id].a, begin, end, sorts[id].depth + 1,
                                  sorts[id].dimension, FALSE))
        BY <1>5, <2>2 DEF StandaloneFork
      <4> QED
        BY <3>1, <4>1 DEF Forks
    <3> QED
      BY <1>2, <1>5, <3>2, <3>3, <3>4, ForkKeepsRuns
  <2> QED
    BY <2>1, <2>2
<1>6. CASE StandaloneLeft(id)
  <2>1. /\ Size(sorts[id]) >= 2
        /\ StandaloneFork(id, "l", sorts[id].begin,
                          sorts[id].begin + Size(sorts[id]) \div 2, "left")
    BY <1>6 DEF StandaloneLeft
  <2>2. sorts[id].begin + Size(sorts[id]) \div 2 = Mid(sorts[id].begin, sorts[id].end)
    BY DEF Size, Mid
  <2> QED
    BY <1>5, <2>1, <2>2 DEF Sides, Beyond
<1>7. CASE StandaloneRight(id)
  <2>1. /\ sorts[id].pc = "left"
        /\ StandaloneFork(id, "r", sorts[id].begin + Size(sorts[id]) \div 2,
                          sorts[id].end, "right")
    BY <1>7 DEF StandaloneRight
  <2>2. sorts[id].begin + Size(sorts[id]) \div 2 = Mid(sorts[id].begin, sorts[id].end)
    BY DEF Size, Mid
  <2>3. Size(sorts[id]) >= 2
    BY <1>2, <2>1 DEF SortedCall, Size
  <2> QED
    BY <1>5, <2>1, <2>2, <2>3 DEF Sides, Beyond
<1>8. CASE StandaloneMerge(id)
  <2>1. Merges(id)
    BY <1>8 DEF StandaloneMerge, Merges
  <2> QED
    BY <1>2, <2>1, MergeKeepsRuns
<1> QED
  BY <1>1, <1>3, <1>4, <1>6, <1>7, <1>8

(* In merge.cpp the depth of a call is the length of its name, and forks end at ForkDepth. *)
NamedByDepth(id, depth) ==
  /\ id[1] = <<>> /\ id = <<id[1], id[2]>> /\ id[2] \in Seq(Sides)
  /\ depth = Len(id[2]) /\ depth <= ForkDepth

DepthFits(id, depth, pc) == NamedByDepth(id, depth) /\ (pc = "left" => depth < ForkDepth)

DepthsInv == \A id \in DOMAIN sorts : DepthFits(id, sorts[id].depth, sorts[id].pc)

LEMMA HalfDepth ==
  ASSUME NEW id, NEW depth, NamedByDepth(id, depth), depth < ForkDepth, NEW side \in Sides
  PROVE  NamedByDepth(Half(id, side), depth + 1)
<1>1. PICK x \in Seq(Sides) : x = id[2]
  BY DEF NamedByDepth
<1>2. /\ Append(x, side) \in Seq(Sides) /\ Len(Append(x, side)) = Len(x) + 1 /\ Len(x) \in Nat
  BY AppendProperties, LenProperties
<1>3. depth + 1 <= ForkDepth
  BY <1>1, <1>2, ForkDepthAssumption DEF NamedByDepth
<1> QED
  BY <1>1, <1>2, <1>3 DEF NamedByDepth, Half

LEMMA StandaloneKeepsDepths ==
  ASSUME RunsInv, DepthsInv, StandaloneStep
  PROVE  DepthsInv'
<1>1. PICK id \in DOMAIN sorts :
        \/ StandaloneBase(id) \/ StandaloneSerial(id)
        \/ StandaloneLeft(id) \/ StandaloneRight(id) \/ StandaloneMerge(id)
  BY DEF StandaloneStep
<1>2. ASSUME NEW f, NEW out, Returns(f, id, out)
      PROVE  /\ DOMAIN f = DOMAIN sorts
             /\ \A i \in DOMAIN sorts : DepthFits(i, f[i].depth, f[i].pc)
  <2>1. /\ DOMAIN f = DOMAIN sorts
        /\ \A i \in DOMAIN sorts : i # id => f[i] = sorts[i]
        /\ f[id].pc = "returned" /\ f[id].depth = sorts[id].depth
    BY <1>2, GoneBack DEF RunsInv, SameRange
  <2> QED
    BY <2>1 DEF DepthsInv, DepthFits
<1>3. CASE StandaloneBase(id)
  <2>1. PICK out : Returns(sorts', id, out)
    BY <1>3 DEF StandaloneBase, Returns
  <2> QED
    BY <1>2, <2>1 DEF DepthsInv
<1>4. CASE StandaloneSerial(id)
  <2>1. PICK out : Returns(sorts', id, out)
    BY <1>4 DEF StandaloneSerial, Returns
  <2> QED
    BY <1>2, <2>1 DEF DepthsInv
<1>5. ASSUME NEW side \in Sides, NEW begin, NEW end, NEW pc \in {"left", "right"},
             StandaloneFork(id, side, begin, end, pc), sorts[id].depth < ForkDepth
      PROVE  DepthsInv'
  <2>1. CASE sorts' = sorts
    BY <2>1 DEF DepthsInv
  <2>2. CASE sorts' # sorts
    <3>1. PICK new : new = SortCall(sorts[id].a, begin, end, sorts[id].depth + 1,
                                    sorts[id].dimension, FALSE)
      OBVIOUS
    <3>2. IsSortCall(new) /\ new.depth = sorts[id].depth + 1 /\ new.pc = "call"
      BY <3>1, NewCall DEF SortCall
    <3>3. Forks(id, Half(id, side), new, pc)
      BY <1>5, <2>2, <3>1 DEF StandaloneFork, Forks
    <3>4. ForkAdds(id, Half(id, side), new, pc)
      BY <3>2, <3>3, Forked DEF RunsInv, SortPcs
    <3>5. NamedByDepth(Half(id, side), new.depth)
      BY <1>5, <3>2, HalfDepth DEF DepthsInv, DepthFits
    <3>6. \A i \in DOMAIN sorts : i # Half(id, side) =>
            /\ sorts'[i].depth = sorts[i].depth
            /\ i # id => sorts'[i].pc = sorts[i].pc
      BY <3>4 DEF ForkAdds, SameRange
    <3> QED
      BY <1>5, <3>2, <3>4, <3>5, <3>6 DEF DepthsInv, DepthFits, ForkAdds
  <2> QED
    BY <2>1, <2>2
<1>6. CASE StandaloneLeft(id)
  BY <1>5, <1>6 DEF StandaloneLeft, Sides
<1>7. CASE StandaloneRight(id)
  BY <1>5, <1>7 DEF StandaloneRight, Sides, DepthsInv, DepthFits
<1>8. CASE StandaloneMerge(id)
  <2>1. PICK f, out : Returns(f, id, out) /\ sorts' = Drop(f, {Half(id, "l"), Half(id, "r")})
    BY <1>8 DEF StandaloneMerge, Returns
  <2> QED
    BY <1>2, <2>1 DEF DepthsInv, Drop
<1> QED
  BY <1>1, <1>3, <1>4, <1>6, <1>7, <1>8

(* The names of n elements are told apart by sets of numbers up to n + 1: the last one says *)
(* how long the name is, the others where it goes left.                                     *)
Code(p) == {i \in 1 .. Len(p) : p[i] = "l"} \cup {Len(p) + 1}

LEMMA CodesApart ==
  ASSUME NEW p \in Seq(Sides), NEW q \in Seq(Sides), Code(p) = Code(q)
  PROVE  p = q
<1>1. Len(p) \in Nat /\ Len(q) \in Nat
  BY LenProperties
<1>2. Len(p) + 1 <= Len(q) + 1
  BY <1>1 DEF Code
<1>3. Len(q) + 1 <= Len(p) + 1
  BY <1>1 DEF Code
<1>4. Len(p) = Len(q)
  BY <1>1, <1>2, <1>3
<1>5. ASSUME NEW i \in 1 .. Len(p) PROVE p[i] = q[i]
  <2>1. i # Len(p) + 1 /\ i \in 1 .. Len(q)
    BY <1>1, <1>4
  <2>2. p[i] = "l" <=> q[i] = "l"
    BY <1>4, <2>1 DEF Code
  <2>3. p[i] \in Sides /\ q[i] \in Sides
    BY <2>1
  <2> QED
    BY <2>2, <2>3 DEF Sides
<1> QED
  BY <1>4, <1>5, SeqEqual

LEMMA CodesCount ==
  ASSUME NEW n \in Nat
  PROVE  /\ IsFiniteSet((SUBSET (1 .. n + 1)) \ {{}, {1}})
         /\ Cardinality((SUBSET (1 .. n + 1)) \ {{}, {1}}) = 2 ^ (n + 1) - 2
<1>1. PICK S : S = 1 .. n + 1
  OBVIOUS
<1>2. IsFiniteSet(S) /\ Cardinality(S) = n + 1
  <2>1. 1 \in Int /\ n + 1 \in Int
    OBVIOUS
  <2>2. IsFiniteSet(S) /\ Cardinality(S) = IF 1 > n + 1 THEN 0 ELSE n + 1 - 1 + 1
    BY <1>1, <2>1, FS_Interval
  <2> QED
    BY <2>2
<1>3. PICK T : T = SUBSET S
  OBVIOUS
<1>4. IsFiniteSet(T) /\ Cardinality(T) = 2 ^ (n + 1)
  BY <1>2, <1>3, FS_SUBSET
<1>5. {} \in T /\ {1} \in T \ {{}} /\ Cardinality(T) \in Nat
  BY <1>1, <1>3, <1>4, FS_CardinalityType
<1>6. IsFiniteSet(T \ {{}}) /\ Cardinality(T \ {{}}) = Cardinality(T) - 1
  BY <1>4, <1>5, FS_RemoveElement
<1>7. PICK U : U = T \ {{}}
  OBVIOUS
<1>8. IsFiniteSet(U \ {{1}}) /\ Cardinality(U \ {{1}}) = Cardinality(U) - 1
  BY <1>5, <1>6, <1>7, FS_RemoveElement
<1>9. U \ {{1}} = (SUBSET (1 .. n + 1)) \ {{}, {1}}
  BY <1>1, <1>3, <1>7
<1>10. Cardinality(U \ {{1}}) = Cardinality(T) - 2
  BY <1>5, <1>6, <1>7, <1>8
<1> QED
  BY <1>4, <1>8, <1>9, <1>10

LEMMA DepthsBoundThreads ==
  ASSUME DepthsInv
  PROVE  Cardinality(StandaloneThreads) <= 2 ^ (ForkDepth + 1) - 2
<1>1. PICK T : T = (SUBSET (1 .. ForkDepth + 1)) \ {{}, {1}}
  OBVIOUS
<1>2. PICK S : S = StandaloneThreads
  OBVIOUS
<1> DEFINE g == [id \in S |-> Code(id[2])]
<1>3. ASSUME NEW id \in S
      PROVE  /\ id[1] = <<>> /\ id = <<id[1], id[2]>> /\ id[2] \in Seq(Sides)
             /\ Code(id[2]) \in T
  <2>1. /\ id[1] = <<>> /\ id = <<id[1], id[2]>> /\ id[2] \in Seq(Sides)
        /\ Len(id[2]) <= ForkDepth
    BY <1>2 DEF StandaloneThreads, DepthsInv, DepthFits, NamedByDepth
  <2>2. PICK p \in Seq(Sides) : p = id[2]
    BY <2>1
  <2>3. p # <<>>
    <3>1. id # Root
      BY <1>2 DEF StandaloneThreads
    <3> QED
      BY <2>1, <2>2, <3>1 DEF Root
  <2>4. Len(p) \in 1 .. ForkDepth
    BY <2>1, <2>2, <2>3, LenProperties, EmptySeq, ForkDepthAssumption
  <2>5. Len(p) + 1 \in Code(p) /\ Len(p) + 1 # 1
    BY <2>4, ForkDepthAssumption DEF Code
  <2>6. Code(p) \subseteq 1 .. ForkDepth + 1
    BY <2>4, ForkDepthAssumption DEF Code
  <2> QED
    BY <1>1, <2>1, <2>2, <2>5, <2>6
<1>4. g \in Injection(S, T)
  <2>1. g \in [S -> T]
    BY <1>3
  <2>2. \A x, y \in S : g[x] = g[y] => x = y
    BY <1>3, CodesApart
  <2> HIDE DEF g
  <2> QED
    BY <2>1, <2>2 DEF Injection, IsInjective
<1>5. IsFiniteSet(T) /\ Cardinality(T) = 2 ^ (ForkDepth + 1) - 2
  BY <1>1, CodesCount, ForkDepthAssumption
<1>6. Cardinality(S) <= Cardinality(T)
  BY <1>4, <1>5, FS_Injection
<1> QED
  BY <1>2, <1>5, <1>6

ProgramsInv == RunsInv /\ (program = "merge" => DepthsInv)

LEMMA StandaloneStarts == StandaloneInit => RunsInv /\ DepthsInv
<1> SUFFICES ASSUME StandaloneInit PROVE RunsInv /\ DepthsInv
  OBVIOUS
<1>1. train \in Datasets /\ train \in Seq([1 .. num_dimensions -> Nat])
  BY DatasetsAssumption DEF StandaloneInit
<1>2. Len(train) \in 0 .. Len(train)
  BY <1>1
<1>3. RunsInv
  BY <1>1, <1>2, RunsAsked DEF StandaloneInit
<1>4. PICK call : call = SortCall(Rows(train), 0, Len(train), 0, 0, FALSE)
  OBVIOUS
<1>5. sorts = [y \in {Root} |-> call] /\ call.depth = 0 /\ call.pc = "call"
  BY <1>4 DEF StandaloneInit, Put, SortCall
<1>6. NamedByDepth(Root, 0)
  BY ForkDepthAssumption DEF NamedByDepth, Root
<1>7. DepthsInv
  BY <1>5, <1>6 DEF DepthsInv, DepthFits
<1> QED
  BY <1>3, <1>7

LEMMA ProgramsInvInit == Init => ProgramsInv
<1>1. ASSUME Init PROVE SortInit \/ StandaloneInit
  BY <1>1 DEF Init
<1>2. ASSUME Init, program = "merge" PROVE StandaloneInit
  BY <1>2 DEF Init
<1> QED
  BY <1>1, <1>2, RunsInvInit, StandaloneStarts DEF ProgramsInv

LEMMA ProgramsInvStep == ProgramsInv /\ [Next]_allVars => ProgramsInv'
<1> SUFFICES ASSUME ProgramsInv, [Next]_allVars PROVE ProgramsInv'
  OBVIOUS
<1>1. CASE UNCHANGED <<program, train, sorts>>
  <2>1. RunsInv'
    BY <1>1 DEF ProgramsInv, RunsInv, SortsShape
  <2>2. program' = "merge" => DepthsInv'
    BY <1>1 DEF ProgramsInv, DepthsInv
  <2> QED
    BY <2>1, <2>2 DEF ProgramsInv
<1>2. CASE program = "merge_sort" /\ SortStep /\ UNCHANGED program
  BY <1>2, SortKeepsRuns DEF ProgramsInv
<1>3. CASE program = "merge" /\ StandaloneStep /\ UNCHANGED program
  BY <1>3, StandaloneKeepsRuns, StandaloneKeepsDepths DEF ProgramsInv
<1>4. CASE SortTaken /\ UNCHANGED program
  BY <1>1, <1>4 DEF SortTaken
<1>5. CASE Step
  BY <1>1, <1>2, <1>3, <1>4, <1>5 DEF Step, sortVars
<1>6. CASE UNCHANGED allVars
  BY <1>1, <1>6 DEF allVars, sortVars
<1> QED
  BY <1>5, <1>6 DEF Next, Over

(* In merge.cpp as in KNN, every call that has returned holds its range in stable order. *)
THEOREM SortedRunsOfPrograms == Spec => []SortedRuns
<1>1. ProgramsInv => SortedRuns
  BY RunsSorted DEF ProgramsInv
<1> QED
  BY <1>1, ProgramsInvInit, ProgramsInvStep, PTL DEF Spec

(* merge.cpp, which asks no budget, has at most 2^(ForkDepth + 1) - 2 threads at a time, *)
(* whatever array it sorts: no more than a tree of that depth has nodes below its root.   *)
THEOREM ThreadsBoundedAlways == Spec => []ThreadsBounded
<1>1. ProgramsInv => ThreadsBounded
  BY DepthsBoundThreads DEF ProgramsInv, ThreadsBounded
<1> QED
  BY <1>1, ProgramsInvInit, ProgramsInvStep, PTL DEF Spec
=============================================================================
