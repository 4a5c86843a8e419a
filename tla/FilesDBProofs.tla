--------------------------- MODULE FilesDBProofs ---------------------------
(***************************************************************************)
(* Theorems about FilesDB, for any number of goroutines, dids, datasets,   *)
(* directories and files, either driver and any set of faults.             *)
(***************************************************************************)
EXTENDS FilesDB, Basics

USE DEF tables, inserts, reads, locks

LEMMA NextFileInTodo ==
    ASSUME TypeOK, NEW r \in Requests, todo[r] # {}
    PROVE  NextFile(r) \in todo[r]
<1>1. todo[r] \subseteq Nat
  BY FilesAssumption DEF TypeOK
<1>2. \E f \in todo[r] : \A g \in todo[r] : f <= g
  BY <1>1, LeastExists
<1> QED
  BY <1>2 DEF NextFile

\* A call that returns leaves the types alone, whatever became of the tables.
LEMMA ReturnType ==
    ASSUME TypeOK, TablesOK', NEW r \in Requests, pc[r] # "idle",
           NEW a \in {"nil", "error"}, Return(r, a)
    PROVE  TypeOK'
  BY DEF TypeOK, Return, NoRows

LEMMA RollbackType ==
    ASSUME TypeOK, NEW r \in Requests, pc[r] # "idle", Rollback(r)
    PROVE  TypeOK'
<1>1. TablesOK'
  BY DEF TypeOK, TablesOK, Rollback
<1>2. \E a \in {"nil", "error"} : Return(r, a)
  BY DEF Rollback
<1> QED
  BY <1>1, <1>2, ReturnType

\* The files it inserts are those of its walk, its did and dataset its own.
LEMMA ApplyType ==
    ASSUME TypeOK, NEW r \in Requests, pc[r] # "idle", Apply(r)
    PROVE  TablesOK'
<1>1. call[r].did \in Dids /\ call[r].dataset \in Datasets /\ ins[r].meta \subseteq Dids
  BY DEF TypeOK, Calls
<1>2. [did |-> call[r].did, dataset |-> call[r].dataset] \in Rows
  BY <1>1 DEF Rows
<1> QED
  BY <1>1, <1>2 DEF Apply, TypeOK, TablesOK

\* A statement that inserts well-typed rows.
LEMMA InsertType ==
    ASSUME TypeOK, NEW r \in Requests, pc[r] # "idle",
           NEW dup \in BOOLEAN, NEW rows, NEW next, NEW left,
           rows \in [meta : SUBSET Dids, datasets : SUBSET Datasets, files : SUBSET Files],
           next \in {"datasets", "files"}, left \in SUBSET Files,
           Insert(r, dup, rows, next, left)
    PROVE  TypeOK'
<1>1. CASE Rollback(r)
  BY <1>1, RollbackType
<1>2. CASE ~Rollback(r)
  <2>1. UNCHANGED <<tables, conns, call, ret, reads>>
    BY <1>2 DEF Insert
  <2>2. ins' = ins \/ ins' = [ins EXCEPT ![r] = rows]
    BY <1>2 DEF Insert
  <2>3. writer' \in {r, writer} /\ pc' = [pc EXCEPT ![r] = next]
        /\ todo' = [todo EXCEPT ![r] = left] /\ shared' = shared \ {r}
    BY <1>2 DEF Insert
  <2>4. TablesOK'
    BY <2>1 DEF TypeOK, TablesOK
  <2> QED
    BY <2>1, <2>2, <2>3, <2>4 DEF TypeOK
<1> QED
  BY <1>1, <1>2

\* What mysql breaks off is the statement of an open transaction.
LEMMA BlockedInTx ==
    ASSUME NEW r \in Requests, Deadlock(r)
    PROVE  InTx(r) /\ Rollback(r)
<1>1. WaitsFor(r) # {} /\ Driver = "mysql" /\ Rollback(r)
  BY DEF Deadlock, Circle
<1> QED
  BY <1>1 DEF WaitsFor, Holders, Sharers, SameKey, InTx

\* So is one that meets another's row.
LEMMA AskingInTx ==
    ASSUME NEW r \in Requests, AskShared(r)
    PROVE  InTx(r) /\ UNCHANGED inserts
  BY DEF AskShared, Holders, InTx

LEMMA InsertStepType ==
    ASSUME TypeOK, NEW r \in Requests, InsertStep(r)
    PROVE  TypeOK'
<1>1. CASE FindDID(r)
  <2>1. CASE Return(r, "nil") /\ UNCHANGED tables
    BY <1>1, <2>1, ReturnType DEF FindDID, TypeOK, TablesOK
  <2>2. CASE pc' = [pc EXCEPT ![r] = "begin"]
             /\ UNCHANGED <<tables, locks, conns, call, ins, todo, ret, reads>>
    BY <1>1, <2>2 DEF FindDID, TypeOK, TablesOK
  <2> QED
    BY <1>1, <2>1, <2>2 DEF FindDID
<1>2. CASE Begin(r)
  BY <1>2 DEF Begin, TypeOK, TablesOK
<1>3. CASE BeginFails(r)
  <2>1. TablesOK'
    BY <1>3 DEF BeginFails, TypeOK, TablesOK
  <2> QED
    BY <1>3, <2>1, ReturnType DEF BeginFails
<1>4. CASE InsertMetadata(r)
  <2> DEFINE rows == [ins[r] EXCEPT !.meta = {call[r].did}]
  <2>1. pc[r] # "idle" /\ Insert(r, call[r].did \in meta, rows, "datasets", {})
    BY <1>4 DEF InsertMetadata
  <2>2. rows \in [meta : SUBSET Dids, datasets : SUBSET Datasets, files : SUBSET Files]
    <3>1. {call[r].did} \in SUBSET Dids
      BY <2>1 DEF TypeOK, Calls
    <3>2. ins[r] \in [meta : SUBSET Dids, datasets : SUBSET Datasets, files : SUBSET Files]
      BY DEF TypeOK
    <3> QED
      BY <3>1, <3>2
  <2>3. (call[r].did \in meta) \in BOOLEAN /\ {} \in SUBSET Files
    OBVIOUS
  <2> HIDE DEF rows
  <2> QED
    BY <2>1, <2>2, <2>3, InsertType
<1>5. CASE InsertDataset(r)
  <2> DEFINE rows == [ins[r] EXCEPT !.datasets = {call[r].dataset}]
  <2>1. pc[r] # "idle"
        /\ Insert(r, datasets[call[r].dataset] # None, rows, "files", call[r].walk)
    BY <1>5 DEF InsertDataset
  <2>2. call[r].dataset \in Datasets /\ call[r].walk \in SUBSET Files
    BY <2>1 DEF TypeOK, Calls
  <2>3. rows \in [meta : SUBSET Dids, datasets : SUBSET Datasets, files : SUBSET Files]
    BY <2>2 DEF TypeOK
  <2>4. (datasets[call[r].dataset] # None) \in BOOLEAN
    OBVIOUS
  <2> HIDE DEF rows
  <2> QED
    BY <2>1, <2>2, <2>3, <2>4, InsertType
<1>6. CASE InsertFile(r)
  <2> DEFINE f == NextFile(r)
             rows == [ins[r] EXCEPT !.files = @ \cup {f}]
  <2>1. pc[r] # "idle" /\ Insert(r, files[f] # None, rows, "files", todo[r] \ {f})
    BY <1>6 DEF InsertFile
  <2>2. f \in Files /\ todo[r] \in SUBSET Files
    BY <1>6, NextFileInTodo DEF InsertFile, TypeOK
  <2>3. rows \in [meta : SUBSET Dids, datasets : SUBSET Datasets, files : SUBSET Files]
    BY <2>2 DEF TypeOK
  <2>4. (files[f] # None) \in BOOLEAN /\ todo[r] \ {f} \in SUBSET Files
    BY <2>2
  <2> HIDE DEF rows, f
  <2> QED
    BY <2>1, <2>3, <2>4, InsertType
<1>7. CASE ExecFails(r) \/ LockTimeout(r) \/ Deadlock(r)
  BY <1>7, RollbackType, BlockedInTx DEF ExecFails, LockTimeout, InTx
<1>8. CASE Commit(r)
  BY <1>8, ApplyType, ReturnType DEF Commit
<1>9. CASE CommitFails(r)
  <2>1. TablesOK'
    BY <1>9, ApplyType DEF CommitFails, TypeOK, TablesOK
  <2> QED
    BY <1>9, <2>1, ReturnType DEF CommitFails
<1>10. CASE AskShared(r)
  BY <1>10 DEF AskShared, TypeOK, TablesOK
<1> QED
  BY <1>1, <1>2, <1>3, <1>4, <1>5, <1>6, <1>7, <1>8, <1>9, <1>10 DEF InsertStep, Statement

\* getFiles asks for a did and answers with file names; it writes nothing.
LEMMA ReadStepType ==
    ASSUME TypeOK, NEW q \in Readers, ReadStep(q) \/ \E did \in Dids : ReadCall(q, did)
    PROVE  TypeOK'
<1>1. TablesOK'
  BY DEF TypeOK, TablesOK, ReadStep, ReadStatement, ReadCall, ReadBegin, ReadQuery, ReadDone, ReadFails
<1>2. CASE \E did \in Dids : ReadCall(q, did)
  BY <1>1, <1>2 DEF TypeOK, ReadCall
<1>3. CASE ReadBegin(q)
  BY <1>1, <1>3 DEF TypeOK, ReadBegin
<1>4. CASE ReadQuery(q)
  BY <1>1, <1>4 DEF TypeOK, ReadQuery, FilesOf
<1>5. CASE ReadDone(q)
  BY <1>1, <1>5 DEF TypeOK, ReadDone
<1>6. CASE ReadFails(q)
  BY <1>1, <1>6 DEF TypeOK, ReadFails
<1> QED
  BY <1>2, <1>3, <1>4, <1>5, <1>6 DEF ReadStep, ReadStatement

LEMMA CrashType ==
    ASSUME TypeOK, Crash
    PROVE  TypeOK'
  BY DEF TypeOK, TablesOK, Crash, NoRows

\* No step of the model leaves the types.
LEMMA TypeStep ==
    ASSUME TypeOK, [Next]_vars
    PROVE  TypeOK'
<1>1. CASE \E r \in Requests, did \in Dids, ds \in Datasets, p \in Paths :
              \E w \in Walks(p) : Call(r, did, ds, w)
  <2>1. PICK r \in Requests, did \in Dids, ds \in Datasets, p \in Paths :
              \E w \in Walks(p) : Call(r, did, ds, w)
    BY <1>1
  <2>2. PICK w \in Walks(p) : Call(r, did, ds, w)
    BY <2>1
  <2>3. [did |-> did, dataset |-> ds, walk |-> w] \in Calls
    BY UnderAssumption DEF Calls, Walks
  <2> QED
    BY <2>2, <2>3 DEF Call, TypeOK, TablesOK
<1>2. CASE \E r \in Requests : InsertStep(r)
  BY <1>2, InsertStepType
<1>3. CASE \E q \in Readers, did \in Dids : ReadCall(q, did)
  BY <1>3, ReadStepType
<1>4. CASE \E q \in Readers : ReadStep(q)
  BY <1>4, ReadStepType
<1>5. CASE Crash
  BY <1>5, CrashType
<1>6. CASE UNCHANGED vars
  BY <1>6 DEF vars, TypeOK, TablesOK
<1> QED
  BY <1>1, <1>2, <1>3, <1>4, <1>5, <1>6 DEF Next, Finished

\* Type correctness: every reachable state is in its types.
THEOREM TypeCorrect == Spec => []TypeOK
<1>1. Init => TypeOK
  BY DEF Init, TypeOK, TablesOK, NoRows
<1>2. TypeOK /\ [Next]_vars => TypeOK'
  BY TypeStep
<1> QED
  BY <1>1, <1>2, PTL DEF Spec
----------------------------------------------------------------------------
(* The inductive invariant: what open transactions hold and know *)

Inv == TypeOK /\ KeysExclusive /\ AllStaged

Holding(r) == pc[r] \in {"datasets", "files"}

\* A call that a step does not touch stays as it was.
LEMMA StagedFrame ==
    ASSUME NEW s \in Requests, Staged(s), UNCHANGED tables,
           pc'[s] = pc[s], call'[s] = call[s], ins'[s] = ins[s], todo'[s] = todo[s],
           Driver = "sqlite3" /\ Holding(s) => writer' = writer
    PROVE  Staged(s)'
  BY DEF Staged, Holding

\* Two open transactions cannot both hold sqlite3's write lock.
LEMMA OneHolder ==
    ASSUME AllStaged, Driver = "sqlite3", NEW r \in Requests, NEW s \in Requests,
           Holding(r), Holding(s)
    PROVE  r = s
  BY DEF AllStaged, Staged, Holding

\* The end of a transaction gives its rows up; if it was committed, they are
\* in the tables now, and nobody else held any of them.
LEMMA ReturnInv ==
    ASSUME Inv, NEW r \in Requests, NEW a, Return(r, a),
           UNCHANGED tables \/ (Apply(r) /\ Holding(r))
    PROVE  KeysExclusive' /\ AllStaged'
<1>1. /\ pc' = [pc EXCEPT ![r] = "done"]
      /\ ins' = [ins EXCEPT ![r] = NoRows]
      /\ todo' = [todo EXCEPT ![r] = {}]
      /\ UNCHANGED call
      /\ writer' = IF writer = r THEN None ELSE writer
  BY DEF Return
<1>2. KeysExclusive'
  <2>1. ASSUME NEW x \in Requests, Driver = "sqlite3", ins'[x] # NoRows PROVE writer' = x
    <3>1. x # r /\ ins'[x] = ins[x]
      BY <1>1, <2>1 DEF Inv, TypeOK
    <3> QED
      BY <1>1, <2>1, <3>1 DEF Inv, KeysExclusive
  <2>2. ASSUME NEW x \in Requests, NEW y \in Requests \ {x}
        PROVE  /\ ins'[x].meta \cap ins'[y].meta = {}
               /\ ins'[x].datasets \cap ins'[y].datasets = {}
               /\ ins'[x].files \cap ins'[y].files = {}
    <3>1. ins'[x] \in {ins[x], NoRows} /\ ins'[y] \in {ins[y], NoRows}
      BY <1>1 DEF Inv, TypeOK
    <3> QED
      BY <3>1 DEF Inv, KeysExclusive, NoRows
  <2> QED
    BY <2>1, <2>2 DEF KeysExclusive
<1>3. Staged(r)'
  BY <1>1 DEF Inv, TypeOK, Staged
<1>4. ASSUME NEW s \in Requests, s # r PROVE Staged(s)'
  <2>1. pc'[s] = pc[s] /\ ins'[s] = ins[s] /\ todo'[s] = todo[s] /\ call'[s] = call[s]
    BY <1>1, <1>4 DEF Inv, TypeOK
  <2>2. Driver = "sqlite3" /\ Holding(s) => writer' = writer
    BY <1>1, <1>4 DEF Inv, AllStaged, Staged, Holding
  <2>3. Staged(s)
    BY DEF Inv, AllStaged
  <2>4. CASE UNCHANGED tables
    BY <2>1, <2>2, <2>3, <2>4, StagedFrame
  <2>5. CASE Apply(r) /\ Holding(r)
    <3>1. /\ ins[r].meta \cap ins[s].meta = {}
          /\ ins[r].datasets \cap ins[s].datasets = {}
          /\ ins[r].files \cap ins[s].files = {}
      BY <1>4 DEF Inv, KeysExclusive
    <3>2. meta' = meta \cup ins[r].meta
          /\ \A d \in Datasets : datasets'[d] = (IF d \in ins[r].datasets THEN call[r].did ELSE datasets[d])
          /\ \A f \in Files : files'[f] = (IF f \in ins[r].files
                 THEN [did |-> call[r].did, dataset |-> call[r].dataset] ELSE files[f])
      BY <2>5 DEF Apply
    <3>3. call[r] \in Calls /\ call[r].did # None /\ [did |-> call[r].did, dataset |-> call[r].dataset] # None
      <4>1. call[r] \in Calls
        BY <2>5 DEF Inv, TypeOK, Holding
      <4>2. call[r].did \in Dids /\ [did |-> call[r].did, dataset |-> call[r].dataset] \in Rows
        BY <4>1 DEF Calls, Rows
      <4> QED
        BY <4>1, <4>2, ProcsAssumption, NoneIsNoRow DEF Rows
    <3>4. CASE ~Holding(s)
      BY <2>1, <2>3, <3>4 DEF Staged, Holding
    <3>5. CASE Holding(s)
      <4>1. /\ ins[s].datasets \subseteq Datasets /\ ins[s].files \subseteq Files
            /\ call[s].dataset \in Datasets /\ call[s].walk \subseteq Files
        BY <3>5 DEF Inv, TypeOK, Calls, Holding
      <4>2. Driver = "sqlite3" => writer' = s
        BY <2>2, <2>3, <3>5 DEF Staged, Holding
      <4>3. ins[s].meta \subseteq {call[s].did} \ meta' /\ call[s].did \in meta' \cup ins[s].meta
        BY <2>3, <3>1, <3>2, <3>5 DEF Staged, Holding
      <4>4. /\ \A d \in ins[s].datasets : d = call[s].dataset /\ datasets'[d] = None
            /\ pc[s] = "files" => call[s].dataset \in ins[s].datasets \/ datasets'[call[s].dataset] # None
        BY <2>3, <3>1, <3>2, <3>3, <3>5, <4>1 DEF Staged, Holding
      <4>5. /\ \A f \in ins[s].files : f \in call[s].walk /\ files'[f] = None
            /\ pc[s] = "files" => \A f \in call[s].walk \ todo[s] : f \in ins[s].files \/ files'[f] # None
        BY <2>3, <3>1, <3>2, <3>3, <3>5, <4>1 DEF Staged, Holding
      <4>6. pc[s] = "files" => todo[s] \subseteq call[s].walk
        BY <2>3 DEF Staged
      <4> HIDE DEF tables
      <4> QED
        BY <2>1, <3>5, <4>2, <4>3, <4>4, <4>5, <4>6 DEF Staged, Holding
    <3> QED
      BY <3>4, <3>5
  <2> QED
    BY <2>4, <2>5
<1> QED
  BY <1>2, <1>3, <1>4 DEF AllStaged

LEMMA RollbackInv ==
    ASSUME Inv, NEW r \in Requests, Rollback(r)
    PROVE  KeysExclusive' /\ AllStaged'
  BY ReturnInv DEF Rollback

\* With sqlite3, who may write finds nobody else with rows of its own.
LEMMA NobodyElse ==
    ASSUME Inv, Driver = "sqlite3", NEW r \in Requests, writer \in {None, r},
           NEW s \in Requests \ {r}
    PROVE  ins[s] = NoRows /\ ~Holding(s)
<1>1. writer # s
  BY ProcsAssumption DEF Inv, TypeOK
<1> QED
  BY <1>1 DEF Inv, KeysExclusive, AllStaged, Staged, Holding

\* A statement that adds rows no other open transaction holds, and knows
\* itself what it did, keeps the invariant.
LEMMA InsertInv ==
    ASSUME Inv, NEW r \in Requests, NEW rows, NEW next, NEW left,
           ins' = ins \/ ins' = [ins EXCEPT ![r] = rows],
           pc' = [pc EXCEPT ![r] = next], todo' = [todo EXCEPT ![r] = left],
           UNCHANGED <<tables, call>>,
           Driver = "sqlite3" => writer \in {None, r} /\ writer' = r,
           Driver = "mysql" => \A s \in Requests \ {r} :
              /\ rows.meta \cap ins[s].meta = {}
              /\ rows.datasets \cap ins[s].datasets = {}
              /\ rows.files \cap ins[s].files = {},
           Staged(r)'
    PROVE  KeysExclusive' /\ AllStaged'
<1>1. \A s \in Requests \ {r} :
         ins'[s] = ins[s] /\ pc'[s] = pc[s] /\ todo'[s] = todo[s] /\ call'[s] = call[s]
  BY DEF Inv, TypeOK
<1>2. ins'[r] \in {ins[r], rows}
  BY DEF Inv, TypeOK
<1>3. ASSUME NEW s \in Requests, s # r PROVE Staged(s)'
  <2>1. Staged(s)
    BY DEF Inv, AllStaged
  <2>2. Driver = "sqlite3" => ~Holding(s)
    BY <1>3, NobodyElse
  <2> QED
    BY <1>1, <1>3, <2>1, <2>2, StagedFrame
<1>4. ASSUME NEW x \in Requests, Driver = "sqlite3", ins'[x] # NoRows PROVE writer' = x
  <2>1. x = r
    BY <1>1, <1>4, NobodyElse
  <2> QED
    BY <1>4, <2>1
<1>5. ASSUME NEW s \in Requests \ {r}
      PROVE  /\ ins'[r].meta \cap ins'[s].meta = {}
             /\ ins'[r].datasets \cap ins'[s].datasets = {}
             /\ ins'[r].files \cap ins'[s].files = {}
  <2>1. CASE Driver = "sqlite3"
    BY <1>1, <2>1, NobodyElse DEF NoRows
  <2>2. CASE Driver = "mysql"
    BY <1>1, <1>2, <2>2 DEF Inv, KeysExclusive
  <2> QED
    BY <2>1, <2>2, DriverAssumption
<1>6. ASSUME NEW x \in Requests, NEW y \in Requests \ {x}
      PROVE  /\ ins'[x].meta \cap ins'[y].meta = {}
             /\ ins'[x].datasets \cap ins'[y].datasets = {}
             /\ ins'[x].files \cap ins'[y].files = {}
  <2>1. CASE x = r \/ y = r
    BY <1>5, <2>1
  <2>2. CASE x # r /\ y # r
    BY <1>1, <2>2 DEF Inv, KeysExclusive
  <2> QED
    BY <2>1, <2>2
<1> QED
  BY <1>3, <1>4, <1>6 DEF KeysExclusive, AllStaged

LEMMA InsertMetadataInv ==
    ASSUME Inv, NEW r \in Requests, InsertMetadata(r)
    PROVE  KeysExclusive' /\ AllStaged'
<1> DEFINE did == call[r].did
           rows == [ins[r] EXCEPT !.meta = {did}]
<1>1. pc[r] = "metadata" /\ Insert(r, did \in meta, rows, "datasets", {})
  BY DEF InsertMetadata
<1>2. CASE Rollback(r)
  BY <1>2, RollbackInv
<1>3. CASE ~Rollback(r)
  <2>1. /\ WaitsFor(r) = {}
        /\ ins' = IF did \in meta THEN ins ELSE [ins EXCEPT ![r] = rows]
        /\ writer' = IF Driver = "sqlite3" THEN r ELSE writer
        /\ pc' = [pc EXCEPT ![r] = "datasets"]
        /\ todo' = [todo EXCEPT ![r] = {}]
        /\ UNCHANGED <<tables, conns, call, ret, reads>>
    BY <1>1, <1>3 DEF Insert
  <2>2. ins[r] = NoRows /\ rows = [meta |-> {did}, datasets |-> {}, files |-> {}]
    <3>1. ins[r] = NoRows
      BY <1>1 DEF Inv, AllStaged, Staged
    <3> QED
      BY <3>1 DEF NoRows
  <2>3. Driver = "sqlite3" => writer \in {None, r}
    BY <1>1, <2>1 DEF WaitsFor
  <2>4. Driver = "mysql" => \A s \in Requests \ {r} : did \notin ins[s].meta
    BY <1>1, <2>1 DEF WaitsFor, Holders
  <2>5. Staged(r)'
    <3>1. pc'[r] = "datasets" /\ call'[r] = call[r]
      BY <2>1 DEF Inv, TypeOK
    <3>2. ins'[r] = IF did \in meta THEN NoRows ELSE rows
      BY <2>1, <2>2 DEF Inv, TypeOK
    <3> QED
      BY <2>1, <2>2, <3>1, <3>2 DEF Staged, NoRows
  <2> QED
    <3>1. Driver = "mysql" => \A s \in Requests \ {r} :
              /\ rows.meta \cap ins[s].meta = {}
              /\ rows.datasets \cap ins[s].datasets = {}
              /\ rows.files \cap ins[s].files = {}
      BY <2>2, <2>4
    <3>2. ins' = ins \/ ins' = [ins EXCEPT ![r] = rows]
      BY <2>1
    <3> HIDE DEF rows, did
    <3> QED
      BY <2>1, <2>3, <2>5, <3>1, <3>2, InsertInv
<1> QED
  BY <1>2, <1>3

LEMMA InsertDatasetInv ==
    ASSUME Inv, NEW r \in Requests, InsertDataset(r)
    PROVE  KeysExclusive' /\ AllStaged'
<1> DEFINE ds == call[r].dataset
           dup == datasets[ds] # None
           rows == [ins[r] EXCEPT !.datasets = {ds}]
<1>1. pc[r] = "datasets" /\ Insert(r, dup, rows, "files", call[r].walk)
  BY DEF InsertDataset
<1>2. CASE Rollback(r)
  BY <1>2, RollbackInv
<1>3. CASE ~Rollback(r)
  <2>1. /\ WaitsFor(r) = {}
        /\ ins' = IF dup THEN ins ELSE [ins EXCEPT ![r] = rows]
        /\ writer' = IF Driver = "sqlite3" THEN r ELSE writer
        /\ pc' = [pc EXCEPT ![r] = "files"]
        /\ todo' = [todo EXCEPT ![r] = call[r].walk]
        /\ UNCHANGED <<tables, conns, call, ret, reads>>
    BY <1>1, <1>3 DEF Insert
  <2>2. ins[r] \in [meta : SUBSET Dids, datasets : SUBSET Datasets, files : SUBSET Files]
    BY DEF Inv, TypeOK
  <2>3. rows.meta = ins[r].meta /\ rows.files = ins[r].files /\ rows.datasets = {ds}
    BY <2>2
  <2>4. Staged(r)
    BY DEF Inv, AllStaged
  <2>5. Driver = "sqlite3" => writer \in {None, r} /\ writer' = r
    BY <1>1, <2>1, <2>4 DEF Staged
  <2>6. Driver = "mysql" => \A s \in Requests \ {r} : ds \notin ins[s].datasets
    BY <1>1, <2>1 DEF WaitsFor, Holders
  <2>7. Staged(r)'
    <3>1. pc'[r] = "files" /\ call'[r] = call[r] /\ todo'[r] = call[r].walk
      BY <2>1 DEF Inv, TypeOK
    <3>2. ins'[r] = IF dup THEN ins[r] ELSE rows
      BY <2>1 DEF Inv, TypeOK
    <3>3. /\ Driver = "sqlite3" => writer' = r
          /\ ins'[r].meta \subseteq {call[r].did} \ meta
          /\ call[r].did \in meta \cup ins'[r].meta
          /\ \A f \in ins'[r].files : f \in call[r].walk /\ files[f] = None
      BY <1>1, <2>3, <2>4, <2>5, <3>2 DEF Staged
    <3>4. /\ \A d \in ins'[r].datasets : d = ds /\ datasets[d] = None
          /\ ds \in ins'[r].datasets \/ datasets[ds] # None
      BY <1>1, <2>3, <2>4, <3>2 DEF Staged
    <3> QED
      BY <2>1, <3>1, <3>3, <3>4 DEF Staged
  <2> QED
    <3>1. Driver = "mysql" => \A s \in Requests \ {r} :
              /\ rows.meta \cap ins[s].meta = {}
              /\ rows.datasets \cap ins[s].datasets = {}
              /\ rows.files \cap ins[s].files = {}
      BY <2>3, <2>6 DEF Inv, KeysExclusive
    <3>2. ins' = ins \/ ins' = [ins EXCEPT ![r] = rows]
      BY <2>1
    <3> HIDE DEF rows
    <3> QED
      BY <2>1, <2>5, <2>7, <3>1, <3>2, InsertInv
<1> QED
  BY <1>2, <1>3

LEMMA InsertFileInv ==
    ASSUME Inv, NEW r \in Requests, InsertFile(r)
    PROVE  KeysExclusive' /\ AllStaged'
<1> DEFINE f == NextFile(r)
           dup == files[f] # None
           rows == [ins[r] EXCEPT !.files = @ \cup {f}]
<1>1. pc[r] = "files" /\ todo[r] # {} /\ Insert(r, dup, rows, "files", todo[r] \ {f})
  BY DEF InsertFile
<1>2. CASE Rollback(r)
  BY <1>2, RollbackInv
<1>3. CASE ~Rollback(r)
  <2>1. /\ WaitsFor(r) = {}
        /\ ins' = IF dup THEN ins ELSE [ins EXCEPT ![r] = rows]
        /\ writer' = IF Driver = "sqlite3" THEN r ELSE writer
        /\ pc' = [pc EXCEPT ![r] = "files"]
        /\ todo' = [todo EXCEPT ![r] = todo[r] \ {f}]
        /\ UNCHANGED <<tables, conns, call, ret, reads>>
    BY <1>1, <1>3 DEF Insert
  <2>2. ins[r] \in [meta : SUBSET Dids, datasets : SUBSET Datasets, files : SUBSET Files]
    BY DEF Inv, TypeOK
  <2>3. rows.meta = ins[r].meta /\ rows.files = ins[r].files \cup {f} /\ rows.datasets = ins[r].datasets
    BY <2>2
  <2>4. Staged(r)
    BY DEF Inv, AllStaged
  <2>5. Driver = "sqlite3" => writer \in {None, r} /\ writer' = r
    BY <1>1, <2>1, <2>4 DEF Staged
  <2>6. Driver = "mysql" => \A s \in Requests \ {r} : f \notin ins[s].files
    BY <1>1, <2>1 DEF WaitsFor, Holders
  <2>7. f \in todo[r]
    BY <1>1, NextFileInTodo DEF Inv
  <2>8. Staged(r)'
    <3>1. pc'[r] = "files" /\ call'[r] = call[r] /\ todo'[r] = todo[r] \ {f}
      BY <2>1 DEF Inv, TypeOK
    <3>2. ins'[r] = IF dup THEN ins[r] ELSE rows
      BY <2>1 DEF Inv, TypeOK
    <3>3. /\ Driver = "sqlite3" => writer' = r
          /\ ins'[r].meta \subseteq {call[r].did} \ meta
          /\ call[r].did \in meta \cup ins'[r].meta
          /\ \A d \in ins'[r].datasets : d = call[r].dataset /\ datasets[d] = None
          /\ call[r].dataset \in ins'[r].datasets \/ datasets[call[r].dataset] # None
      BY <1>1, <2>3, <2>4, <2>5, <3>2 DEF Staged
    <3>4. /\ \A g \in ins'[r].files : g \in call[r].walk /\ files[g] = None
          /\ todo'[r] \subseteq call[r].walk
          /\ \A g \in call[r].walk \ todo'[r] : g \in ins'[r].files \/ files[g] # None
      BY <1>1, <2>3, <2>4, <2>7, <3>1, <3>2 DEF Staged
    <3> QED
      BY <2>1, <3>1, <3>3, <3>4 DEF Staged
  <2> QED
    <3>1. Driver = "mysql" => \A s \in Requests \ {r} :
              /\ rows.meta \cap ins[s].meta = {}
              /\ rows.datasets \cap ins[s].datasets = {}
              /\ rows.files \cap ins[s].files = {}
      BY <2>3, <2>6 DEF Inv, KeysExclusive
    <3>2. ins' = ins \/ ins' = [ins EXCEPT ![r] = rows]
      BY <2>1
    <3> HIDE DEF rows, f
    <3> QED
      BY <2>1, <2>5, <2>8, <3>1, <3>2, InsertInv
<1> QED
  BY <1>2, <1>3

\* A step that leaves transactions, tables and the write lock alone.
LEMMA UntouchedInv ==
    ASSUME Inv, UNCHANGED <<tables, writer, ins>>,
           \A s \in Requests : Holding(s) \/ Holding(s)' =>
               pc'[s] = pc[s] /\ call'[s] = call[s] /\ todo'[s] = todo[s]
    PROVE  KeysExclusive' /\ AllStaged'
<1>1. KeysExclusive'
  BY DEF Inv, KeysExclusive
<1>2. ASSUME NEW s \in Requests PROVE Staged(s)'
  <2>1. Staged(s)
    BY DEF Inv, AllStaged
  <2>2. CASE Holding(s) \/ Holding(s)'
    BY <2>1, <2>2, StagedFrame
  <2>3. CASE ~Holding(s) /\ ~Holding(s)'
    BY <2>1, <2>3 DEF Staged, Holding
  <2> QED
    BY <2>2, <2>3
<1> QED
  BY <1>1, <1>2 DEF AllStaged

LEMMA InsertStepInv ==
    ASSUME Inv, NEW r \in Requests, InsertStep(r)
    PROVE  KeysExclusive' /\ AllStaged'
<1>1. CASE FindDID(r)
  <2>1. CASE Return(r, "nil") /\ UNCHANGED tables
    BY <2>1, ReturnInv
  <2>2. CASE pc' = [pc EXCEPT ![r] = "begin"]
             /\ UNCHANGED <<tables, locks, conns, call, ins, todo, ret, reads>>
    BY <1>1, <2>2, UntouchedInv DEF FindDID, Holding, Inv, TypeOK
  <2> QED
    BY <1>1, <2>1, <2>2 DEF FindDID
<1>2. CASE Begin(r)
  BY <1>2, UntouchedInv DEF Begin, Holding, Inv, TypeOK
<1>3. CASE BeginFails(r)
  BY <1>3, ReturnInv DEF BeginFails
<1>4. CASE InsertMetadata(r)
  BY <1>4, InsertMetadataInv
<1>5. CASE InsertDataset(r)
  BY <1>5, InsertDatasetInv
<1>6. CASE InsertFile(r)
  BY <1>6, InsertFileInv
<1>7. CASE ExecFails(r) \/ LockTimeout(r) \/ Deadlock(r)
  BY <1>7, RollbackInv, BlockedInTx DEF ExecFails, LockTimeout
<1>8. CASE Commit(r)
  BY <1>8, ReturnInv DEF Commit, Holding
<1>9. CASE CommitFails(r)
  BY <1>9, ReturnInv DEF CommitFails, Holding
<1>10. CASE AskShared(r)
  BY <1>10, UntouchedInv DEF AskShared
<1> QED
  BY <1>1, <1>2, <1>3, <1>4, <1>5, <1>6, <1>7, <1>8, <1>9, <1>10 DEF InsertStep, Statement

LEMMA CrashInv ==
    ASSUME Inv, Crash
    PROVE  KeysExclusive' /\ AllStaged'
<1>1. \A r \in Requests : ins'[r] = NoRows /\ pc'[r] \in {"idle", "done", "lost"}
  BY DEF Crash
<1>2. KeysExclusive'
  BY <1>1 DEF KeysExclusive, NoRows
<1>3. AllStaged'
  BY <1>1 DEF AllStaged, Staged
<1> QED
  BY <1>2, <1>3

\* Every step keeps the invariant.
LEMMA InvStep ==
    ASSUME Inv, [Next]_vars
    PROVE  Inv'
<1> SUFFICES KeysExclusive' /\ AllStaged'
  BY TypeStep DEF Inv
<1>1. CASE \E r \in Requests, did \in Dids, ds \in Datasets, p \in Paths :
              \E w \in Walks(p) : Call(r, did, ds, w)
  BY <1>1, UntouchedInv DEF Call, Holding, Inv, TypeOK
<1>2. CASE \E r \in Requests : InsertStep(r)
  BY <1>2, InsertStepInv
<1>3. CASE \/ \E q \in Readers, did \in Dids : ReadCall(q, did)
           \/ \E q \in Readers : ReadStep(q)
  BY <1>3, UntouchedInv
     DEF ReadStep, ReadStatement, ReadCall, ReadBegin, ReadQuery, ReadDone, ReadFails
<1>4. CASE Crash
  BY <1>4, CrashInv
<1>5. CASE UNCHANGED vars
  BY <1>5, UntouchedInv DEF vars
<1> QED
  BY <1>1, <1>2, <1>3, <1>4, <1>5 DEF Next, Finished

LEMMA InvInit ==
    ASSUME Init
    PROVE  Inv
<1>1. TypeOK
  BY DEF Init, TypeOK, TablesOK, NoRows
<1> QED
  BY <1>1 DEF Init, Inv, KeysExclusive, AllStaged, Staged, NoRows

\* The inductive invariant holds in every reachable state.
THEOREM Invariance == Spec => []Inv
<1>1. Init => Inv
  BY InvInit
<1>2. Inv /\ [Next]_vars => Inv'
  BY InvStep
<1> QED
  BY <1>1, <1>2, PTL DEF Spec
----------------------------------------------------------------------------
(* What follows from it *)

\* Open transactions never hold rows with the same key (KeysExclusive).
THEOREM Exclusion == Spec => []KeysExclusive
  BY Invariance, PTL DEF Inv

\* What an open transaction knows of the tables stays true until it ends,
\* whatever others commit in between: its look-ups are never stale
\* (AllStaged).
THEOREM NeverStale == Spec => []AllStaged
  BY Invariance, PTL DEF Inv

\* The steps that touch the committed tables are the commits; each of them
\* books a whole submission.
LEMMA CommitBooks ==
    ASSUME Inv, NEW r \in Requests, pc[r] = "files", todo[r] = {}, Apply(r)
    PROVE  B!Book(call[r].did, call[r].dataset, call[r].walk)
<1>1. Staged(r) /\ call[r] \in Calls
  BY DEF Inv, AllStaged, TypeOK
<1>2. meta' = meta \cup {call[r].did}
  BY <1>1 DEF Apply, Staged
<1>3. \A d \in Datasets : d \in ins[r].datasets <=> d = call[r].dataset /\ datasets[d] = None
  BY <1>1 DEF Staged
<1>4. \A f \in Files : f \in ins[r].files <=> f \in call[r].walk /\ files[f] = None
  BY <1>1 DEF Staged
<1>5. datasets' = [d \in Datasets |->
          IF d = call[r].dataset /\ datasets[d] = None THEN call[r].did ELSE datasets[d]]
  BY <1>3 DEF Apply
<1>6. files' = [f \in Files |->
          IF f \in call[r].walk /\ files[f] = None
          THEN [did |-> call[r].did, dataset |-> call[r].dataset] ELSE files[f]]
  BY <1>4 DEF Apply
<1> QED
  BY <1>2, <1>5, <1>6 DEF B!Book

LEMMA TablesStep ==
    ASSUME Inv, [Next]_vars
    PROVE  \/ UNCHANGED tables
           \/ \E r \in Requests :
                 /\ pc[r] = "files" /\ todo[r] = {}
                 /\ Apply(r)
                 /\ \E a \in {"nil", "error"} : Return(r, a)
<1>1. CASE \E r \in Requests : InsertStep(r)
  BY <1>1 DEF InsertStep, Statement, FindDID, Begin, BeginFails, InsertMetadata, InsertDataset,
              InsertFile, Insert, Rollback, ExecFails, LockTimeout, Commit, CommitFails,
              AskShared, Deadlock
<1>2. CASE \E q \in Readers : ReadStep(q) \/ \E did \in Dids : ReadCall(q, did)
  BY <1>2 DEF ReadStep, ReadStatement, ReadCall, ReadBegin, ReadQuery, ReadDone, ReadFails
<1> QED
  BY <1>1, <1>2 DEF Next, Call, Crash, Finished, vars

\* One step of a call: what it was asked to do is settled when it starts,
\* what it answers when it is done.
LEMMA CallStep ==
    ASSUME Inv, [Next]_vars, NEW r \in Requests
    PROVE  /\ pc[r] # "idle" => pc'[r] # "idle" /\ call'[r] = call[r]
           /\ pc[r] \in {"done", "lost"} => pc'[r] = pc[r] /\ ret'[r] = ret[r]
           /\ ret'[r] # ret[r] => pc'[r] = "done"
<1>1. CASE \E s \in Requests : InsertStep(s)
  <2>1. PICK s \in Requests : InsertStep(s)
    BY <1>1
  <2>2. CASE AskShared(s) \/ Deadlock(s)
    <3>1. InTx(s) /\ UNCHANGED call
      BY <2>2, BlockedInTx, AskingInTx DEF Rollback, Return
    <3>2. \/ UNCHANGED <<pc, ret>>
          \/ \E a : pc' = [pc EXCEPT ![s] = "done"] /\ ret' = [ret EXCEPT ![s] = a]
      BY <2>2, BlockedInTx, AskingInTx DEF Rollback, Return
    <3> QED
      BY <3>1, <3>2 DEF InTx, Inv, TypeOK
  <2>3. CASE ~(AskShared(s) \/ Deadlock(s))
    <3>1. UNCHANGED call /\ pc[s] \notin {"idle", "done", "lost"}
      BY <2>1, <2>3 DEF InsertStep, Statement, FindDID, Begin, BeginFails, InsertMetadata,
         InsertDataset, InsertFile, Insert, Rollback, ExecFails, LockTimeout, InTx, Commit,
         CommitFails, Return
    <3>2. \/ UNCHANGED ret /\ \E next \in {"begin", "metadata", "datasets", "files"} :
                                  pc' = [pc EXCEPT ![s] = next]
          \/ \E a : pc' = [pc EXCEPT ![s] = "done"] /\ ret' = [ret EXCEPT ![s] = a]
      BY <2>1, <2>3 DEF InsertStep, Statement, FindDID, Begin, BeginFails, InsertMetadata,
         InsertDataset, InsertFile, Insert, Rollback, ExecFails, LockTimeout, InTx, Commit,
         CommitFails, Return
    <3> QED
      BY <3>1, <3>2 DEF Inv, TypeOK
  <2> QED
    BY <2>2, <2>3
<1>2. CASE \E s \in Requests, did \in Dids, ds \in Datasets, p \in Paths :
              \E w \in Walks(p) : Call(s, did, ds, w)
  BY <1>2 DEF Call, Inv, TypeOK
<1>3. CASE \E q \in Readers : ReadStep(q) \/ \E did \in Dids : ReadCall(q, did)
  BY <1>3 DEF ReadStep, ReadStatement, ReadCall, ReadBegin, ReadQuery, ReadDone, ReadFails
<1> QED
  BY <1>1, <1>2, <1>3 DEF Next, Crash, Finished, vars

\* FilesDB implements Bookkeeping: whatever interleaves, fails or crashes,
\* every change of the tables is one whole booking (Books).
THEOREM Refinement == Spec => Books
<1>1. Init => B!Init
  BY DEF Init, B!Init
<1>2. Inv /\ [Next]_vars => [B!Next]_(B!tables)
  <2> SUFFICES ASSUME Inv, [Next]_vars PROVE B!Next \/ UNCHANGED B!tables
    OBVIOUS
  <2>1. CASE UNCHANGED tables
    BY <2>1 DEF B!tables
  <2>2. ASSUME NEW r \in Requests, pc[r] = "files", todo[r] = {}, Apply(r) PROVE B!Next
    <3>1. call[r].did \in Dids /\ call[r].dataset \in Datasets /\ call[r].walk \in SUBSET Files
      BY <2>2 DEF Inv, TypeOK, Calls
    <3> QED
      BY <2>2, <3>1, CommitBooks DEF B!Next
  <2> QED
    BY <2>1, <2>2, TablesStep
<1> QED
  BY <1>1, <1>2, Invariance, PTL DEF Spec, Books, B!Spec

LEMMA IntegrityInit ==
    ASSUME Init
    PROVE  Integrity
  BY DEF Init, Integrity

\* A commit adds a whole booking: every row it adds finds the rows it refers
\* to, those before it still do.
LEMMA IntegrityStep ==
    ASSUME Inv, Integrity, [Next]_vars
    PROVE  Integrity'
<1>1. CASE UNCHANGED tables
  BY <1>1 DEF Integrity
<1>2. ASSUME NEW r \in Requests, pc[r] = "files", todo[r] = {}, Apply(r) PROVE Integrity'
  <2> DEFINE did == call[r].did
             ds == call[r].dataset
  <2>1. did \in Dids /\ ds \in Datasets /\ did # None
    BY <1>2, ProcsAssumption DEF Inv, TypeOK, Calls
  <2>2. B!Book(did, ds, call[r].walk)
    BY <1>2, CommitBooks
  <2>3. /\ did \in meta' /\ meta \subseteq meta'
        /\ \A d \in Datasets : datasets'[d] = datasets[d] \/ datasets'[d] = did
        /\ \A d \in Datasets : datasets[d] # None => datasets'[d] = datasets[d]
        /\ datasets'[ds] # None
    BY <2>1, <2>2 DEF B!Book
  <2>4. \A f \in Files : files'[f] = files[f] \/ files'[f] = [did |-> did, dataset |-> ds]
    BY <2>2 DEF B!Book
  <2>5. ASSUME NEW f \in Files, files'[f] # None
        PROVE  files'[f].did \in meta' /\ datasets'[files'[f].dataset] # None
    <3>1. CASE files'[f] = [did |-> did, dataset |-> ds]
      BY <2>3, <3>1
    <3>2. CASE files'[f] = files[f]
      <4>1. files[f] \in Rows
        BY <2>5, <3>2 DEF Inv, TypeOK, TablesOK
      <4> QED
        BY <2>3, <2>5, <3>2, <4>1 DEF Integrity, Rows
    <3> QED
      BY <2>4, <3>1, <3>2
  <2> QED
    BY <2>3, <2>5 DEF Integrity
<1> QED
  BY <1>1, <1>2, TablesStep

\* Rows that refer to rows: every did and dataset named by a committed row
\* has its own committed row (Integrity).
THEOREM ReferentialIntegrity == Spec => []Integrity
<1>1. Init => Integrity
  BY IntegrityInit
<1>2. Inv /\ Integrity /\ [Next]_vars => Integrity'
  BY IntegrityStep
<1> QED
  BY <1>1, <1>2, Invariance, PTL DEF Spec
----------------------------------------------------------------------------
(* Connections and locks *)

PoolOK == IsFiniteSet(conns) /\ Cardinality(conns) <= MaxOpenConns

NothingHeld ==
    /\ \A r \in Requests : ~InTx(r) => r \notin conns \cup shared /\ writer # r /\ ins[r] = NoRows
    /\ \A q \in Readers : rpc[q] \notin {"query", "scan"} => q \notin conns

\* Giving a connection back, taking one that is free, and a restart keep the
\* pool within its limit.
LEMMA PoolStep ==
    ASSUME PoolOK, NEW x,
           \/ conns' = conns \/ conns' = conns \ {x} \/ conns' = {}
           \/ PoolHasConn /\ conns' = conns \cup {x}
    PROVE  PoolOK'
<1>1. MaxOpenConns \in Nat
  BY PoolAssumption
<1>2. CASE conns' = conns
  BY <1>2 DEF PoolOK
<1>3. CASE conns' = conns \ {x}
  <2>1. IsFiniteSet(conns') /\ Cardinality(conns') <= Cardinality(conns)
    BY <1>3, FS_Subset DEF PoolOK
  <2>2. Cardinality(conns') \in Nat /\ Cardinality(conns) \in Nat
    BY <2>1, FS_CardinalityType DEF PoolOK
  <2> QED
    BY <1>1, <2>1, <2>2 DEF PoolOK
<1>4. CASE conns' = {}
  BY <1>1, <1>4, FS_EmptySet DEF PoolOK
<1>5. CASE PoolHasConn /\ conns' = conns \cup {x}
  <2>1. IsFiniteSet(conns') /\ (Cardinality(conns') = Cardinality(conns)
                                \/ Cardinality(conns') = Cardinality(conns) + 1)
    BY <1>5, FS_AddElement DEF PoolOK
  <2>2. Cardinality(conns) \in Nat
    BY FS_CardinalityType DEF PoolOK
  <2> QED
    BY <1>1, <1>5, <2>1, <2>2 DEF PoolOK, PoolHasConn
<1> QED
  BY <1>2, <1>3, <1>4, <1>5

\* Every way out of InsertFiles gives back what the call held.
LEMMA ReturnHolds ==
    ASSUME Inv, NothingHeld, NEW r \in Requests, NEW a, Return(r, a)
    PROVE  NothingHeld' /\ \E x : conns' = conns \ {x}
<1>1. r \notin Readers
  BY ProcsAssumption
<1>2. ASSUME NEW s \in Requests, ~InTx(s)'
      PROVE  s \notin conns' \cup shared' /\ writer' # s /\ ins'[s] = NoRows
  BY <1>2, ProcsAssumption DEF NothingHeld, Return, InTx, Inv, TypeOK
<1>3. ASSUME NEW q \in Readers, rpc'[q] \notin {"query", "scan"} PROVE q \notin conns'
  BY <1>1, <1>3 DEF NothingHeld, Return
<1> QED
  BY <1>2, <1>3 DEF NothingHeld, Return

LEMMA RollbackHolds ==
    ASSUME Inv, NothingHeld, NEW r \in Requests, Rollback(r)
    PROVE  NothingHeld' /\ \E x : conns' = conns \ {x}
  BY ReturnHolds DEF Rollback

LEMMA InsertHolds ==
    ASSUME Inv, NothingHeld, NEW r \in Requests, InTx(r),
           NEW dup, NEW rows, NEW next \in {"datasets", "files"}, NEW left,
           Insert(r, dup, rows, next, left)
    PROVE  NothingHeld' /\ \E x : conns' = conns \ {x} \/ conns' = conns
<1>1. CASE Rollback(r)
  BY <1>1, RollbackHolds
<1>2. CASE ~Rollback(r)
  <2>1. UNCHANGED <<conns, rpc>> /\ pc' = [pc EXCEPT ![r] = next]
        /\ writer' = (IF Driver = "sqlite3" THEN r ELSE writer)
        /\ shared' \subseteq shared
        /\ \A s \in Requests \ {r} : ins'[s] = ins[s]
    BY <1>2 DEF Insert, Inv, TypeOK
  <2>2. InTx(r)'
    BY <2>1 DEF InTx, Inv, TypeOK
  <2>3. \A s \in Requests \ {r} : InTx(s)' = InTx(s)
    BY <2>1 DEF InTx, Inv, TypeOK
  <2> QED
    BY <2>1, <2>2, <2>3 DEF NothingHeld
<1> QED
  BY <1>1, <1>2

LEMMA InsertStepHolds ==
    ASSUME Inv, NothingHeld, PoolOK, NEW r \in Requests, InsertStep(r)
    PROVE  NothingHeld' /\ PoolOK'
<1>1. CASE FindDID(r)
  <2>1. CASE Return(r, "nil")
    BY <2>1, ReturnHolds, PoolStep
  <2>2. CASE pc' = [pc EXCEPT ![r] = "begin"] /\ UNCHANGED <<conns, locks, ins, rpc>>
    BY <1>1, <2>2, PoolStep DEF FindDID, NothingHeld, InTx, Inv, TypeOK
  <2> QED
    BY <1>1, <2>1, <2>2 DEF FindDID
<1>2. CASE Begin(r)
  <2>1. NothingHeld'
    BY <1>2, ProcsAssumption DEF Begin, NothingHeld, InTx, Inv, TypeOK
  <2> QED
    BY <1>2, <2>1, PoolStep DEF Begin
<1>3. CASE BeginFails(r)
  BY <1>3, ReturnHolds, PoolStep DEF BeginFails
<1>4. CASE InsertMetadata(r) \/ InsertDataset(r) \/ InsertFile(r)
  <2>1. InTx(r)
    BY <1>4 DEF InsertMetadata, InsertDataset, InsertFile, InTx
  <2>2. \E dup, rows, left : \E next \in {"datasets", "files"} : Insert(r, dup, rows, next, left)
    BY <1>4 DEF InsertMetadata, InsertDataset, InsertFile
  <2> QED
    BY <2>1, <2>2, InsertHolds, PoolStep
<1>5. CASE ExecFails(r) \/ LockTimeout(r) \/ Deadlock(r)
  BY <1>5, RollbackHolds, PoolStep, BlockedInTx DEF ExecFails, LockTimeout
<1>6. CASE Commit(r) \/ CommitFails(r)
  BY <1>6, ReturnHolds, PoolStep DEF Commit, CommitFails
<1>7. CASE AskShared(r)
  <2>1. InTx(r)
    BY <1>7, AskingInTx
  <2>2. NothingHeld'
    BY <1>7, <2>1 DEF AskShared, NothingHeld, InTx
  <2> QED
    BY <1>7, <2>2, PoolStep DEF AskShared
<1> QED
  BY <1>1, <1>2, <1>3, <1>4, <1>5, <1>6, <1>7 DEF InsertStep, Statement

LEMMA ReadStepHolds ==
    ASSUME Inv, NothingHeld, PoolOK, NEW q \in Readers,
           ReadStep(q) \/ \E did \in Dids : ReadCall(q, did)
    PROVE  NothingHeld' /\ PoolOK'
<1>1. q \notin Requests
  BY ProcsAssumption
<1>2. CASE ReadBegin(q)
  <2>1. NothingHeld'
    BY <1>1, <1>2 DEF ReadBegin, NothingHeld, InTx, Inv, TypeOK
  <2> QED
    BY <1>2, <2>1, PoolStep DEF ReadBegin
<1>3. CASE ReadDone(q) \/ ReadFails(q)
  <2>1. NothingHeld'
    BY <1>1, <1>3 DEF ReadDone, ReadFails, NothingHeld, InTx, Inv, TypeOK
  <2> QED
    BY <1>3, <2>1, PoolStep DEF ReadDone, ReadFails
<1>4. CASE ReadQuery(q) \/ \E did \in Dids : ReadCall(q, did)
  <2>1. NothingHeld'
    BY <1>4 DEF ReadQuery, ReadCall, NothingHeld, InTx, Inv, TypeOK
  <2> QED
    BY <1>4, <2>1, PoolStep DEF ReadQuery, ReadCall
<1> QED
  BY <1>2, <1>3, <1>4 DEF ReadStep, ReadStatement

\* No way out of InsertFiles or getFiles leaks a connection, a lock
\* or uncommitted rows, and the pool's limit is kept (NoLeak).
THEOREM NothingLeaks == Spec => []NoLeak
<1>1. Init => NothingHeld /\ PoolOK
  BY FS_EmptySet, PoolAssumption, ProcsAssumption DEF Init, NothingHeld, PoolOK, InTx
<1>2. Inv /\ NothingHeld /\ PoolOK /\ [Next]_vars => NothingHeld' /\ PoolOK'
  <2> SUFFICES ASSUME Inv, NothingHeld, PoolOK, [Next]_vars PROVE NothingHeld' /\ PoolOK'
    OBVIOUS
  <2>1. CASE \E r \in Requests, did \in Dids, ds \in Datasets, p \in Paths :
                \E w \in Walks(p) : Call(r, did, ds, w)
    <3>1. NothingHeld'
      BY <2>1 DEF Call, NothingHeld, InTx, Inv, TypeOK
    <3> QED
      BY <2>1, <3>1, PoolStep DEF Call
  <2>2. CASE \E r \in Requests : InsertStep(r)
    BY <2>2, InsertStepHolds
  <2>3. CASE \E q \in Readers : ReadStep(q) \/ \E did \in Dids : ReadCall(q, did)
    BY <2>3, ReadStepHolds
  <2>4. CASE Crash
    <3>1. NothingHeld'
      BY <2>4, ProcsAssumption DEF Crash, NothingHeld, InTx
    <3> QED
      BY <2>4, <3>1, PoolStep DEF Crash
  <2>5. CASE UNCHANGED vars
    BY <2>5 DEF vars, NothingHeld, PoolOK, InTx
  <2> QED
    BY <2>1, <2>2, <2>3, <2>4, <2>5 DEF Next, Finished
<1>3. NothingHeld /\ PoolOK => NoLeak
  BY DEF NothingHeld, PoolOK, NoLeak
<1> QED
  BY <1>1, <1>2, <1>3, Invariance, PTL DEF Spec
----------------------------------------------------------------------------
(* Waiting *)

\* A transaction takes its keys in one order: the did, the dataset, and the
\* files as the walk came by them.
InOrder(r) ==
    /\ pc[r] = "datasets" => ins[r].datasets = {} /\ ins[r].files = {}
    /\ pc[r] = "files" => \A f \in ins[r].files, g \in todo[r] : f < g

AllInOrder == \A r \in Requests : InOrder(r)

LEMMA ReturnInOrder ==
    ASSUME Inv, AllInOrder, NEW r \in Requests, NEW a, Return(r, a)
    PROVE  AllInOrder'
  BY DEF Return, AllInOrder, InOrder, Inv, TypeOK, NoRows

LEMMA RollbackInOrder ==
    ASSUME Inv, AllInOrder, NEW r \in Requests, Rollback(r)
    PROVE  AllInOrder'
  BY ReturnInOrder DEF Rollback

\* Calls that did not move are still in order.
LEMMA OthersInOrder ==
    ASSUME AllInOrder, NEW r \in Requests, InOrder(r)',
           \A s \in Requests \ {r} : pc'[s] = pc[s] /\ ins'[s] = ins[s] /\ todo'[s] = todo[s]
    PROVE  AllInOrder'
  BY DEF AllInOrder, InOrder

LEMMA InsertFileInOrder ==
    ASSUME Inv, AllInOrder, NEW r \in Requests, InsertFile(r)
    PROVE  AllInOrder'
<1> DEFINE f == NextFile(r)
           rows == [ins[r] EXCEPT !.files = @ \cup {f}]
<1>1. pc[r] = "files" /\ todo[r] # {} /\ Insert(r, files[f] # None, rows, "files", todo[r] \ {f})
  BY DEF InsertFile
<1>2. CASE Rollback(r)
  BY <1>2, RollbackInOrder
<1>3. CASE ~Rollback(r)
  <2>1. /\ ins' = IF files[f] # None THEN ins ELSE [ins EXCEPT ![r] = rows]
        /\ pc' = [pc EXCEPT ![r] = "files"]
        /\ todo' = [todo EXCEPT ![r] = todo[r] \ {f}]
    BY <1>1, <1>3 DEF Insert
  <2>2. todo[r] \subseteq Nat /\ ins[r].files \subseteq Nat
    BY FilesAssumption DEF Inv, TypeOK
  <2>3. f \in todo[r] /\ \A g \in todo[r] : f <= g
    <3>1. \E h \in todo[r] : \A g \in todo[r] : h <= g
      BY <1>1, <2>2, LeastExists
    <3> QED
      BY <3>1 DEF NextFile
  <2>4. ins'[r].files \subseteq ins[r].files \cup {f} /\ todo'[r] = todo[r] \ {f} /\ pc'[r] = "files"
    BY <2>1 DEF Inv, TypeOK
  <2>5. \A h \in ins[r].files, g \in todo[r] : h < g
    BY <1>1 DEF AllInOrder, InOrder
  <2>6. InOrder(r)'
    <3> HIDE DEF f
    <3> QED
      BY <2>2, <2>3, <2>4, <2>5 DEF InOrder
  <2> QED
    BY <2>1, <2>6, OthersInOrder DEF Inv, TypeOK
<1> QED
  BY <1>2, <1>3

LEMMA InsertStepInOrder ==
    ASSUME Inv, AllInOrder, NEW r \in Requests, InsertStep(r)
    PROVE  AllInOrder'
<1>1. CASE \E a : Return(r, a)
  BY <1>1, ReturnInOrder
<1>2. CASE /\ pc' = [pc EXCEPT ![r] = "begin"] \/ pc' = [pc EXCEPT ![r] = "metadata"]
           /\ ~AskShared(r)
  <2>1. CASE FindDID(r) \/ Begin(r)
    BY <1>2, <2>1, ReturnInOrder DEF FindDID, Begin, AllInOrder, InOrder, Inv, TypeOK
  <2>2. CASE ~(FindDID(r) \/ Begin(r) \/ \E a : Return(r, a))
    BY <1>2, <2>2 DEF InsertStep, Statement, InsertMetadata, InsertDataset, InsertFile, Insert,
                      Rollback, BeginFails, ExecFails, LockTimeout, Deadlock, Commit, CommitFails,
                      Inv, TypeOK
  <2> QED
    BY <1>1, <2>1, <2>2
<1>3. CASE InsertMetadata(r) /\ ~Rollback(r)
  <2>1. ins[r] = NoRows
    BY <1>3 DEF InsertMetadata, Inv, AllStaged, Staged
  <2>2. /\ pc' = [pc EXCEPT ![r] = "datasets"]
        /\ ins' = ins \/ ins' = [ins EXCEPT ![r] = [ins[r] EXCEPT !.meta = {call[r].did}]]
        /\ todo' = [todo EXCEPT ![r] = {}]
    BY <1>3 DEF InsertMetadata, Insert
  <2>3. InOrder(r)'
    BY <2>1, <2>2 DEF InOrder, NoRows, Inv, TypeOK
  <2> QED
    BY <2>2, <2>3, OthersInOrder DEF Inv, TypeOK
<1>4. CASE InsertDataset(r) /\ ~Rollback(r)
  <2>1. /\ pc' = [pc EXCEPT ![r] = "files"]
        /\ ins' = ins \/ ins' = [ins EXCEPT ![r] = [ins[r] EXCEPT !.datasets = {call[r].dataset}]]
        /\ todo' = [todo EXCEPT ![r] = call[r].walk]
    BY <1>4 DEF InsertDataset, Insert
  <2>2. ins[r].files = {}
    BY <1>4 DEF InsertDataset, AllInOrder, InOrder
  <2>3. InOrder(r)'
    BY <2>1, <2>2 DEF InOrder, Inv, TypeOK
  <2> QED
    BY <2>1, <2>3, OthersInOrder DEF Inv, TypeOK
<1>5. CASE InsertFile(r)
  BY <1>5, InsertFileInOrder
<1>6. CASE AskShared(r)
  BY <1>6 DEF AskShared, AllInOrder, InOrder
<1> QED
  BY <1>1, <1>2, <1>3, <1>4, <1>5, <1>6
     DEF InsertStep, Statement, FindDID, Begin, BeginFails, ExecFails, LockTimeout, Rollback,
         Deadlock, Commit, CommitFails

LEMMA InOrderStep ==
    ASSUME Inv, AllInOrder, [Next]_vars
    PROVE  AllInOrder'
<1>1. CASE \E r \in Requests, did \in Dids, ds \in Datasets, p \in Paths :
              \E w \in Walks(p) : Call(r, did, ds, w)
  BY <1>1 DEF Call, AllInOrder, InOrder, Inv, TypeOK
<1>2. CASE \E r \in Requests : InsertStep(r)
  BY <1>2, InsertStepInOrder
<1>3. CASE \/ \E q \in Readers, did \in Dids : ReadCall(q, did)
           \/ \E q \in Readers : ReadStep(q)
           \/ UNCHANGED vars
  BY <1>3 DEF ReadStep, ReadStatement, ReadCall, ReadBegin, ReadQuery, ReadDone, ReadFails, vars,
              AllInOrder, InOrder
<1>4. CASE Crash
  BY <1>4 DEF Crash, AllInOrder, InOrder, NoRows
<1> QED
  BY <1>1, <1>2, <1>3, <1>4 DEF Next, Finished

\* sqlite3: whoever waits for the write lock waits for a transaction that
\* waits, if at all, for readers.
LEMMA WriterDoesNotWait ==
    ASSUME Driver = "sqlite3", NEW S \in SUBSET Requests
    PROVE  ~Circle(S)
<1>1. ASSUME Circle(S) PROVE writer \in S
  <2>1. PICK r \in S : WaitsFor(r) \cap S # {}
    BY <1>1 DEF Circle
  <2> QED
    BY <2>1, ProcsAssumption DEF WaitsFor
<1>2. ASSUME writer \in S PROVE WaitsFor(writer) \cap S = {}
  BY <1>2, ProcsAssumption DEF WaitsFor
<1> QED
  BY <1>1, <1>2 DEF Circle

\* mysql: of the transactions in S, the one that is furthest in the order of
\* the keys asks for a key none of the others has a row of.
LEMMA FurthestMeetsNone ==
    ASSUME Inv, AllInOrder, NEW S \in SUBSET Requests, S # {}
    PROVE  \E r \in S : \A s \in S : (s = r \/ SameKey(r, s)) => Holders(s) \cap S = {}
<1> DEFINE Asking == {r \in S : pc[r] = "files" /\ todo[r] # {}}
<1>1. ASSUME NEW r \in Asking PROVE NextFile(r) \in todo[r] /\ NextFile(r) \in Files
  BY NextFileInTodo DEF Inv, TypeOK
<1>2. ASSUME NEW r \in S
      PROVE  /\ pc[r] \notin {"datasets", "files"} => ins[r] = NoRows
             /\ pc[r] = "datasets" => ins[r].datasets = {} /\ ins[r].files = {}
  BY DEF Inv, AllStaged, Staged, AllInOrder, InOrder
<1>3. CASE \E r \in S : pc[r] = "files" /\ todo[r] = {}
  BY <1>3 DEF Holders, SameKey
<1>4. CASE Asking # {} /\ ~(\E r \in S : pc[r] = "files" /\ todo[r] = {})
  <2> DEFINE Asked == {NextFile(r) : r \in Asking}
  <2>1. Asked \in SUBSET Files /\ Asked # {}
    BY <1>1, <1>4
  <2>2. Asked \subseteq Nat /\ IsFiniteSet(Asked)
    <3> HIDE DEF Asked
    <3> QED
      BY <2>1, FilesAssumption, FS_Subset
  <2>3. \E m \in Asked : \A g \in Asked : g <= m
    <3> HIDE DEF Asked
    <3> QED
      BY <2>1, <2>2, GreatestExists
  <2>4. PICK r \in Asking : \A s \in Asking : NextFile(s) <= NextFile(r)
    BY <2>3
  <2>5. ASSUME NEW s \in S, s = r \/ SameKey(r, s), NEW t \in S, t \in Holders(s)
        PROVE  FALSE
    <3>1. pc[s] = "files" /\ NextFile(s) = NextFile(r)
      BY <2>5 DEF SameKey
    <3>2. NextFile(r) \in ins[t].files
      BY <2>5, <3>1 DEF Holders
    <3>3. pc[t] = "files"
      BY <1>2, <3>2 DEF NoRows
    <3>4. t \in Asking
      BY <1>4, <3>3
    <3>5. NextFile(r) < NextFile(t)
      BY <1>1, <3>2, <3>3, <3>4 DEF AllInOrder, InOrder
    <3>6. NextFile(r) \in Nat /\ NextFile(t) \in Nat
      BY <1>1, <3>4, FilesAssumption
    <3> QED
      BY <2>4, <3>4, <3>5, <3>6
  <2> QED
    BY <2>5
<1>5. CASE ~(\E r \in S : pc[r] = "files") /\ \E r \in S : pc[r] = "datasets"
  <2>1. PICK r \in S : pc[r] = "datasets"
    BY <1>5
  <2>2. \A s \in S : ins[s].datasets = {}
    BY <1>2, <1>5 DEF NoRows
  <2> QED
    BY <2>1, <2>2 DEF Holders, SameKey
<1>6. CASE \A r \in S : pc[r] \notin {"datasets", "files"}
  BY <1>2, <1>6 DEF Holders, NoRows
<1> QED
  BY <1>3, <1>4, <1>5, <1>6

\* mysql: in a circle the furthest therefore waits for one that shares its
\* key, and so does that one.
LEMMA FurthestShares ==
    ASSUME Inv, AllInOrder, Driver = "mysql", NEW S \in SUBSET Requests, Circle(S)
    PROVE  \E r \in S : \E s \in S \ {r} :
              {r, s} \subseteq shared /\ s \in WaitsFor(r) /\ r \in WaitsFor(s)
<1>1. PICK q \in S : \A s \in S : (s = q \/ SameKey(q, s)) => Holders(s) \cap S = {}
  BY FurthestMeetsNone DEF Circle
<1>2. PICK r \in S : r \in WaitsFor(q)
  BY DEF Circle
<1>3. r \in shared /\ SameKey(q, r)
  BY <1>1, <1>2 DEF WaitsFor, Sharers
<1>4. PICK s \in S : s \in WaitsFor(r)
  BY DEF Circle
<1>5. s \in shared \ {r} /\ SameKey(r, s) /\ Holders(r) = {} /\ ~Duplicate(r)
  BY <1>1, <1>3, <1>4 DEF WaitsFor, Sharers
<1>6. SameKey(q, s)
  BY <1>3, <1>5 DEF SameKey
<1>7. WaitsFor(s) \cap S # {} /\ Holders(s) \cap S = {}
  BY <1>1, <1>6 DEF Circle
<1>8. Holders(s) = {} /\ ~Duplicate(s)
  BY <1>7 DEF WaitsFor, Sharers
<1>9. r \in WaitsFor(s)
  BY <1>3, <1>5, <1>8 DEF WaitsFor, Sharers, SameKey
<1> QED
  BY <1>3, <1>4, <1>5, <1>9

\* Open transactions wait for each other in a circle only after a rollback,
\* whatever the driver (CirclesShare): in any circle, even an infinite one,
\* two share the key of a row that was rolled back while they waited for it.
THEOREM DeadlocksShare == Spec => []CirclesShare
<1>1. Init => AllInOrder
  BY DEF Init, AllInOrder, InOrder
<1>2. Inv /\ AllInOrder /\ [Next]_vars => AllInOrder'
  BY InOrderStep
<1>3. Inv /\ AllInOrder => CirclesShare
  BY WriterDoesNotWait, FurthestShares, DriverAssumption DEF CirclesShare
<1> QED
  BY <1>1, <1>2, <1>3, Invariance, PTL DEF Spec
=============================================================================
