------------------------------ MODULE FilesDB ------------------------------
(***************************************************************************)
(* The relational bookkeeping database of the service (web/filesdb.go):    *)
(* goroutines run InsertFiles and getFiles against one sql.DB, each        *)
(* statement of a transaction being a step of its own.  A crash of the     *)
(* process, failing statements, failing commits and lock time-outs happen  *)
(* only when Faults names them.                                            *)
(*                                                                         *)
(* A definition whose name ends in _<Mistake> is not part of the model: it *)
(* is the definition after it with a mistake, and shows that the property  *)
(* it is meant for can fail.                                               *)
(***************************************************************************)
EXTENDS Naturals, FiniteSets

CONSTANTS
    Requests,      \* goroutines that run InsertFiles, one call each
    Readers,       \* goroutines that run getFiles, one call each
    Dids, Datasets, Paths,
    Files,         \* file names, as numbers in the order filepath.Walk visits
    Under,         \* [Paths -> what a walk may find], the path itself included
    Driver,        \* "sqlite3" or "mysql", the scheme of Config.FilesDBUri
    MaxOpenConns,  \* the limit of the connection pool
    Faults,        \* which faults may happen
    None

FaultKinds == {"lookup", "begin", "exec", "rollback", "timeout", "commit", "crash"}

ASSUME FilesAssumption   == Files \subseteq Nat /\ IsFiniteSet(Files)
ASSUME UnderAssumption   == Under \in [Paths -> (SUBSET Files) \ {{}}]
ASSUME DriverAssumption  == Driver \in {"sqlite3", "mysql"}
ASSUME PoolAssumption    == MaxOpenConns \in Nat \ {0}
ASSUME FaultsAssumption  == Faults \subseteq FaultKinds
ASSUME ProcsAssumption   == /\ Requests \cap Readers = {}
                            /\ None \notin Requests \cup Dids \cup Datasets
ASSUME NoneIsNoRow       == None \notin [did : Dids, dataset : Datasets]

VARIABLES
    meta, datasets, files,  \* the committed tables, see Bookkeeping
    writer,   \* sqlite3: who holds the database's one RESERVED lock, or None
    shared,   \* mysql: whose INSERT has met another's uncommitted row with its
              \* key and has asked for a shared lock on that key
    conns,    \* goroutines holding a connection of the pool
    pc,       \* where each InsertFiles call is
    call,     \* its arguments and the files its walk found
    ins,      \* the rows its open transaction has inserted
    todo,     \* files its loop has still to insert
    ret,      \* what it returned: "nil", "error" or "none" so far
    rpc, rdid, rans   \* the same for each getFiles call; rans is its answer

tables == <<meta, datasets, files>>
locks == <<writer, shared>>
inserts == <<pc, call, ins, todo, ret>>
reads == <<rpc, rdid, rans>>
vars == <<tables, locks, conns, inserts, reads>>

Rows  == [did : Dids, dataset : Datasets]
Calls == [did : Dids, dataset : Datasets, walk : SUBSET Files]
NoRows == [meta |-> {}, datasets |-> {}, files |-> {}]

ASSUME NoneIsNoCall == None \notin Calls

\* Walk appends the root before it looks inside; a directory that is being
\* filled may show any part of the rest
Root(p) == CHOOSE f \in Under[p] : \A g \in Under[p] : f <= g
Walks(p) == {w \in SUBSET Under[p] : Root(p) \in w}
----------------------------------------------------------------------------
Init ==
    /\ meta = {}
    /\ datasets = [d \in Datasets |-> None]
    /\ files = [f \in Files |-> None]
    /\ writer = None
    /\ shared = {}
    /\ conns = {}
    /\ pc = [r \in Requests |-> "idle"]
    /\ call = [r \in Requests |-> None]
    /\ ins = [r \in Requests |-> NoRows]
    /\ todo = [r \in Requests |-> {}]
    /\ ret = [r \in Requests |-> "none"]
    /\ rpc = [q \in Readers |-> "idle"]
    /\ rdid = [q \in Readers |-> None]
    /\ rans = [q \in Readers |-> {}]

PoolHasConn == Cardinality(conns) < MaxOpenConns

InTx(r) == pc[r] \in {"metadata", "datasets", "files"}
NextFile(r) == CHOOSE f \in todo[r] : \A g \in todo[r] : f <= g

\* mysql: the key the next INSERT of r is about, in its own table ...
SameKey(r, s) ==
    /\ pc[r] = pc[s]
    /\ \/ pc[r] = "metadata" /\ call[r].did = call[s].did
       \/ pc[r] = "datasets" /\ call[r].dataset = call[s].dataset
       \/ pc[r] = "files" /\ todo[r] # {} /\ todo[s] # {} /\ NextFile(r) = NextFile(s)

\* ... other transactions with an uncommitted row that has it ...
Holders(r) ==
    {s \in Requests \ {r} :
        \/ pc[r] = "metadata" /\ call[r].did \in ins[s].meta
        \/ pc[r] = "datasets" /\ call[r].dataset \in ins[s].datasets
        \/ pc[r] = "files" /\ todo[r] # {} /\ NextFile(r) \in ins[s].files}

\* ... and whether a committed row does
Duplicate(r) ==
    \/ pc[r] = "metadata" /\ call[r].did \in meta
    \/ pc[r] = "datasets" /\ datasets[call[r].dataset] # None
    \/ pc[r] = "files" /\ todo[r] # {} /\ files[NextFile(r)] # None

\* When the row they met is rolled back, all who asked get their shared lock
\* on its key, and none of them can insert it while another has one.
Sharers(r) ==
    IF Holders(r) = {} /\ ~Duplicate(r)
    THEN {s \in shared \ {r} : SameKey(r, s)} ELSE {}

\* Whom the next statement of r has to wait for.  sqlite3 admits one writing
\* transaction at a time and commits only when nobody reads; mysql locks keys.
WaitsFor(r) ==
    IF Driver = "sqlite3"
    THEN CASE pc[r] = "metadata" -> {writer} \ {None, r}
           [] pc[r] = "files" /\ todo[r] = {} -> {q \in Readers : rpc[q] = "scan"}
           [] OTHER -> {}
    ELSE Holders(r) \cup Sharers(r)

Circle(S) == S # {} /\ \A r \in S : WaitsFor(r) \cap S # {}
----------------------------------------------------------------------------
(* InsertFiles *)

Call(r, did, ds, w) ==
    /\ pc[r] = "idle"
    /\ pc' = [pc EXCEPT ![r] = "find"]
    /\ call' = [call EXCEPT ![r] = [did |-> did, dataset |-> ds, walk |-> w]]
    /\ UNCHANGED <<tables, locks, conns, ins, todo, ret, reads>>

\* the deferred rollback forgotten: the connection stays checked out
Return_KeepsConn(r, answer) ==
    /\ pc' = [pc EXCEPT ![r] = "done"]
    /\ ret' = [ret EXCEPT ![r] = answer]
    /\ writer' = IF writer = r THEN None ELSE writer
    /\ shared' = shared \ {r}
    /\ ins' = [ins EXCEPT ![r] = NoRows]
    /\ todo' = [todo EXCEPT ![r] = {}]
    /\ UNCHANGED <<conns, call, reads>>

\* ... or the write lock is never released
Return_KeepsLock(r, answer) ==
    /\ pc' = [pc EXCEPT ![r] = "done"]
    /\ ret' = [ret EXCEPT ![r] = answer]
    /\ conns' = conns \ {r}
    /\ ins' = [ins EXCEPT ![r] = NoRows]
    /\ todo' = [todo EXCEPT ![r] = {}]
    /\ UNCHANGED <<locks, call, reads>>

\* The call returns: its transaction is over, its connection back in the pool
Return(r, answer) ==
    /\ pc' = [pc EXCEPT ![r] = "done"]
    /\ ret' = [ret EXCEPT ![r] = answer]
    /\ conns' = conns \ {r}
    /\ writer' = IF writer = r THEN None ELSE writer
    /\ shared' = shared \ {r}
    /\ ins' = [ins EXCEPT ![r] = NoRows]
    /\ todo' = [todo EXCEPT ![r] = {}]
    /\ UNCHANGED <<call, reads>>

\* "return tx.Rollback()": what is returned is the error of the rollback
Rollback(r) ==
    /\ UNCHANGED tables
    /\ \/ Return(r, "nil")
       \/ "rollback" \in Faults /\ Return(r, "error")

Booked(did, ds) == did \in meta /\ datasets[ds] = did

\* The look-up borrows a connection for one query; any error of it counts as
\* "not there yet"
FindDID(r) ==
    /\ pc[r] = "find"
    /\ PoolHasConn
    /\ \/ Booked(call[r].did, call[r].dataset) /\ Return(r, "nil") /\ UNCHANGED tables
       \/ /\ ~Booked(call[r].did, call[r].dataset) \/ "lookup" \in Faults
          /\ pc' = [pc EXCEPT ![r] = "begin"]
          /\ UNCHANGED <<tables, locks, conns, call, ins, todo, ret, reads>>

Begin(r) ==
    /\ pc[r] = "begin"
    /\ PoolHasConn
    /\ pc' = [pc EXCEPT ![r] = "metadata"]
    /\ conns' = conns \cup {r}
    /\ UNCHANGED <<tables, locks, call, ins, todo, ret, reads>>

BeginFails(r) ==
    /\ "begin" \in Faults
    /\ pc[r] = "begin"
    /\ Return(r, "error")
    /\ UNCHANGED tables

\* no lock between the transactions
Insert_NoWait(r, duplicate, rows, next, left) ==
    /\ ins' = IF duplicate THEN ins ELSE [ins EXCEPT ![r] = rows]
    /\ writer' = IF Driver = "sqlite3" THEN r ELSE writer
    /\ shared' = shared \ {r}
    /\ pc' = [pc EXCEPT ![r] = next]
    /\ todo' = [todo EXCEPT ![r] = left]
    /\ UNCHANGED <<tables, conns, call, ret, reads>>

\* INSERT OR REPLACE
Insert_Replace(r, duplicate, rows, next, left) ==
    /\ WaitsFor(r) = {}
    /\ ins' = [ins EXCEPT ![r] = rows]
    /\ writer' = IF Driver = "sqlite3" THEN r ELSE writer
    /\ shared' = shared \ {r}
    /\ pc' = [pc EXCEPT ![r] = next]
    /\ todo' = [todo EXCEPT ![r] = left]
    /\ UNCHANGED <<tables, conns, call, ret, reads>>

\* One INSERT that is not blocked.  A duplicate key is ignored when the
\* error says UNIQUE, which only sqlite3's does.
Insert(r, duplicate, rows, next, left) ==
    /\ WaitsFor(r) = {}
    /\ \/ duplicate /\ Driver = "mysql" /\ Rollback(r)
       \/ /\ duplicate => Driver = "sqlite3"
          /\ ins' = IF duplicate THEN ins ELSE [ins EXCEPT ![r] = rows]
          /\ writer' = IF Driver = "sqlite3" THEN r ELSE writer
          /\ shared' = shared \ {r}
          /\ pc' = [pc EXCEPT ![r] = next]
          /\ todo' = [todo EXCEPT ![r] = left]
          /\ UNCHANGED <<tables, conns, call, ret, reads>>

InsertMetadata(r) ==
    /\ pc[r] = "metadata"
    /\ LET did == call[r].did
       IN  Insert(r, did \in meta, [ins[r] EXCEPT !.meta = {did}], "datasets", {})

\* the loop starts at the second file
InsertDataset_SkipsFirst(r) ==
    /\ pc[r] = "datasets"
    /\ LET ds == call[r].dataset
           w  == call[r].walk
       IN  Insert(r, datasets[ds] # None, [ins[r] EXCEPT !.datasets = {ds}],
                  "files", w \ {CHOOSE f \in w : \A g \in w : f <= g})

InsertDataset(r) ==
    /\ pc[r] = "datasets"
    /\ LET ds == call[r].dataset
       IN  Insert(r, datasets[ds] # None, [ins[r] EXCEPT !.datasets = {ds}],
                  "files", call[r].walk)

\* FilesDB.Exec instead of tx.Exec: the row is there at once
InsertFile_Autocommit(r) ==
    /\ pc[r] = "files" /\ todo[r] # {}
    /\ WaitsFor(r) = {}
    /\ files' = [files EXCEPT ![NextFile(r)] =
                    IF @ = None THEN [did |-> call[r].did, dataset |-> call[r].dataset] ELSE @]
    /\ todo' = [todo EXCEPT ![r] = @ \ {NextFile(r)}]
    /\ UNCHANGED <<meta, datasets, locks, conns, pc, call, ins, ret, reads>>

\* files inserted as they come, not in the order of the walk
InsertFile_AnyOrder(r) ==
    /\ pc[r] = "files"
    /\ \E f \in todo[r] :
          /\ \A s \in Requests \ {r} : f \notin ins[s].files
          /\ Insert(r, files[f] # None, [ins[r] EXCEPT !.files = @ \cup {f}],
                    "files", todo[r] \ {f})

InsertFile(r) ==
    /\ pc[r] = "files"
    /\ todo[r] # {}
    /\ LET f == NextFile(r)
       IN  Insert(r, files[f] # None, [ins[r] EXCEPT !.files = @ \cup {f}],
                  "files", todo[r] \ {f})

\* mysql: the INSERT meets another's row and queues for a shared lock on it
AskShared(r) ==
    /\ Driver = "mysql"
    /\ Holders(r) # {}
    /\ r \notin shared
    /\ shared' = shared \cup {r}
    /\ UNCHANGED <<tables, writer, conns, inserts, reads>>

\* mysql looks for circles of waiting transactions and fails the statement of
\* one in the smallest
Deadlock(r) ==
    /\ Driver = "mysql"
    /\ \E S \in SUBSET Requests :
          /\ r \in S
          /\ Circle(S)
          /\ \A T \in SUBSET S : Circle(T) => T = S
    /\ Rollback(r)

\* A statement fails, or gives up waiting for a lock: roll back
ExecFails(r) ==
    /\ "exec" \in Faults
    /\ InTx(r)
    /\ Rollback(r)

LockTimeout(r) ==
    /\ "timeout" \in Faults
    /\ InTx(r) /\ ~(pc[r] = "files" /\ todo[r] = {})
    /\ WaitsFor(r) # {}
    /\ Rollback(r)

Apply(r) ==
    /\ meta' = meta \cup ins[r].meta
    /\ datasets' = [d \in Datasets |->
                      IF d \in ins[r].datasets THEN call[r].did ELSE datasets[d]]
    /\ files' = [f \in Files |->
                      IF f \in ins[r].files
                      THEN [did |-> call[r].did, dataset |-> call[r].dataset]
                      ELSE files[f]]

Commit(r) ==
    /\ pc[r] = "files" /\ todo[r] = {}
    /\ WaitsFor(r) = {}
    /\ Apply(r)
    /\ Return(r, "nil")

\* After a failed commit the rollback answers ErrTxDone, so the caller does
\* see an error; a mysql server may have committed before the reply was lost
CommitFails(r) ==
    /\ pc[r] = "files" /\ todo[r] = {}
    /\ "commit" \in Faults \/ ("timeout" \in Faults /\ WaitsFor(r) # {})
    /\ UNCHANGED tables \/ (Driver = "mysql" /\ Apply(r))
    /\ Return(r, "error")
----------------------------------------------------------------------------
(* getFiles *)

ReadCall(q, did) ==
    /\ rpc[q] = "idle"
    /\ rpc' = [rpc EXCEPT ![q] = "begin"]
    /\ rdid' = [rdid EXCEPT ![q] = did]
    /\ UNCHANGED <<tables, locks, conns, inserts, rans>>

ReadBegin(q) ==
    /\ rpc[q] = "begin"
    /\ PoolHasConn
    /\ rpc' = [rpc EXCEPT ![q] = "query"]
    /\ conns' = conns \cup {q}
    /\ UNCHANGED <<tables, locks, inserts, rdid, rans>>

FilesOf(did) == {f \in Files : files[f] # None /\ files[f].did = did}

\* SELECT M.did instead of SELECT F.file
ReadQuery_Did(q) ==
    /\ rpc[q] = "query"
    /\ rpc' = [rpc EXCEPT ![q] = "scan"]
    /\ rans' = [rans EXCEPT ![q] = IF FilesOf(rdid[q]) = {} THEN {} ELSE {rdid[q]}]
    /\ UNCHANGED <<tables, locks, conns, inserts, rdid>>

ReadQuery(q) ==
    /\ rpc[q] = "query"
    /\ rpc' = [rpc EXCEPT ![q] = "scan"]
    /\ rans' = [rans EXCEPT ![q] = FilesOf(rdid[q])]
    /\ UNCHANGED <<tables, locks, conns, inserts, rdid>>

\* The rows are read out; an error of the query or in the middle of the rows
\* leaves what was read so far and, if the rollback works, is reported as nil
ReadDone(q) ==
    /\ rpc[q] = "scan"
    /\ rpc' = [rpc EXCEPT ![q] = "done"]
    /\ \/ UNCHANGED rans
       \/ "exec" \in Faults /\ \E part \in SUBSET rans[q] : rans' = [rans EXCEPT ![q] = part]
    /\ conns' = conns \ {q}
    /\ UNCHANGED <<tables, locks, inserts, rdid>>

ReadFails(q) ==
    /\ \/ rpc[q] = "begin" /\ "begin" \in Faults
       \/ rpc[q] = "scan" /\ {"exec", "rollback"} \subseteq Faults
    /\ rpc' = [rpc EXCEPT ![q] = "failed"]
    /\ rans' = [rans EXCEPT ![q] = {}]
    /\ conns' = conns \ {q}
    /\ UNCHANGED <<tables, locks, inserts, rdid>>
----------------------------------------------------------------------------
\* The process dies and is started again: what was not committed is gone
Crash ==
    /\ "crash" \in Faults
    /\ writer' = None
    /\ shared' = {}
    /\ conns' = {}
    /\ pc' = [r \in Requests |-> IF pc[r] \in {"idle", "done"} THEN pc[r] ELSE "lost"]
    /\ ins' = [r \in Requests |-> NoRows]
    /\ todo' = [r \in Requests |-> {}]
    /\ rpc' = [q \in Readers |-> IF rpc[q] \in {"idle", "done", "failed"} THEN rpc[q] ELSE "lost"]
    /\ UNCHANGED <<tables, call, ret, rdid, rans>>

\* What a call does by itself, and how it may fail
Statement(r) ==
    \/ FindDID(r) \/ Begin(r)
    \/ InsertMetadata(r) \/ InsertDataset(r) \/ InsertFile(r) \/ AskShared(r)
    \/ Commit(r)
    \/ Deadlock(r)

InsertStep(r) ==
    \/ Statement(r)
    \/ BeginFails(r) \/ ExecFails(r) \/ LockTimeout(r) \/ CommitFails(r)

ReadStatement(q) == ReadBegin(q) \/ ReadQuery(q) \/ ReadDone(q)

ReadStep(q) == ReadStatement(q) \/ ReadFails(q)

\* every call is over and no more will come
Finished ==
    /\ \A r \in Requests : pc[r] \in {"done", "lost"}
    /\ \A q \in Readers : rpc[q] \in {"done", "failed", "lost"}
    /\ UNCHANGED vars

Next ==
    \/ \E r \in Requests, did \in Dids, ds \in Datasets, p \in Paths :
          \E w \in Walks(p) : Call(r, did, ds, w)
    \/ \E r \in Requests : InsertStep(r)
    \/ \E q \in Readers, did \in Dids : ReadCall(q, did)
    \/ \E q \in Readers : ReadStep(q)
    \/ Crash
    \/ Finished

Spec == Init /\ [][Next]_vars
----------------------------------------------------------------------------
(* Properties *)

TablesOK ==
    /\ meta \subseteq Dids
    /\ datasets \in [Datasets -> Dids \cup {None}]
    /\ files \in [Files -> Rows \cup {None}]

\* The state stays in its types (the columns of web/schemas/sqlite.sql and
\* the local variables of InsertFiles and getFiles).
TypeOK ==
    /\ TablesOK
    /\ writer \in Requests \cup {None}
    /\ shared \subseteq Requests
    /\ conns \subseteq Requests \cup Readers
    /\ pc \in [Requests -> {"idle", "find", "begin", "metadata", "datasets",
                            "files", "done", "lost"}]
    /\ call \in [Requests -> Calls \cup {None}]
    /\ \A r \in Requests : pc[r] # "idle" => call[r] \in Calls
    /\ ins \in [Requests -> [meta : SUBSET Dids, datasets : SUBSET Datasets,
                             files : SUBSET Files]]
    /\ todo \in [Requests -> SUBSET Files]
    /\ ret \in [Requests -> {"none", "nil", "error"}]
    /\ rpc \in [Readers -> {"idle", "begin", "query", "scan", "done", "failed", "lost"}]
    /\ rdid \in [Readers -> Dids \cup {None}]
    /\ rans \in [Readers -> SUBSET Files]

\* Whatever the order of the steps and wherever one of them fails, a dataset
\* row points to a metadata row, and a file row to a metadata row and a
\* dataset row.  Nothing but the transaction of InsertFiles sees to it:
\* sqlite3 does not enforce the REFERENCES of the schema by default.
Integrity ==
    /\ \A d \in Datasets : datasets[d] # None => datasets[d] \in meta
    /\ \A f \in Files : files[f] # None =>
          files[f].did \in meta /\ datasets[files[f].dataset] # None

\* Two open transactions never hold uncommitted rows with the same key, and
\* with sqlite3 only the owner of the write lock holds any.
KeysExclusive ==
    \A r \in Requests :
       /\ Driver = "sqlite3" /\ ins[r] # NoRows => writer = r
       /\ \A s \in Requests \ {r} :
             /\ ins[r].meta \cap ins[s].meta = {}
             /\ ins[r].datasets \cap ins[s].datasets = {}
             /\ ins[r].files \cap ins[s].files = {}

\* What an open transaction knows of itself and of the committed tables:
\* rows it inserted are its own and still missing there, rows it did not
\* insert are there already.  This is what makes the commit a whole booking.
Staged(r) ==
    /\ pc[r] \notin {"datasets", "files"} => ins[r] = NoRows
    /\ pc[r] \in {"datasets", "files"} =>
          /\ Driver = "sqlite3" => writer = r
          /\ ins[r].meta \subseteq {call[r].did} \ meta
          /\ call[r].did \in meta \cup ins[r].meta
          /\ \A d \in ins[r].datasets : d = call[r].dataset /\ datasets[d] = None
          /\ \A f \in ins[r].files : f \in call[r].walk /\ files[f] = None
    /\ pc[r] = "files" =>
          /\ todo[r] \subseteq call[r].walk
          /\ call[r].dataset \in ins[r].datasets \/ datasets[call[r].dataset] # None
          /\ \A f \in call[r].walk \ todo[r] : f \in ins[r].files \/ files[f] # None

AllStaged == \A r \in Requests : Staged(r)

\* On none of the many ways out of InsertFiles and getFiles is a pooled
\* connection, a lock or an uncommitted row left behind, and the
\* pool's limit is kept.
NoLeak ==
    /\ \A r \in Requests : ~InTx(r) => r \notin conns \cup shared /\ writer # r /\ ins[r] = NoRows
    /\ \A q \in Readers : rpc[q] \notin {"query", "scan"} => q \notin conns
    /\ Cardinality(conns) <= MaxOpenConns

\* Transactions that wait for each other in a circle always include two that
\* were both waiting for a row which was then rolled back.  In no other way
\* can they deadlock: all of them take their keys in the same order, the did,
\* the dataset, the files as walked.
CirclesShare ==
    \A S \in SUBSET Requests : Circle(S) =>
       \E r \in S : \E s \in S \ {r} :
          {r, s} \subseteq shared /\ s \in WaitsFor(r) /\ r \in WaitsFor(s)

\* Seen through the committed tables, every call is one indivisible booking
\* of all it was asked to book, or nothing; rows never change (Bookkeeping).
B == INSTANCE Bookkeeping WITH meta <- meta, datasets <- datasets, files <- files
Books == B!Spec

\* Every InsertFiles and every getFiles that was called returns.
Returns ==
    /\ \A r \in Requests : pc[r] = "find" ~> pc[r] \in {"done", "lost"}
    /\ \A q \in Readers : rpc[q] = "begin" ~> rpc[q] \in {"done", "failed", "lost"}

\* What TestFilesDB expects: after InsertFiles returned without an error,
\* getFiles lists files for the did.
NilMeansListed ==
    \A r \in Requests : ret[r] = "nil" => FilesOf(call[r].did) # {}
============================================================================
