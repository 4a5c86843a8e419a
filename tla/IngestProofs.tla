---------------------------- MODULE IngestProofs ----------------------------
(***************************************************************************)
(* Theorems about the ingest pipeline, for any number of requests, readers *)
(* and files.  Every step of the pipeline is a step of FilesDB or leaves   *)
(* its variables alone, so what FilesDBProofs proves of a step holds here. *)
(***************************************************************************)
EXTENDS Ingest, FilesDBProofs

USE DEF tables, inserts, reads, locks, handlers

LEMMA FilesDBStep ==
    ASSUME [INext]_ivars
    PROVE  [Next]_vars
<1>1. CASE \E r \in Requests, ds \in Datasets, p \in Paths : \E w \in Walks(p) : Submit(r, ds, w)
  BY <1>1, FreshDids DEF Submit, Next
<1>2. CASE \E r \in Requests : Refuse(r) \/ HandlerStep(r)
  BY <1>2 DEF Refuse, HandlerStep, FilesStep, NotBooked, InsertFilesOk, UpsertMatch, UpsertMiss,
              UpsertCreate, UpsertFails, Next
<1>3. CASE ICrash
  BY <1>3 DEF ICrash, Next
<1> QED
  BY <1>1, <1>2, <1>3 DEF INext, IFinished, ivars, Next
----------------------------------------------------------------------------
(* The inductive invariant *)

\* How far the handler of a request and its InsertFiles call can be apart.
Sequenced(r) ==
    /\ hpc[r] = "idle" => pc[r] = "idle" /\ resp[r] = "none"
    /\ hpc[r] \in {"upsert", "create"} => ret[r] = "nil"
    /\ pc[r] # "idle" => call[r].did = r
    /\ ret[r] # "none" => pc[r] = "done"
    /\ resp[r] # "none" => hpc[r] = "answered"
    /\ resp[r] = "ok" => ret[r] = "nil"
    /\ r \in meta => pc[r] \in {"done", "lost"}

AllSequenced == \A r \in Requests : Sequenced(r)

IInv == Inv /\ Integrity /\ ITypeOK /\ AllSequenced

\* A commit books the did of the request that commits, and no other step
\* books anything.
LEMMA CommitStep ==
    ASSUME Inv, AllSequenced, [Next]_vars
    PROVE  \/ UNCHANGED tables
           \/ \E r \in Requests :
                 /\ pc[r] = "files" /\ pc' = [pc EXCEPT ![r] = "done"]
                 /\ UNCHANGED call
                 /\ call[r] \in Calls /\ call[r].did = r
                 /\ B!Book(r, call[r].dataset, call[r].walk)
<1>1. ASSUME NEW r \in Requests, pc[r] = "files", todo[r] = {}, Apply(r),
             \E a \in {"nil", "error"} : Return(r, a)
      PROVE  /\ pc[r] = "files" /\ pc' = [pc EXCEPT ![r] = "done"]
             /\ UNCHANGED call
             /\ call[r] \in Calls /\ call[r].did = r
             /\ B!Book(r, call[r].dataset, call[r].walk)
  <2>1. call[r].did = r
    BY <1>1 DEF AllSequenced, Sequenced
  <2>2. B!Book(r, call[r].dataset, call[r].walk)
    BY <1>1, <2>1, CommitBooks
  <2> QED
    BY <1>1, <2>1, <2>2 DEF Return, Inv, TypeOK
<1> QED
  BY <1>1, TablesStep

\* A step of FilesDB that no handler sees.
LEMMA SequencedFilesDB ==
    ASSUME Inv, AllSequenced, [Next]_vars, UNCHANGED handlers,
           \A s \in Requests : pc[s] = "idle" => pc'[s] = "idle"
    PROVE  AllSequenced'
<1> SUFFICES ASSUME NEW s \in Requests PROVE Sequenced(s)'
  BY DEF AllSequenced
<1>1. Sequenced(s)
  BY DEF AllSequenced
<1>2. /\ pc[s] # "idle" => pc'[s] # "idle" /\ call'[s] = call[s]
      /\ pc[s] \in {"done", "lost"} => pc'[s] = pc[s] /\ ret'[s] = ret[s]
      /\ ret'[s] # ret[s] => pc'[s] = "done"
  BY CallStep
<1>3. s \in meta' => s \in meta \/ pc'[s] = "done"
  <2>1. CASE UNCHANGED tables
    BY <2>1
  <2>2. CASE ~UNCHANGED tables
    <3>1. PICK r \in Requests : pc' = [pc EXCEPT ![r] = "done"]
                                /\ B!Book(r, call[r].dataset, call[r].walk)
      BY <2>2, CommitStep
    <3>2. meta' = meta \cup {r} /\ pc'[r] = "done"
      BY <3>1 DEF B!Book, Inv, TypeOK
    <3> QED
      BY <3>2
  <2> QED
    BY <2>1, <2>2
<1>4. hpc'[s] = hpc[s] /\ resp'[s] = resp[s]
  OBVIOUS
<1> QED
  BY <1>1, <1>2, <1>3, <1>4 DEF Sequenced

LEMMA SequencedStep ==
    ASSUME Inv, ITypeOK, AllSequenced, [INext]_ivars
    PROVE  AllSequenced'
<1>1. CASE \E r \in Requests : Refuse(r)
  BY <1>1 DEF Refuse, Answer, AllSequenced, Sequenced, ITypeOK, vars
<1>2. CASE \E r \in Requests, ds \in Datasets, p \in Paths : \E w \in Walks(p) : Submit(r, ds, w)
  BY <1>2 DEF Submit, Call, AllSequenced, Sequenced, ITypeOK, TypeOK
<1>3. CASE \E r \in Requests : FilesStep(r)
  <2>1. PICK r \in Requests : FilesStep(r)
    BY <1>3
  <2>2. \A s \in Requests : pc[s] = "idle" => pc'[s] = "idle"
    <3>1. pc[r] # "idle"
      BY <2>1, BlockedInTx, AskingInTx
         DEF FilesStep, InsertStep, Statement, FindDID, Begin, BeginFails, InsertMetadata,
             InsertDataset, InsertFile, ExecFails, LockTimeout, InTx, Commit, CommitFails
    <3>2. \A s \in Requests \ {r} : pc'[s] = pc[s]
      BY <2>1 DEF FilesStep, InsertStep, Statement, FindDID, Begin, BeginFails, InsertMetadata,
                  InsertDataset, InsertFile, Insert, Rollback, Return, ExecFails, LockTimeout,
                  AskShared, Deadlock, InTx, Commit, CommitFails, Inv, TypeOK
    <3> QED
      BY <3>1, <3>2
  <2> QED
    BY <2>1, <2>2, FilesDBStep, SequencedFilesDB DEF FilesStep
<1>4. CASE \E r \in Requests : NotBooked(r) \/ InsertFilesOk(r) \/ UpsertMatch(r) \/ UpsertMiss(r)
                               \/ UpsertCreate(r) \/ UpsertFails(r)
  BY <1>4 DEF NotBooked, InsertFilesOk, UpsertMatch, UpsertMiss, UpsertCreate, UpsertFails, Answer,
              AllSequenced, Sequenced, ITypeOK, vars
<1>5. CASE \/ \E q \in Readers, did \in Dids : ReadCall(q, did) /\ UNCHANGED handlers
           \/ \E q \in Readers : ReadStep(q) /\ UNCHANGED handlers
           \/ UNCHANGED ivars
  BY <1>5 DEF ReadStep, ReadStatement, ReadCall, ReadBegin, ReadQuery, ReadDone, ReadFails,
              ivars, vars, AllSequenced, Sequenced
<1>6. CASE ICrash
  BY <1>6 DEF ICrash, Crash, AllSequenced, Sequenced, ITypeOK, TypeOK
<1> QED
  BY <1>1, <1>2, <1>3, <1>4, <1>5, <1>6 DEF INext, HandlerStep, IFinished

\* The documents written are those of a booked submission: its did, its
\* dataset.
LEMMA ITypeStep ==
    ASSUME Inv, ITypeOK, AllSequenced, [INext]_ivars
    PROVE  ITypeOK'
<1>1. TypeOK'
  BY FilesDBStep, TypeStep DEF Inv
<1>2. /\ hpc' \in [Requests -> {"idle", "insert", "upsert", "create", "answered", "lost"}]
      /\ resp' \in [Requests -> {"none", "ok", "error"}]
  BY DEF INext, HandlerStep, Refuse, Submit, FilesStep, NotBooked, InsertFilesOk, UpsertMatch,
         UpsertMiss, UpsertCreate, UpsertFails, ICrash, IFinished, Answer, ivars, ITypeOK
<1>3. docs' \subseteq Docs
  <2>1. CASE UNCHANGED docs
    BY <2>1 DEF ITypeOK
  <2>2. ASSUME NEW r \in Requests, hpc[r] \in {"upsert", "create"},
               SetFields(r) \/ docs' = docs \cup {NewDoc(r)}
        PROVE  docs' \subseteq Docs
    <3>1. call[r] \in Calls
      BY <2>2 DEF AllSequenced, Sequenced, ITypeOK, TypeOK
    <3>2. NewDoc(r) \in Docs
      BY <3>1 DEF NewDoc, Docs, Calls
    <3>3. ASSUME NEW d \in docs PROVE [d EXCEPT !.did = call[r].did] \in Docs
      BY <3>1 DEF ITypeOK, Docs, Calls
    <3> QED
      BY <2>2, <3>2, <3>3 DEF SetFields, Matching, ITypeOK
  <2> QED
    BY <2>1, <2>2 DEF INext, HandlerStep, Refuse, Submit, FilesStep, NotBooked, InsertFilesOk,
         UpsertMatch, UpsertMiss, UpsertCreate, UpsertFails, ICrash, IFinished, ivars
<1> QED
  BY <1>1, <1>2, <1>3 DEF ITypeOK

LEMMA IInvInit ==
    ASSUME IInit
    PROVE  IInv
<1>1. Inv /\ Integrity
  BY InvInit, IntegrityInit DEF IInit
<1> QED
  BY <1>1 DEF IInit, Init, Inv, IInv, ITypeOK, AllSequenced, Sequenced

LEMMA IInvStep ==
    ASSUME IInv, [INext]_ivars
    PROVE  IInv'
  BY FilesDBStep, InvStep, IntegrityStep, SequencedStep, ITypeStep DEF IInv

\* The inductive invariant of the pipeline.
THEOREM PipelineInvariance == ISpec => []IInv
<1>1. IInit => IInv
  BY IInvInit
<1>2. IInv /\ [INext]_ivars => IInv'
  BY IInvStep
<1> QED
  BY <1>1, <1>2, PTL DEF ISpec

\* The state of the pipeline stays in its types (ITypeOK).
THEOREM PipelineTypes == ISpec => []ITypeOK
  BY PipelineInvariance, PTL DEF IInv
----------------------------------------------------------------------------
(* The tables *)

\* A did that is booked belongs to a call that is over, so what the call was
\* asked to book stands.
LEMMA BookedStands ==
    ASSUME IInv, [INext]_ivars, NEW r \in Requests, r \in meta
    PROVE  call'[r] = call[r] /\ call[r] \in Calls
<1>1. pc[r] \in {"done", "lost"}
  BY DEF IInv, AllSequenced, Sequenced
<1> QED
  BY <1>1, FilesDBStep, CallStep DEF IInv, Inv, TypeOK

\* How the tables change, in terms of the request that commits.
LEMMA BookStep ==
    ASSUME IInv, [INext]_ivars
    PROVE  \/ UNCHANGED tables
           \/ \E r \in Requests :
                 /\ r \notin meta /\ hpc[r] = "insert"
                 /\ UNCHANGED <<call, rpc, rdid, rans, handlers>>
                 /\ call[r] \in Calls
                 /\ B!Book(r, call[r].dataset, call[r].walk)
<1>1. CASE UNCHANGED tables
  BY <1>1
<1>2. CASE ~UNCHANGED tables
  <2>1. PICK r \in Requests :
             /\ pc[r] = "files" /\ pc' = [pc EXCEPT ![r] = "done"]
             /\ UNCHANGED call
             /\ call[r] \in Calls
             /\ B!Book(r, call[r].dataset, call[r].walk)
    BY <1>2, FilesDBStep, CommitStep DEF IInv
  <2>2. PICK s \in Requests : FilesStep(s)
    BY <1>2 DEF INext, Refuse, Submit, Call, HandlerStep, NotBooked, InsertFilesOk, UpsertMatch,
                UpsertMiss, UpsertCreate, UpsertFails, ICrash, Crash, IFinished, ivars, vars,
                ReadStep, ReadStatement, ReadCall, ReadBegin, ReadQuery, ReadDone, ReadFails
  <2>3. r = s
    <3>1. \A x \in Requests \ {s} : pc'[x] = pc[x]
      BY <2>2 DEF FilesStep, InsertStep, Statement, FindDID, Begin, BeginFails, InsertMetadata,
                  InsertDataset, InsertFile, Insert, Rollback, Return, ExecFails, LockTimeout,
                  AskShared, Deadlock, InTx, Commit, CommitFails, IInv, Inv, TypeOK
    <3> QED
      BY <2>1, <3>1 DEF IInv, Inv, TypeOK
  <2>4. UNCHANGED reads
    BY <2>2 DEF FilesStep, InsertStep, Statement, FindDID, Begin, BeginFails, InsertMetadata,
                InsertDataset, InsertFile, Insert, Rollback, Return, ExecFails, LockTimeout,
                AskShared, Deadlock, Commit, CommitFails
  <2>5. r \notin meta
    BY <2>1 DEF IInv, AllSequenced, Sequenced
  <2> QED
    BY <2>1, <2>2, <2>3, <2>4, <2>5 DEF FilesStep
<1> QED
  BY <1>1, <1>2

\* What a booking makes of the tables, row by row.
LEMMA BookDataset ==
    ASSUME NEW did \in Dids, NEW ds \in Datasets, NEW fs \in SUBSET Files, B!Book(did, ds, fs)
    PROVE  /\ meta' = meta \cup {did}
           /\ datasets'[ds] # None
           /\ \A d \in Datasets : datasets[d] # None => datasets'[d] = datasets[d]
  BY ProcsAssumption DEF B!Book

LEMMA BookFiles ==
    ASSUME NEW did \in Dids, NEW ds \in Datasets, NEW fs \in SUBSET Files, B!Book(did, ds, fs)
    PROVE  /\ \A f \in fs : files'[f] # None
           /\ \A f \in Files : files[f] # None => files'[f] = files[f]
<1>1. [did |-> did, dataset |-> ds] # None
  BY NoneIsNoRow
<1> QED
  BY <1>1 DEF B!Book

LEMMA BookOwner ==
    ASSUME NEW did, NEW ds, NEW fs, B!Book(did, ds, fs), NEW f \in Files
    PROVE  files'[f] = files[f] \/ (f \in fs /\ files'[f] = [did |-> did, dataset |-> ds])
  BY DEF B!Book

\* Whatever fails or overlaps, a did in FilesDB is there with its dataset
\* and with every file of its walk (WholeBooking): InsertFiles commits all of
\* a submission or nothing, and later submissions take nothing away.
THEOREM BookingIsWhole == ISpec => []WholeBooking
<1>1. IInit => WholeBooking
  BY DEF IInit, Init, WholeBooking
<1>2. IInv /\ WholeBooking /\ [INext]_ivars => WholeBooking'
  <2> SUFFICES ASSUME IInv, WholeBooking, [INext]_ivars, NEW r \in Requests, r \in meta'
               PROVE  datasets'[call'[r].dataset] # None /\ \A f \in call'[r].walk : files'[f] # None
    BY DEF WholeBooking
  <2>1. CASE UNCHANGED tables
    BY <2>1, BookedStands DEF WholeBooking
  <2>2. ASSUME NEW s \in Requests, UNCHANGED call, call[s] \in Calls,
               B!Book(s, call[s].dataset, call[s].walk)
        PROVE  datasets'[call'[r].dataset] # None /\ \A f \in call'[r].walk : files'[f] # None
    <3>1. s \in Dids /\ call[s].dataset \in Datasets /\ call[s].walk \in SUBSET Files
      BY <2>2, FreshDids DEF Calls
    <3>2. /\ meta' = meta \cup {s}
          /\ datasets'[call[s].dataset] # None
          /\ \A d \in Datasets : datasets[d] # None => datasets'[d] = datasets[d]
      BY <2>2, <3>1, BookDataset
    <3>3. /\ \A f \in call[s].walk : files'[f] # None
          /\ \A f \in Files : files[f] # None => files'[f] = files[f]
      BY <2>2, <3>1, BookFiles
    <3>4. CASE r = s
      BY <2>2, <3>2, <3>3, <3>4
    <3>5. CASE r \in meta
      <4>1. call[r] \in Calls
        BY <3>5, BookedStands
      <4>2. call[r].dataset \in Datasets /\ call[r].walk \subseteq Files
        BY <4>1 DEF Calls
      <4> QED
        BY <2>2, <3>2, <3>3, <3>5, <4>2 DEF WholeBooking
    <3> QED
      BY <3>2, <3>4, <3>5
  <2> QED
    BY <2>1, <2>2, BookStep
<1> QED
  BY <1>1, <1>2, PipelineInvariance, PTL DEF ISpec

\* A file row names the dataset and the walk of the submission it belongs to.
FilesBelong ==
    \A f \in Files : files[f] # None =>
       /\ files[f].did \in meta \cap Requests
       /\ files[f].dataset = call[files[f].did].dataset
       /\ f \in call[files[f].did].walk

LEMMA FilesBelongStep ==
    ASSUME IInv, FilesBelong, [INext]_ivars
    PROVE  FilesBelong'
<1> SUFFICES ASSUME NEW f \in Files, files'[f] # None
             PROVE  /\ files'[f].did \in meta' \cap Requests
                    /\ files'[f].dataset = call'[files'[f].did].dataset
                    /\ f \in call'[files'[f].did].walk
  BY DEF FilesBelong
<1>1. CASE files'[f] = files[f] /\ meta \subseteq meta'
  BY <1>1, BookedStands DEF FilesBelong
<1>2. CASE UNCHANGED tables
  BY <1>1, <1>2
<1>3. ASSUME NEW s \in Requests, UNCHANGED call, call[s] \in Calls,
             B!Book(s, call[s].dataset, call[s].walk)
      PROVE  /\ files'[f].did \in meta' \cap Requests
             /\ files'[f].dataset = call'[files'[f].did].dataset
             /\ f \in call'[files'[f].did].walk
  <2>1. s \in Dids /\ call[s].dataset \in Datasets /\ call[s].walk \in SUBSET Files
    BY <1>3, FreshDids DEF Calls
  <2>2. /\ meta' = meta \cup {s}
        /\ \/ files'[f] = files[f]
           \/ f \in call[s].walk /\ files'[f] = [did |-> s, dataset |-> call[s].dataset]
    BY <1>3, <2>1, BookDataset, BookOwner
  <2> QED
    BY <1>1, <1>3, <2>2
<1> QED
  BY <1>2, <1>3, BookStep

LEMMA FilesBelongAlways == ISpec => []FilesBelong
<1>1. IInit => FilesBelong
  BY DEF IInit, Init, FilesBelong
<1>2. IInv /\ FilesBelong /\ [INext]_ivars => FilesBelong'
  BY FilesBelongStep
<1> QED
  BY <1>1, <1>2, PipelineInvariance, PTL DEF ISpec
----------------------------------------------------------------------------
(* The documents *)

\* The document an upsert leaves behind: a new one, or one that it found
\* under the same dataset, with the did of the request.
Deposit(r, old, id) ==
    docs' = (docs \ old) \cup {[id |-> id, dataset |-> call[r].dataset, did |-> r]}

\* How the collection and the answers change: a request whose InsertFiles
\* returned without an error deposits its document and answers, or nobody is
\* told "ok".
LEMMA DepositStep ==
    ASSUME IInv, [INext]_ivars
    PROVE  \/ UNCHANGED docs /\ \A r \in Requests : resp'[r] = "ok" => resp[r] = "ok"
           \/ \E r \in Requests, id \in Requests, old \in SUBSET docs, a \in {"ok", "error"} :
                 /\ ret[r] = "nil" /\ call[r] \in Calls /\ UNCHANGED vars
                 /\ \A d \in old : d.dataset = call[r].dataset
                 /\ Deposit(r, old, id)
                 /\ resp' = [resp EXCEPT ![r] = a]
<1>1. ASSUME NEW r \in Requests, hpc[r] \in {"upsert", "create"}, UNCHANGED vars,
             SetFields(r) \/ docs' = docs \cup {NewDoc(r)},
             NEW a \in {"ok", "error"}, Answer(r, a)
      PROVE  \E id \in Requests, old \in SUBSET docs :
                 /\ ret[r] = "nil" /\ call[r] \in Calls
                 /\ \A d \in old : d.dataset = call[r].dataset
                 /\ Deposit(r, old, id)
  <2>1. ret[r] = "nil" /\ call[r] \in Calls /\ call[r].did = r
    BY <1>1 DEF IInv, AllSequenced, Sequenced, ITypeOK, TypeOK
  <2>2. CASE SetFields(r)
    <3>1. PICK d \in docs : d.dataset = call[r].dataset
                            /\ docs' = (docs \ {d}) \cup {[d EXCEPT !.did = r]}
      BY <2>1, <2>2 DEF SetFields, Matching
    <3>2. d.id \in Requests
          /\ [d EXCEPT !.did = r] = [id |-> d.id, dataset |-> call[r].dataset, did |-> r]
      BY <3>1 DEF IInv, ITypeOK, Docs
    <3>3. Deposit(r, {d}, d.id)
      BY <3>1, <3>2 DEF Deposit
    <3> QED
      BY <2>1, <3>1, <3>2, <3>3
  <2>3. CASE docs' = docs \cup {NewDoc(r)}
    <3>1. Deposit(r, {}, r)
      BY <2>1, <2>3 DEF Deposit, NewDoc
    <3> QED
      BY <2>1, <3>1
  <2> QED
    BY <1>1, <2>2, <2>3
<1>2. ASSUME NEW r \in Requests, UpsertMatch(r) \/ UpsertCreate(r) \/ UpsertFails(r)
      PROVE  \/ /\ hpc[r] \in {"upsert", "create"} /\ UNCHANGED vars
                /\ SetFields(r) \/ docs' = docs \cup {NewDoc(r)}
                /\ \E a \in {"ok", "error"} : Answer(r, a)
             \/ UNCHANGED docs /\ Answer(r, "error")
  BY <1>2 DEF UpsertMatch, UpsertCreate, UpsertFails
<1>3. ASSUME NEW r \in Requests, Answer(r, "error")
      PROVE  \A s \in Requests : resp'[s] = "ok" => resp[s] = "ok"
  BY <1>3 DEF Answer, IInv, ITypeOK
<1>4. CASE \E r \in Requests : UpsertMatch(r) \/ UpsertCreate(r) \/ UpsertFails(r)
  <2>1. PICK r \in Requests : UpsertMatch(r) \/ UpsertCreate(r) \/ UpsertFails(r)
    BY <1>4
  <2>2. CASE UNCHANGED docs /\ Answer(r, "error")
    BY <1>3, <2>2
  <2>3. CASE /\ hpc[r] \in {"upsert", "create"} /\ UNCHANGED vars
             /\ SetFields(r) \/ docs' = docs \cup {NewDoc(r)}
             /\ \E a \in {"ok", "error"} : Answer(r, a)
    <3>1. PICK a \in {"ok", "error"} : Answer(r, a)
      BY <2>3
    <3>2. PICK id \in Requests, old \in SUBSET docs :
                 /\ ret[r] = "nil" /\ call[r] \in Calls
                 /\ \A d \in old : d.dataset = call[r].dataset
                 /\ Deposit(r, old, id)
      BY <1>1, <2>3, <3>1
    <3>3. resp' = [resp EXCEPT ![r] = a]
      BY <3>1 DEF Answer
    <3> QED
      BY <2>3, <3>2, <3>3
  <2> QED
    BY <1>2, <2>1, <2>2, <2>3
<1>5. CASE \E r \in Requests : Refuse(r) \/ NotBooked(r)
  BY <1>3, <1>5 DEF Refuse, NotBooked
<1>6. CASE ~(\E r \in Requests : \/ Refuse(r) \/ NotBooked(r)
                                 \/ UpsertMatch(r) \/ UpsertCreate(r) \/ UpsertFails(r))
  <2>1. UNCHANGED <<docs, resp>>
    BY <1>6 DEF INext, HandlerStep, Submit, FilesStep, InsertFilesOk, UpsertMiss, ICrash, IFinished,
                ivars
  <2> QED
    BY <2>1
<1> QED
  BY <1>4, <1>5, <1>6

\* A call that has returned stays as it is.
LEMMA ReturnedStands ==
    ASSUME IInv, [INext]_ivars, NEW r \in Requests, ret[r] # "none"
    PROVE  ret'[r] = ret[r] /\ call'[r] = call[r]
<1>1. pc[r] = "done"
  BY DEF IInv, AllSequenced, Sequenced
<1> QED
  BY <1>1, FilesDBStep, CallStep DEF IInv

\* A client that was told "inserted successfully" has its dataset in MongoDB
\* for good (AckedStored): no later upsert, failure or crash takes the last
\* document of a dataset away.
THEOREM AcknowledgedIsStored == ISpec => []AckedStored
<1>1. IInit => AckedStored
  BY DEF IInit, AckedStored
<1>2. IInv /\ AckedStored /\ [INext]_ivars => AckedStored'
  <2> SUFFICES ASSUME IInv, AckedStored, [INext]_ivars, NEW r \in Requests, resp'[r] = "ok"
               PROVE  \E d \in docs' : d.dataset = call'[r].dataset
    BY DEF AckedStored, Matching
  <2>1. CASE UNCHANGED docs /\ \A s \in Requests : resp'[s] = "ok" => resp[s] = "ok"
    <3>1. resp[r] = "ok" /\ ret[r] = "nil"
      BY <2>1 DEF IInv, AllSequenced, Sequenced
    <3>2. call'[r] = call[r]
      BY <3>1, ReturnedStands
    <3> QED
      BY <2>1, <3>1, <3>2 DEF AckedStored, Matching
  <2>2. ASSUME NEW s \in Requests, NEW id \in Requests, NEW old \in SUBSET docs,
               NEW a \in {"ok", "error"}, UNCHANGED vars,
               \A d \in old : d.dataset = call[s].dataset,
               Deposit(s, old, id), resp' = [resp EXCEPT ![s] = a]
        PROVE  \E d \in docs' : d.dataset = call'[r].dataset
    <3> DEFINE new == [id |-> id, dataset |-> call[s].dataset, did |-> s]
    <3>1. call' = call /\ new \in docs' /\ new.dataset = call[s].dataset
      BY <2>2 DEF vars, Deposit
    <3>2. CASE call[s].dataset = call[r].dataset
      BY <3>1, <3>2
    <3>3. CASE call[s].dataset # call[r].dataset
      <4>1. resp[r] = "ok"
        BY <2>2, <3>3 DEF IInv, ITypeOK
      <4>2. PICK d \in docs : d.dataset = call[r].dataset
        BY <4>1 DEF AckedStored, Matching
      <4>3. d \in docs'
        BY <2>2, <3>3, <4>2 DEF Deposit
      <4> QED
        BY <3>1, <4>2, <4>3
    <3> QED
      BY <3>2, <3>3
  <2> QED
    BY <2>1, <2>2, DepositStep
<1> QED
  BY <1>1, <1>2, PipelineInvariance, PTL DEF ISpec

\* The did of a document is that of a request whose InsertFiles returned
\* without an error, its dataset the one that request was about.
DocsOwn ==
    \A d \in docs : ret[d.did] = "nil" /\ d.dataset = call[d.did].dataset

LEMMA DocsOwnAlways == ISpec => []DocsOwn
<1>1. IInit => DocsOwn
  BY DEF IInit, DocsOwn
<1>2. IInv /\ DocsOwn /\ [INext]_ivars => DocsOwn'
  <2> SUFFICES ASSUME IInv, DocsOwn, [INext]_ivars, NEW d \in docs'
               PROVE  ret'[d.did] = "nil" /\ d.dataset = call'[d.did].dataset
    BY DEF DocsOwn
  <2>1. CASE d \in docs
    <3>1. d.did \in Requests /\ ret[d.did] = "nil" /\ d.dataset = call[d.did].dataset
      BY <2>1, FreshDids DEF DocsOwn, IInv, ITypeOK, Docs
    <3> QED
      BY <3>1, ReturnedStands
  <2>2. CASE d \notin docs
    <3>1. PICK r \in Requests, id \in Requests :
                 /\ ret[r] = "nil" /\ UNCHANGED vars
                 /\ \E old \in SUBSET docs : Deposit(r, old, id)
      BY <2>2, DepositStep
    <3>2. d = [id |-> id, dataset |-> call[r].dataset, did |-> r]
      BY <2>2, <3>1 DEF Deposit
    <3> QED
      BY <3>1, <3>2 DEF vars
  <2> QED
    BY <2>1, <2>2
<1> QED
  BY <1>1, <1>2, PipelineInvariance, PTL DEF ISpec

\* A request that was refused, or whose InsertFiles failed, has left no trace
\* in MongoDB (ErrorLeavesNoDoc).
THEOREM FailureLeavesNothing == ISpec => []ErrorLeavesNoDoc
<1>1. DocsOwn => ErrorLeavesNoDoc
  BY DEF DocsOwn, ErrorLeavesNoDoc
<1> QED
  BY <1>1, DocsOwnAlways, PTL
----------------------------------------------------------------------------
(* The answers of getFiles *)

\* A commit gives a reader more files only of a did that had none.
LEMMA BookedAtOnce ==
    ASSUME IInv, FilesBelong, NEW s \in Requests, s \notin meta, call[s] \in Calls,
           B!Book(s, call[s].dataset, call[s].walk), NEW did
    PROVE  FilesOf(did)' = FilesOf(did) \/ FilesOf(did) = {}
<1>1. s \in Dids /\ call[s].dataset \in Datasets /\ call[s].walk \in SUBSET Files
  BY FreshDids DEF Calls
<1>2. CASE did = s
  BY <1>2 DEF FilesOf, FilesBelong
<1>3. CASE did # s
  <2>1. ASSUME NEW f \in Files
        PROVE  files'[f] # None /\ files'[f].did = did <=> files[f] # None /\ files[f].did = did
    <3>1. CASE files'[f] = files[f]
      BY <3>1
    <3>2. CASE files'[f] # files[f]
      <4>1. files[f] = None
        BY <1>1, <3>2, BookFiles
      <4>2. files'[f] = [did |-> s, dataset |-> call[s].dataset]
        BY <3>2, BookOwner
      <4>3. files'[f].did = s
        BY <4>2
      <4> QED
        BY <1>3, <4>1, <4>3
    <3> QED
      BY <3>1, <3>2
  <2> QED
    BY <2>1 DEF FilesOf
<1> QED
  BY <1>2, <1>3

\* As long as no read fails, getFiles answers with all the files the did will
\* ever own or with none, never with a part of a booking (WholeAnswers): its
\* one SELECT sees the tables between two commits.
THEOREM AnswersAreWhole ==
    ASSUME "exec" \notin Faults
    PROVE  ISpec => []WholeAnswers
<1>1. IInit => WholeAnswers
  BY DEF IInit, Init, WholeAnswers
<1>2. IInv /\ FilesBelong /\ WholeAnswers /\ [INext]_ivars => WholeAnswers'
  <2> SUFFICES ASSUME IInv, FilesBelong, WholeAnswers, [INext]_ivars,
                      NEW q \in Readers, rpc'[q] \in {"scan", "done"}
               PROVE  rans'[q] \in {{}, FilesOf(rdid[q])'}
    BY DEF WholeAnswers
  <2>1. ASSUME NEW s \in Requests, s \notin meta, UNCHANGED <<rpc, rdid, rans>>, call[s] \in Calls,
               B!Book(s, call[s].dataset, call[s].walk)
        PROVE  rans'[q] \in {{}, FilesOf(rdid[q])'}
    <3>1. rans[q] \in {{}, FilesOf(rdid[q])}
      BY <2>1 DEF WholeAnswers
    <3> DEFINE Later(did) == {f \in Files : files'[f] # None /\ files'[f].did = did}
    <3>2. FilesOf(rdid[q])' = Later(rdid[q]) /\ rans'[q] = rans[q]
      BY <2>1 DEF FilesOf
    <3>3. \A did : Later(did) = FilesOf(did) \/ FilesOf(did) = {}
      BY <2>1, BookedAtOnce DEF FilesOf
    <3> HIDE DEF Later
    <3> QED
      BY <3>1, <3>2, <3>3
  <2>2. CASE UNCHANGED tables
    <3>1. FilesOf(rdid[q])' = {f \in Files : files[f] # None /\ files[f].did = rdid'[q]}
      BY <2>2 DEF FilesOf
    <3>2. CASE UNCHANGED reads \/ ICrash
      <4>1. rpc[q] \in {"scan", "done"} /\ rans'[q] = rans[q] /\ rdid'[q] = rdid[q]
        BY <3>2 DEF ICrash, Crash
      <4> QED
        BY <3>1, <4>1 DEF WholeAnswers, FilesOf
    <3>3. CASE \E s \in Readers, did \in Dids : ReadCall(s, did)
      <4>1. rpc[q] \in {"scan", "done"} /\ rans'[q] = rans[q] /\ rdid'[q] = rdid[q]
        BY <3>3 DEF ReadCall, IInv, Inv, TypeOK
      <4> QED
        BY <3>1, <4>1 DEF WholeAnswers, FilesOf
    <3>4. CASE \E s \in Readers : ReadQuery(s) /\ s = q
      BY <3>1, <3>4 DEF ReadQuery, FilesOf, IInv, Inv, TypeOK
    <3>5. CASE \E s \in Readers : ReadStep(s) /\ ~(ReadQuery(s) /\ s = q)
      <4>1. rpc[q] \in {"scan", "done"} /\ rans'[q] = rans[q] /\ rdid'[q] = rdid[q]
        BY <3>5 DEF ReadStep, ReadStatement, ReadBegin, ReadQuery, ReadDone, ReadFails, IInv, Inv, TypeOK
      <4> QED
        BY <3>1, <4>1 DEF WholeAnswers, FilesOf
    <3>6. CASE ~(\E s \in Readers : ReadStep(s) \/ \E did \in Dids : ReadCall(s, did))
      <4>1. UNCHANGED reads \/ ICrash
        BY <3>6 DEF INext, HandlerStep, Refuse, Submit, Call, FilesStep, NotBooked, InsertFilesOk,
                    UpsertMatch, UpsertMiss, UpsertCreate, UpsertFails, IFinished, ivars, vars,
                    InsertStep, Statement, FindDID, Begin, BeginFails, InsertMetadata,
                    InsertDataset, InsertFile, Insert, Rollback, Return, ExecFails, LockTimeout,
                    AskShared, Deadlock, Commit, CommitFails
      <4> QED
        BY <3>2, <4>1
    <3> QED
      BY <3>3, <3>4, <3>5, <3>6
  <2> QED
    BY <2>1, <2>2, BookStep
<1> QED
  BY <1>1, <1>2, PipelineInvariance, FilesBelongAlways, PTL DEF ISpec
----------------------------------------------------------------------------
(* What holds while no statement of the transaction fails.  A failing one   *)
(* is answered with the error of tx.Rollback(), nil as a rule, and mysql's  *)
(* duplicate keys fail; InsertFiles then returns nil with nothing booked.   *)

StatementsSucceed ==
    Driver = "sqlite3" /\ "exec" \notin Faults /\ "timeout" \notin Faults

\* Then nil means that the submission is in the tables.
NilBooked == \A r \in Requests : ret[r] = "nil" => r \in meta

\* The ways to return nil that are left: the did was booked before, or the
\* commit worked.
LEMMA NilReturn ==
    ASSUME StatementsSucceed, IInv, NEW r \in Requests, InsertStep(r), ret'[r] = "nil", ret[r] # "nil"
    PROVE  (Booked(call[r].did, call[r].dataset) /\ meta' = meta) \/ Commit(r)
  BY DEF StatementsSucceed, InsertStep, Statement, FindDID, Begin, BeginFails, InsertMetadata,
         InsertDataset, InsertFile, Insert, ExecFails, LockTimeout, AskShared, Deadlock, CommitFails, Return,
         IInv, Inv, TypeOK

LEMMA NilBookedAlways ==
    ASSUME StatementsSucceed
    PROVE  ISpec => []NilBooked
<1>1. IInit => NilBooked
  BY DEF IInit, Init, NilBooked
<1>2. IInv /\ NilBooked /\ [INext]_ivars => NilBooked'
  <2> SUFFICES ASSUME IInv, NilBooked, [INext]_ivars, NEW r \in Requests, ret'[r] = "nil"
               PROVE  r \in meta'
    BY DEF NilBooked
  <2>1. meta \subseteq meta'
    BY BookStep DEF B!Book
  <2>2. CASE ret[r] = "nil"
    BY <2>1, <2>2 DEF NilBooked
  <2>3. CASE ret[r] # "nil"
    <3>1. InsertStep(r)
      BY <2>3 DEF INext, HandlerStep, Refuse, Submit, Call, FilesStep, NotBooked, InsertFilesOk,
                  UpsertMatch, UpsertMiss, UpsertCreate, UpsertFails, ICrash, Crash, IFinished,
                  ivars, vars, InsertStep, Statement, FindDID, Begin, BeginFails, InsertMetadata,
                  InsertDataset, InsertFile, Insert, Rollback, Return, ExecFails, LockTimeout,
                  AskShared, Deadlock, Commit, CommitFails, ReadStep, ReadStatement, ReadCall, ReadBegin, ReadQuery,
                  ReadDone, ReadFails, IInv, Inv, TypeOK
    <3>2. call[r].did = r
      BY <3>1, BlockedInTx, AskingInTx
         DEF InsertStep, Statement, FindDID, Begin, BeginFails, InsertMetadata, InsertDataset,
             InsertFile, ExecFails, LockTimeout, InTx, Commit, CommitFails, IInv, AllSequenced,
             Sequenced
    <3>3. CASE Booked(call[r].did, call[r].dataset) /\ meta' = meta
      BY <3>2, <3>3 DEF Booked
    <3>4. CASE Commit(r)
      <4>1. B!Book(r, call[r].dataset, call[r].walk)
        BY <3>2, <3>4, CommitBooks DEF Commit, IInv
      <4> QED
        BY <4>1 DEF B!Book
    <3> QED
      BY <2>3, <3>1, <3>3, <3>4, NilReturn
  <2> QED
    BY <2>2, <2>3
<1> QED
  BY <1>1, <1>2, PipelineInvariance, PTL DEF ISpec

\* A client that was told "inserted successfully" finds its did, its dataset
\* and every file of the walk in FilesDB (AckedBooked), provided that no
\* statement of the transaction fails.
THEOREM AcknowledgedIsBooked ==
    ASSUME StatementsSucceed
    PROVE  ISpec => []AckedBooked
<1>1. IInv /\ NilBooked /\ WholeBooking => AckedBooked
  <2> SUFFICES ASSUME IInv, NilBooked, WholeBooking, NEW r \in Requests, resp[r] = "ok"
               PROVE  /\ call[r].did \in meta
                      /\ datasets[call[r].dataset] # None
                      /\ \A f \in call[r].walk : files[f] # None
    BY DEF AckedBooked
  <2>1. ret[r] = "nil" /\ call[r].did = r
    BY DEF IInv, AllSequenced, Sequenced
  <2> QED
    BY <2>1 DEF NilBooked, WholeBooking
<1> QED
  BY <1>1, PipelineInvariance, NilBookedAlways, BookingIsWhole, PTL

\* MongoDB never runs ahead of FilesDB (DocsBooked): the did of a document is
\* booked, under the dataset of the document.
THEOREM DocumentsAreBooked ==
    ASSUME StatementsSucceed
    PROVE  ISpec => []DocsBooked
<1>1. IInv /\ NilBooked /\ WholeBooking /\ DocsOwn /\ FilesBelong => DocsBooked
  <2> SUFFICES ASSUME IInv, NilBooked, WholeBooking, DocsOwn, FilesBelong, NEW d \in docs
               PROVE  /\ d.did \in meta
                      /\ datasets[d.dataset] # None
                      /\ \A f \in FilesOf(d.did) : files[f].dataset = d.dataset
    BY DEF DocsBooked
  <2>1. d.did \in Requests /\ ret[d.did] = "nil" /\ d.dataset = call[d.did].dataset
    BY FreshDids DEF DocsOwn, IInv, ITypeOK, Docs
  <2>2. d.did \in meta /\ datasets[d.dataset] # None
    BY <2>1 DEF NilBooked, WholeBooking
  <2>3. \A f \in FilesOf(d.did) : files[f].dataset = d.dataset
    BY <2>1 DEF FilesOf, FilesBelong
  <2> QED
    BY <2>2, <2>3
<1> QED
  BY <1>1, PipelineInvariance, NilBookedAlways, BookingIsWhole, DocsOwnAlways, FilesBelongAlways, PTL

\* "Show files" of a record lists the files of its walk and no others, unless
\* another submission found one of them (DocListsFiles).
THEOREM DocumentsListTheirFiles ==
    ASSUME StatementsSucceed
    PROVE  ISpec => []DocListsFiles
<1>1. IInv /\ NilBooked /\ WholeBooking /\ DocsOwn /\ FilesBelong => DocListsFiles
  <2> SUFFICES ASSUME IInv, NilBooked, WholeBooking, DocsOwn, FilesBelong, NEW d \in docs,
                      \A r \in Requests \ {d.did} :
                         call[r] = None \/ call[r].walk \cap call[d.did].walk = {}
               PROVE  FilesOf(d.did) = call[d.did].walk
    BY DEF DocListsFiles
  <2>1. d.did \in Requests /\ d.did \in meta
    BY FreshDids DEF DocsOwn, NilBooked, IInv, ITypeOK, Docs
  <2>2. call[d.did].walk \subseteq Files
    BY <2>1 DEF IInv, AllSequenced, Sequenced, ITypeOK, TypeOK, Calls
  <2>3. FilesOf(d.did) \subseteq call[d.did].walk
    BY DEF FilesOf, FilesBelong
  <2>4. ASSUME NEW f \in call[d.did].walk PROVE f \in FilesOf(d.did)
    <3>1. f \in Files /\ files[f] # None
      BY <2>1, <2>2 DEF WholeBooking
    <3>2. files[f].did \in meta \cap Requests /\ f \in call[files[f].did].walk
      BY <3>1 DEF FilesBelong
    <3>3. call[files[f].did] # None
      BY <3>2, NoneIsNoCall DEF IInv, AllSequenced, Sequenced, ITypeOK, TypeOK
    <3>4. files[f].did = d.did
      BY <3>2, <3>3
    <3> QED
      BY <3>1, <3>4 DEF FilesOf
  <2> QED
    BY <2>3, <2>4
<1> QED
  BY <1>1, PipelineInvariance, NilBookedAlways, BookingIsWhole, DocsOwnAlways, FilesBelongAlways, PTL
----------------------------------------------------------------------------
(* The pipeline implements Deposits *)

\* The variables of Deposits, as Ingest instantiates them.
Stages == [r \in Requests |-> CASE hpc[r] = "idle" -> "new"
                                [] hpc[r] \in {"answered", "lost"} -> "over"
                                [] OTHER -> "open"]
BookedUnder == [r \in Requests |-> IF r \in meta THEN call[r].dataset ELSE None]
StoredDids == [ds \in Datasets |-> {d.did : d \in {e \in docs : e.dataset = ds}}]

LEMMA UnderStays ==
    ASSUME IInv, [INext]_ivars, UNCHANGED meta
    PROVE  BookedUnder' = BookedUnder
  BY BookedStands DEF BookedUnder

LEMMA AnswerEnds ==
    ASSUME IInv, NEW r \in Requests, NEW a, Answer(r, a)
    PROVE  Stages' = [Stages EXCEPT ![r] = "over"] /\ resp' = [resp EXCEPT ![r] = a]
  BY DEF Answer, Stages, IInv, ITypeOK

\* An answer "error" with nothing written.
LEMMA MapsGiveUp ==
    ASSUME IInv, [INext]_ivars, NEW r \in Requests, hpc[r] \notin {"answered", "lost"},
           UNCHANGED <<vars, docs>>, Answer(r, "error")
    PROVE  D!GiveUp(r)
<1>1. Stages[r] # "over"
  BY DEF Stages
<1>2. BookedUnder' = BookedUnder
  BY UnderStays DEF vars
<1>3. StoredDids' = StoredDids
  BY DEF StoredDids
<1> QED
  BY <1>1, <1>2, <1>3, AnswerEnds
     DEF D!GiveUp, D!End, D!K!tables, vars, Stages, BookedUnder, StoredDids

LEMMA MapsSubmit ==
    ASSUME IInv, [INext]_ivars, NEW r \in Requests, NEW ds, NEW w, Submit(r, ds, w)
    PROVE  D!Submit(r)
<1>1. Stages[r] = "new" /\ Stages' = [Stages EXCEPT ![r] = "open"]
  BY DEF Submit, Stages, IInv, ITypeOK
<1>2. BookedUnder' = BookedUnder
  BY UnderStays DEF Submit, Call
<1>3. StoredDids' = StoredDids /\ UNCHANGED <<tables, resp>>
  BY DEF Submit, Call, StoredDids
<1> QED
  BY <1>1, <1>2, <1>3 DEF D!Submit, D!K!tables, Stages, BookedUnder, StoredDids

LEMMA MapsBook ==
    ASSUME IInv, NEW r \in Requests, r \notin meta, hpc[r] = "insert", UNCHANGED <<call, handlers>>,
           NEW ds, ds = call[r].dataset, NEW w, B!Book(r, ds, w)
    PROVE  D!Book(r, ds, w)
<1>1. Stages[r] = "open" /\ BookedUnder[r] = None
  BY DEF Stages, BookedUnder
<1>2. meta' = meta \cup {r}
  BY DEF B!Book
<1>3. BookedUnder' = [BookedUnder EXCEPT ![r] = ds]
  BY <1>2 DEF BookedUnder
<1>4. Stages' = Stages /\ StoredDids' = StoredDids /\ resp' = resp
  BY DEF Stages, StoredDids
<1>5. D!K!Book(r, ds, w)
  BY DEF B!Book, D!K!Book
<1> QED
  BY <1>1, <1>3, <1>4, <1>5 DEF D!Book, Stages, BookedUnder, StoredDids

\* What an upsert does to the dids that the documents of each dataset carry:
\* its own comes in, and that of the document it found may go, unless another
\* document has it, too.
LEMMA UpsertStored ==
    ASSUME IInv, NEW r \in Requests, call[r] \in Calls, call[r].did = r,
           SetFields(r) \/ docs' = docs \cup {NewDoc(r)}
    PROVE  \E old \in {{}} \cup {{e} : e \in StoredDids[call[r].dataset]} :
              StoredDids' = [StoredDids EXCEPT ![call[r].dataset] = (@ \ old) \cup {r}]
<1> DEFINE ds == call[r].dataset
           DidsOf(set, x) == {d.did : d \in {e \in set : e.dataset = x}}
<1>1. ds \in Datasets
  BY DEF Calls
<1>2. ASSUME NEW new, new.dataset = ds, new.did = r,
             NEW kept \in SUBSET docs, docs' = kept \cup {new},
             \A d \in docs : d.dataset # ds => d \in kept
      PROVE  StoredDids' = [StoredDids EXCEPT ![ds] = DidsOf(kept, ds) \cup {r}]
  <2>1. ASSUME NEW x \in Datasets, x # ds PROVE DidsOf(docs', x) = DidsOf(docs, x)
    BY <1>2, <2>1
  <2>2. DidsOf(docs', ds) = DidsOf(kept, ds) \cup {r}
    BY <1>2
  <2>3. StoredDids' = [x \in Datasets |-> DidsOf(docs', x)]
        /\ StoredDids = [x \in Datasets |-> DidsOf(docs, x)]
    BY DEF StoredDids
  <2> HIDE DEF DidsOf, ds
  <2> QED
    BY <1>1, <2>1, <2>2, <2>3
<1>3. StoredDids[ds] = DidsOf(docs, ds)
  BY <1>1 DEF StoredDids
<1>4. CASE docs' = docs \cup {NewDoc(r)}
  <2>1. NewDoc(r).dataset = ds /\ NewDoc(r).did = r
    BY DEF NewDoc
  <2>2. StoredDids' = [StoredDids EXCEPT ![ds] = DidsOf(docs, ds) \cup {r}]
    BY <1>2, <1>4, <2>1
  <2>3. StoredDids' = [StoredDids EXCEPT ![ds] = (@ \ {}) \cup {r}]
    BY <1>3, <2>2
  <2> QED
    BY <2>3
<1>5. CASE SetFields(r)
  <2>1. PICK d \in docs : d.dataset = ds /\ docs' = (docs \ {d}) \cup {[d EXCEPT !.did = r]}
    BY <1>5 DEF SetFields, Matching
  <2> DEFINE kept == docs \ {d}
             new == [d EXCEPT !.did = r]
  <2>2. new.dataset = ds /\ new.did = r
    BY <2>1 DEF IInv, ITypeOK, Docs
  <2>3. StoredDids' = [StoredDids EXCEPT ![ds] = DidsOf(kept, ds) \cup {r}]
    <3>1. kept \in SUBSET docs /\ docs' = kept \cup {new} /\ \A e \in docs : e.dataset # ds => e \in kept
      BY <2>1
    <3> HIDE DEF kept, new
    <3> QED
      BY <1>2, <2>2, <3>1
  <2>4. DidsOf(docs, ds) = DidsOf(kept, ds) \cup {d.did}
    BY <2>1
  <2>5. PICK old \in {{}, {d.did}} : DidsOf(kept, ds) = DidsOf(docs, ds) \ old
    <3>1. CASE d.did \in DidsOf(kept, ds)
      BY <2>4, <3>1
    <3>2. CASE d.did \notin DidsOf(kept, ds)
      BY <2>4, <3>2
    <3> QED
      BY <3>1, <3>2
  <2>6. old \in {{}} \cup {{e} : e \in StoredDids[ds]}
    BY <1>3, <2>4, <2>5
  <2>7. StoredDids' = [StoredDids EXCEPT ![ds] = (@ \ old) \cup {r}]
    BY <1>3, <2>3, <2>5
  <2> QED
    BY <2>6, <2>7
<1> QED
  BY <1>4, <1>5

LEMMA MapsDeposit ==
    ASSUME IInv, NilBooked, [INext]_ivars, NEW r \in Requests, hpc[r] \in {"upsert", "create"},
           SetFields(r) \/ docs' = docs \cup {NewDoc(r)}, UNCHANGED vars,
           NEW a \in {"ok", "error"}, Answer(r, a)
    PROVE  D!Deposit(r, a)
<1>1. r \in meta /\ call[r] \in Calls /\ call[r].did = r
  BY DEF NilBooked, IInv, AllSequenced, Sequenced, ITypeOK, TypeOK
<1>2. Stages[r] = "open"
  BY DEF Stages
<1>3. BookedUnder[r] = call[r].dataset /\ call[r].dataset # None
  BY <1>1, ProcsAssumption DEF BookedUnder, Calls
<1>4. \E old \in {{}} \cup {{e} : e \in StoredDids[BookedUnder[r]]} :
         StoredDids' = [StoredDids EXCEPT ![BookedUnder[r]] = (@ \ old) \cup {r}]
  BY <1>1, <1>3, UpsertStored
<1>5. BookedUnder' = BookedUnder /\ UNCHANGED tables
  BY UnderStays DEF vars
<1> QED
  BY <1>2, <1>3, <1>4, <1>5, AnswerEnds
     DEF D!Deposit, D!End, D!K!tables, Stages, BookedUnder, StoredDids

\* The process dies: what was open is over.
LEMMA MapsDie ==
    ASSUME IInv, [INext]_ivars, ICrash
    PROVE  D!Die
<1>1. Stages' = [r \in Requests |-> IF Stages[r] = "open" THEN "over" ELSE Stages[r]]
  BY DEF ICrash, Stages
<1>2. BookedUnder' = BookedUnder /\ StoredDids' = StoredDids /\ UNCHANGED <<tables, resp>>
  BY UnderStays DEF ICrash, Crash, StoredDids
<1> QED
  BY <1>1, <1>2, FreshDids DEF D!Die, D!K!tables, Stages, BookedUnder, StoredDids

\* Everything else is inside one of these steps.
LEMMA MapsStutter ==
    ASSUME IInv, [INext]_ivars, UNCHANGED <<tables, docs, resp>>, Stages' = Stages
    PROVE  UNCHANGED D!dvars
<1>1. BookedUnder' = BookedUnder /\ StoredDids' = StoredDids
  BY UnderStays DEF StoredDids
<1> QED
  BY <1>1 DEF D!dvars, Stages, BookedUnder, StoredDids

LEMMA MapsStep ==
    ASSUME IInv, NilBooked, [INext]_ivars
    PROVE  [D!Next]_(D!dvars)
<1>1. CASE ~UNCHANGED tables
  <2>1. PICK r \in Requests :
             /\ r \notin meta /\ hpc[r] = "insert"
             /\ UNCHANGED <<call, handlers>>
             /\ call[r] \in Calls
             /\ B!Book(r, call[r].dataset, call[r].walk)
    BY <1>1, BookStep
  <2>2. PICK ds \in Datasets, w \in SUBSET Files : ds = call[r].dataset /\ w = call[r].walk
    BY <2>1 DEF Calls
  <2>3. D!Book(r, ds, w)
    BY <2>1, <2>2, MapsBook
  <2> QED
    BY <2>3, FreshDids DEF D!Next
<1>2. CASE \E r \in Requests : Refuse(r) \/ NotBooked(r)
  <2>1. PICK r \in Requests : Refuse(r) \/ NotBooked(r)
    BY <1>2
  <2>2. D!GiveUp(r)
    BY <2>1, MapsGiveUp DEF Refuse, NotBooked
  <2> QED
    BY <2>2, FreshDids DEF D!Next
<1>3. CASE \E r \in Requests, ds \in Datasets, p \in Paths : \E w \in Walks(p) : Submit(r, ds, w)
  <2>1. PICK r \in Requests, ds \in Datasets, p \in Paths : \E w \in Walks(p) : Submit(r, ds, w)
    BY <1>3
  <2>2. D!Submit(r)
    BY <2>1, MapsSubmit
  <2> QED
    BY <2>2, FreshDids DEF D!Next
<1>4. CASE \E r \in Requests : UpsertMatch(r) \/ UpsertCreate(r) \/ UpsertFails(r)
  <2>1. PICK r \in Requests : UpsertMatch(r) \/ UpsertCreate(r) \/ UpsertFails(r)
    BY <1>4
  <2>2. CASE /\ hpc[r] \in {"upsert", "create"}
             /\ SetFields(r) \/ docs' = docs \cup {NewDoc(r)}
             /\ \E a \in {"ok", "error"} : Answer(r, a)
    <3>1. PICK a \in {"ok", "error"} : Answer(r, a)
      BY <2>2
    <3>2. UNCHANGED vars
      BY <2>1 DEF UpsertMatch, UpsertCreate, UpsertFails
    <3>3. D!Deposit(r, a)
      BY <2>2, <3>1, <3>2, MapsDeposit
    <3> QED
      BY <3>3, FreshDids DEF D!Next
  <2>3. CASE hpc[r] \notin {"answered", "lost"} /\ UNCHANGED <<vars, docs>> /\ Answer(r, "error")
    <3>1. D!GiveUp(r)
      BY <2>3, MapsGiveUp
    <3> QED
      BY <3>1, FreshDids DEF D!Next
  <2> QED
    BY <2>1, <2>2, <2>3 DEF UpsertMatch, UpsertCreate, UpsertFails
<1>5. CASE ICrash
  BY <1>5, MapsDie DEF D!Next
<1>6. CASE /\ UNCHANGED tables
           /\ \/ \E r \in Requests : FilesStep(r) \/ InsertFilesOk(r) \/ UpsertMiss(r)
              \/ \E q \in Readers : ReadStep(q) /\ UNCHANGED handlers
              \/ \E q \in Readers, did \in Dids : ReadCall(q, did) /\ UNCHANGED handlers
              \/ UNCHANGED ivars
  <2>1. UNCHANGED <<docs, resp>>
    BY <1>6 DEF FilesStep, InsertFilesOk, UpsertMiss, ivars
  <2>2. Stages' = Stages
    BY <1>6 DEF FilesStep, InsertFilesOk, UpsertMiss, ivars, Stages, IInv, ITypeOK
  <2> QED
    BY <1>6, <2>1, <2>2, MapsStutter
<1> QED
  BY <1>1, <1>2, <1>3, <1>4, <1>5, <1>6 DEF INext, HandlerStep, IFinished

\* As long as no statement of the transaction fails, the pipeline implements
\* Deposits (Deposited): each submission is booked in one step, deposited
\* after that and answered last, each at most once, whatever else fails,
\* overlaps or crashes.
THEOREM PipelineRefinement ==
    ASSUME StatementsSucceed
    PROVE  ISpec => Deposited
<1>1. IInit => D!Init
  <2> SUFFICES ASSUME IInit PROVE D!Init
    OBVIOUS
  <2>1. Stages = [d \in Dids |-> "new"] /\ resp = [d \in Dids |-> "none"]
    BY FreshDids DEF IInit, Stages
  <2>2. BookedUnder = [d \in Dids |-> None]
    BY FreshDids DEF IInit, Init, BookedUnder
  <2>3. StoredDids = [ds \in Datasets |-> {}]
    BY DEF IInit, StoredDids
  <2>4. D!K!Init
    BY DEF IInit, Init, D!K!Init
  <2> QED
    BY <2>1, <2>2, <2>3, <2>4 DEF D!Init, Stages, BookedUnder, StoredDids
<1>2. IInv /\ NilBooked /\ [INext]_ivars => [D!Next]_(D!dvars)
  BY MapsStep
<1> QED
  BY <1>1, <1>2, PipelineInvariance, NilBookedAlways, PTL DEF ISpec, Deposited, D!Spec
=============================================================================
