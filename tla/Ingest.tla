------------------------------- MODULE Ingest -------------------------------
(***************************************************************************)
(* The ingest pipeline, insertData of web/helpers.go: a validated record   *)
(* is booked in FilesDB and then upserted into MongoDB, and only then is   *)
(* the client answered.  The two databases share no transaction.  Each     *)
(* request is a goroutine of the HTTP server; MongoDB outlives a crash.    *)
(***************************************************************************)
EXTENDS FilesDB

\* insertData makes a fresh uuid for every request, so the request names it
ASSUME FreshDids == Dids = Requests

CONSTANT MongoFaults   \* subset of {"reject", "noreply"}

VARIABLES
    docs,   \* the collection: documents [id, dataset, did]
    hpc,    \* where each request's handler is
    resp    \* what its client was told: "ok", "error" or "none" so far

handlers == <<docs, hpc, resp>>
ivars == <<vars, handlers>>

Docs == [id : Requests, dataset : Datasets, did : Dids]

IInit == Init /\ docs = {} /\ hpc = [r \in Requests |-> "idle"]
              /\ resp = [r \in Requests |-> "none"]

Answer(r, answer) ==
    /\ hpc' = [hpc EXCEPT ![r] = "answered"]
    /\ resp' = [resp EXCEPT ![r] = answer]

\* The record fails Load, validateData or os.Stat
Refuse(r) ==
    /\ hpc[r] = "idle"
    /\ Answer(r, "error")
    /\ UNCHANGED <<vars, docs>>

\* It passes: a fresh did, and on to InsertFiles
Submit(r, ds, w) ==
    /\ hpc[r] = "idle"
    /\ hpc' = [hpc EXCEPT ![r] = "insert"]
    /\ Call(r, r, ds, w)
    /\ UNCHANGED <<docs, resp>>

FilesStep(r) ==
    /\ hpc[r] = "insert"
    /\ InsertStep(r)
    /\ UNCHANGED handlers

\* the error of InsertFiles only logged
NotBooked_Ignored(r) ==
    /\ hpc[r] = "insert" /\ ret[r] = "error"
    /\ hpc' = [hpc EXCEPT ![r] = "upsert"]
    /\ UNCHANGED <<vars, docs, resp>>

\* MongoDB written before the error of InsertFiles is looked at
NotBooked_Late(r) ==
    /\ hpc[r] = "insert" /\ ret[r] = "error"
    /\ docs' = docs \cup {[id |-> r, dataset |-> call[r].dataset, did |-> call[r].did]}
    /\ Answer(r, "error")
    /\ UNCHANGED vars

NotBooked(r) ==
    /\ hpc[r] = "insert" /\ ret[r] = "error"
    /\ Answer(r, "error")
    /\ UNCHANGED <<vars, docs>>

\* InsertFiles started in a goroutine of its own and not waited for
InsertFilesOk_NoWait(r) ==
    /\ hpc[r] = "insert"
    /\ hpc' = [hpc EXCEPT ![r] = "upsert"]
    /\ UNCHANGED <<vars, docs, resp>>

InsertFilesOk(r) ==
    /\ hpc[r] = "insert" /\ ret[r] = "nil"
    /\ hpc' = [hpc EXCEPT ![r] = "upsert"]
    /\ UNCHANGED <<vars, docs, resp>>

Matching(r) == {d \in docs : d.dataset = call[r].dataset}

\* UpdateOne sets the fields of one matching document, its did among them ...
SetFields(r) ==
    \E d \in Matching(r) : docs' = (docs \ {d}) \cup {[d EXCEPT !.did = call[r].did]}

UpsertMatch(r) ==
    /\ hpc[r] = "upsert"
    /\ SetFields(r)
    /\ Answer(r, "ok")
    /\ UNCHANGED vars

\* ... and inserts one when it found none; no unique index on the dataset
\* makes it look again
UpsertMiss(r) ==
    /\ hpc[r] = "upsert"
    /\ Matching(r) = {}
    /\ hpc' = [hpc EXCEPT ![r] = "create"]
    /\ UNCHANGED <<vars, docs, resp>>

\* the did not put into the record
NewDoc_NoDid(r) == [id |-> r, dataset |-> call[r].dataset, did |-> None]

NewDoc(r) == [id |-> r, dataset |-> call[r].dataset, did |-> call[r].did]

UpsertCreate(r) ==
    /\ hpc[r] = "create"
    /\ docs' = docs \cup {NewDoc(r)}
    /\ Answer(r, "ok")
    /\ UNCHANGED vars

\* the error of UpdateOne logged but not returned
UpsertFails_Swallowed(r) ==
    /\ hpc[r] \in {"upsert", "create"}
    /\ UNCHANGED docs
    /\ Answer(r, "ok")
    /\ UNCHANGED vars

\* UpdateOne fails, either before it did anything or with its reply lost
UpsertFails(r) ==
    /\ hpc[r] \in {"upsert", "create"}
    /\ \/ "reject" \in MongoFaults /\ UNCHANGED docs
       \/ "noreply" \in MongoFaults /\ hpc[r] = "upsert" /\ SetFields(r)
       \/ "noreply" \in MongoFaults /\ hpc[r] = "create" /\ docs' = docs \cup {NewDoc(r)}
    /\ Answer(r, "error")
    /\ UNCHANGED vars

ICrash ==
    /\ Crash
    /\ hpc' = [r \in Requests |-> IF hpc[r] \in {"idle", "answered"} THEN hpc[r] ELSE "lost"]
    /\ UNCHANGED <<docs, resp>>

HandlerStep(r) ==
    \/ FilesStep(r) \/ NotBooked(r) \/ InsertFilesOk(r)
    \/ UpsertMatch(r) \/ UpsertMiss(r) \/ UpsertCreate(r) \/ UpsertFails(r)

\* ... without the faults
Progress(r) ==
    \/ hpc[r] = "insert" /\ Statement(r) /\ UNCHANGED handlers
    \/ NotBooked(r) \/ InsertFilesOk(r)
    \/ UpsertMatch(r) \/ UpsertMiss(r) \/ UpsertCreate(r)

IFinished ==
    /\ \A r \in Requests : hpc[r] \in {"answered", "lost"}
    /\ \A q \in Readers : rpc[q] \in {"done", "failed", "lost"}
    /\ UNCHANGED ivars

INext ==
    \/ \E r \in Requests : Refuse(r)
    \/ \E r \in Requests, ds \in Datasets, p \in Paths :
          \E w \in Walks(p) : Submit(r, ds, w)
    \/ \E r \in Requests : HandlerStep(r)
    \/ \E q \in Readers, did \in Dids : ReadCall(q, did) /\ UNCHANGED handlers
    \/ \E q \in Readers : ReadStep(q) /\ UNCHANGED handlers
    \/ ICrash
    \/ IFinished

ISpec == IInit /\ [][INext]_ivars

IFairness ==
    /\ \A r \in Requests : WF_ivars(Progress(r))
    /\ \A q \in Readers : WF_ivars(ReadStatement(q) /\ UNCHANGED handlers)

IFairSpec == ISpec /\ IFairness
----------------------------------------------------------------------------
(* Properties *)

\* The state stays in its types (FilesDB's, and the documents and locals of
\* insertData).
ITypeOK ==
    /\ TypeOK
    /\ docs \subseteq Docs
    /\ hpc \in [Requests -> {"idle", "insert", "upsert", "create", "answered", "lost"}]
    /\ resp \in [Requests -> {"none", "ok", "error"}]

\* A client that was told "inserted successfully" has its dataset in MongoDB
\* for good, whatever crashes or overlaps later.
AckedStored ==
    \A r \in Requests : resp[r] = "ok" => Matching(r) # {}

\* A client that was told so has its did, its dataset and every file the
\* walk found in FilesDB (possibly as rows of an earlier submission).  Holds
\* only while no statement of the transaction fails.
AckedBooked ==
    \A r \in Requests : resp[r] = "ok" =>
       /\ call[r].did \in meta
       /\ datasets[call[r].dataset] # None
       /\ \A f \in call[r].walk : files[f] # None

\* Whatever fails, a did that is in FilesDB has its whole submission there: a
\* row for its dataset and for every file the walk found.
WholeBooking ==
    \A r \in Requests : r \in meta =>
       datasets[call[r].dataset] # None /\ \A f \in call[r].walk : files[f] # None

\* MongoDB never runs ahead of FilesDB: the did of every document is booked
\* there, under the dataset the document is about.  Holds only while no
\* statement of the transaction fails.
DocsBooked ==
    \A d \in docs :
       /\ d.did \in meta
       /\ datasets[d.dataset] # None
       /\ \A f \in FilesOf(d.did) : files[f].dataset = d.dataset

\* A request that was refused, or whose InsertFiles failed, has left no trace
\* in MongoDB.
ErrorLeavesNoDoc ==
    \A r \in Requests : resp[r] = "error" /\ ret[r] # "nil" => \A d \in docs : d.did # r

\* getFiles answers with all the files the did will ever own or with none,
\* never with part of a booking, as long as no read fails.
WholeAnswers ==
    \A q \in Readers : rpc[q] \in {"scan", "done"} =>
       rans[q] \in {{}, FilesOf(rdid[q])}

\* "Show files" of a record (FilesHandler, which gets the did of the document)
\* lists every file that was found for it and no others, unless another
\* submission has found one of them, too: the row of a file keeps the did of
\* the submission that booked it first, the document has that of the last.
\* Holds only while no statement of the transaction fails.
DocListsFiles ==
    \A d \in docs :
       (\A r \in Requests \ {d.did} : call[r] = None \/ call[r].walk \cap call[d.did].walk = {})
       => FilesOf(d.did) = call[d.did].walk

\* Every request is answered, unless the process dies under it.
Answered ==
    \A r \in Requests : hpc[r] = "insert" ~> hpc[r] \in {"answered", "lost"}

\* The pipeline as its client sees it: booked in one step, then deposited,
\* then told, each at most once, and never undone; a document never carries
\* the did of a submission that is not booked (Deposits).  Holds only while no
\* statement of the transaction fails.
D == INSTANCE Deposits WITH
        stage  <- [r \in Requests |-> CASE hpc[r] = "idle" -> "new"
                                        [] hpc[r] \in {"answered", "lost"} -> "over"
                                        [] OTHER -> "open"],
        under  <- [r \in Requests |-> IF r \in meta THEN call[r].dataset ELSE None],
        stored <- [ds \in Datasets |-> {d.did : d \in {e \in docs : e.dataset = ds}}],
        told   <- resp
Deposited == D!Spec

\* What TestMongoInsert expects of MongoUpsert: the dataset names one record.
OneDocPerDataset ==
    \A d, e \in docs : d.dataset = e.dataset => d = e
=============================================================================
