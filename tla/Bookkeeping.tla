---------------------------- MODULE Bookkeeping ----------------------------
(***************************************************************************)
(* What FilesDB promises: a submission is booked in one indivisible step.  *)
(* The three tables are kept by their natural keys, which the SQL schema   *)
(* declares UNIQUE; None stands for "no such row".  Booking a submission   *)
(* makes its identifier known, gives the dataset to it unless the dataset  *)
(* already has a row, and gives it every file that nobody owns yet.  No    *)
(* row ever changes or goes away.                                          *)
(***************************************************************************)
CONSTANTS
    Dids,       \* identifiers of submissions (metadata.did)
    Datasets,   \* dataset names (datasets.dataset)
    Files,      \* absolute file names (files.file)
    None        \* the absent row

VARIABLES
    meta,       \* the dids that have a row in table metadata
    datasets,   \* table datasets: name -> did of its metadata row, or None
    files       \* table files: name -> owning did and dataset, or None

tables == <<meta, datasets, files>>

Init ==
    /\ meta = {}
    /\ datasets = [d \in Datasets |-> None]
    /\ files = [f \in Files |-> None]

Book(did, ds, fs) ==
    /\ meta' = meta \cup {did}
    /\ datasets' = [d \in Datasets |->
                      IF d = ds /\ datasets[d] = None THEN did ELSE datasets[d]]
    /\ files' = [f \in Files |->
                      IF f \in fs /\ files[f] = None
                      THEN [did |-> did, dataset |-> ds] ELSE files[f]]

Next == \E did \in Dids, ds \in Datasets, fs \in SUBSET Files : Book(did, ds, fs)

Spec == Init /\ [][Next]_tables
============================================================================
