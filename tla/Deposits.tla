------------------------------ MODULE Deposits ------------------------------
(***************************************************************************)
(* What the ingest pipeline promises while no statement inside the         *)
(* transaction of FilesDB fails.  A submission is first booked, in one     *)
(* step and under a did of its own (Bookkeeping), and then deposited: its  *)
(* did takes the place of an earlier one in a document of the dataset, or  *)
(* comes with a new document.  Only then is the client told "ok"; what a   *)
(* submission that is over has done is never undone and never done again.  *)
(***************************************************************************)
EXTENDS FiniteSets

CONSTANTS Dids, Datasets, Files, None

VARIABLES
    meta, datasets, files,   \* the tables, see Bookkeeping
    stage,    \* each submission: "new", "open" or "over"
    under,    \* the dataset it is booked under, or None
    stored,   \* dataset -> the dids its documents carry
    told      \* the answer each client got: "none", "ok" or "error"

dvars == <<meta, datasets, files, stage, under, stored, told>>

K == INSTANCE Bookkeeping WITH meta <- meta, datasets <- datasets, files <- files

Init ==
    /\ K!Init
    /\ stage = [d \in Dids |-> "new"]
    /\ under = [d \in Dids |-> None]
    /\ stored = [ds \in Datasets |-> {}]
    /\ told = [d \in Dids |-> "none"]

End(d, answer) ==
    /\ stage' = [stage EXCEPT ![d] = "over"]
    /\ told' = [told EXCEPT ![d] = answer]

Submit(d) ==
    /\ stage[d] = "new"
    /\ stage' = [stage EXCEPT ![d] = "open"]
    /\ UNCHANGED <<K!tables, under, stored, told>>

Book(d, ds, fs) ==
    /\ stage[d] = "open" /\ under[d] = None
    /\ K!Book(d, ds, fs)
    /\ under' = [under EXCEPT ![d] = ds]
    /\ UNCHANGED <<stage, stored, told>>

\* The answer "error" after a deposit is that of a lost reply
Deposit(d, answer) ==
    /\ stage[d] = "open" /\ under[d] # None
    /\ \E old \in {{}} \cup {{e} : e \in stored[under[d]]} :
          stored' = [stored EXCEPT ![under[d]] = (@ \ old) \cup {d}]
    /\ End(d, answer)
    /\ UNCHANGED <<K!tables, under>>

GiveUp(d) ==
    /\ stage[d] # "over"
    /\ End(d, "error")
    /\ UNCHANGED <<K!tables, under, stored>>

\* The process dies under the open submissions
Die ==
    /\ stage' = [d \in Dids |-> IF stage[d] = "open" THEN "over" ELSE stage[d]]
    /\ UNCHANGED <<K!tables, under, stored, told>>

Next ==
    \/ \E d \in Dids : Submit(d) \/ GiveUp(d)
    \/ \E d \in Dids, ds \in Datasets, fs \in SUBSET Files : Book(d, ds, fs)
    \/ \E d \in Dids, answer \in {"ok", "error"} : Deposit(d, answer)
    \/ Die

Spec == Init /\ [][Next]_dvars
============================================================================
