------------------------------ MODULE MCFilesDB ------------------------------
(***************************************************************************)
(* Instances of FilesDB for TLC.  Two directories overlap in file 2, so    *)
(* submissions meet on a did, on a dataset, on a path and on a file that   *)
(* is only partly theirs.                                                  *)
(***************************************************************************)
EXTENDS FilesDB, TLC

CONSTANTS p1, p2

MCUnder == p1 :> {1, 2} @@ p2 :> {2, 3}
MCUnderApart == p1 :> {1} @@ p2 :> {2, 3}
MCAllFaults == FaultKinds
MCSymmetry == Permutations(Requests)
=============================================================================
