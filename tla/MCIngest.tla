------------------------------- MODULE MCIngest -------------------------------
(***************************************************************************)
(* Instances of Ingest for TLC.  The requests may name the same dataset or *)
(* not, the same directory or overlapping ones; a request that names what  *)
(* an earlier one named is a retry or a second submission.                 *)
(***************************************************************************)
EXTENDS Ingest, TLC

CONSTANTS p1, p2

MCUnder == p1 :> {1, 2} @@ p2 :> {2, 3}
MCSymmetry == Permutations(Requests)
=============================================================================
