----------------------------- MODULE Filtering -------------------------------
(* The loop that copies the elements of a slice that pass a test, as in      *)
(* JsonHandler, formEntry and List2Set.                                      *)
EXTENDS SequencesExt

\* the elements that are in S, in their order
Keep(seq, S) == FoldLeft(LAMBDA kept, x : IF x \in S THEN Append(kept, x) ELSE kept, <<>>, seq)
==============================================================================
