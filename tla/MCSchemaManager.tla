--------------------------- MODULE MCSchemaManager ---------------------------
(* Instances of SchemaManager: two versions of a schema file whose keys      *)
(* overlap, and records that conform to one, the other or neither.           *)
EXTENDS SchemaManager, TLC

CONSTANTS v1, v2, p1, p2

MCDefs == (v1 :> [keys |-> {"a", "b"}, mandatory |-> {"a", "b"}])
       @@ (v2 :> [keys |-> {"b", "c"}, mandatory |-> {"c"}])

Rec(ks, bad) == [keys |-> ks, bad |-> bad]
MCRecords == {Rec({"a", "b"}, {}), Rec({"a", "b"}, {"b"}), Rec({"a"}, {}),
              Rec({"c"}, {}), Rec({"a", "b", "c"}, {})}

MCSymmetry == Permutations(Procs)
============================================================================
