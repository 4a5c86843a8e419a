----------------------------- MODULE MCDataPage -----------------------------
(* Instances of DataPage: three schema files, two of them with a section of  *)
(* their own.  The configured sections have room for one more (as three do   *)
(* in a slice that Go decodes from JSON), are complete, or are missing.      *)
EXTENDS DataPage

MCSchemaFiles == <<"test", "ID1A3", "ID1A">>
MCName == [f \in ToSet(MCSchemaFiles) |-> f]
MCPathHas == {<<f, f>> : f \in ToSet(MCSchemaFiles)} \cup {<<"ID1A3", "ID1A">>}

Mandatory(section) == [section |-> section, optional |-> FALSE]
Optional(section)  == [section |-> section, optional |-> TRUE]
MCLayout == [test  |-> [name |-> Mandatory("User"), x |-> Mandatory("Optics")],
             ID1A3 |-> [name |-> Mandatory("User"), y |-> Optional("Vacuum"), z |-> Mandatory("")],
             ID1A  |-> [name |-> Mandatory("User"), b |-> Optional("Beam")]]
MCSectionOrder == <<"Beam", "Optics", "User", "Vacuum">>

Sections(list, spare) == [sections |-> list, spare |-> spare, web |-> [User |-> {"name"}, Beam |-> {}]]
MCConfigs == {Sections(<<"User", "Beam", "Sample">>, 1), Sections(MCSectionOrder, 0), Sections(<<>>, 0)}

MCSymmetry == Permutations(Users)
=============================================================================
