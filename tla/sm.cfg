SPECIFICATION Spec
CONSTANTS
    v1 = v1
    v2 = v2
    p1 = p1
    p2 = p2
    Procs = {p1, p2}
    Schemas = {s1}
    Versions = {v1, v2}
    Defs <- MCDefs
    Records <- MCRecords
    MaxActive = 2
    MaxEdits = 1
    None = None
INVARIANTS SMTypeOK AloneFinds AcceptedKnown Verdict
SYMMETRY MCSymmetry
