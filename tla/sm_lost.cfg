SPECIFICATION Spec
CONSTANTS
    v1 = v1
    v2 = v2
    p1 = p1
    p2 = p2
    Procs = {p1, p2}
    Schemas = {s1}
    Versions = {v1, v2}
    Defs <- MCDefs
    Records <- MCRecords
    MaxActive = 2
    MaxEdits = 0
    None = None
INVARIANT LoadedIsFound
SYMMETRY MCSymmetry
