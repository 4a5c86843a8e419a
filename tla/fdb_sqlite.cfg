SPECIFICATION Spec
CONSTANTS
    Requests = {r1, r2}
    Readers = {q1}
    Dids = {d1, d2}
    Datasets = {x, y}
    p1 = p1
    p2 = p2
    Paths = {p1, p2}
    Files = {1, 2, 3}
    Under <- MCUnder
    Driver = "sqlite3"
    MaxOpenConns = 2
    Faults <- MCAllFaults
    None = None
SYMMETRY MCSymmetry
INVARIANTS
    TypeOK
    Integrity
    KeysExclusive
    NoLeak
    AllStaged
PROPERTY Books
