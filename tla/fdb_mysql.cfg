SPECIFICATION Spec
CONSTANTS
    Requests = {r1, r2, r3}
    Readers = {}
    Dids = {d1, d2}
    Datasets = {x, y}
    p1 = p1
    p2 = p2
    Paths = {p1, p2}
    Files = {1, 2, 3}
    Under <- MCUnder
    Driver = "mysql"
    MaxOpenConns = 3
    Faults = {"timeout", "rollback", "commit"}
    None = None
SYMMETRY MCSymmetry
INVARIANTS
    AllStaged
    CirclesShare
PROPERTY Books
