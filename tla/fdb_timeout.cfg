SPECIFICATION Spec
CONSTANTS
    Requests = {r1, r2}
    Readers = {}
    Dids = {d1, d2}
    Datasets = {x, y}
    p1 = p1
    p2 = p2
    Paths = {p1, p2}
    Files = {1, 2, 3}
    Under <- MCUnderApart
    Driver = "sqlite3"
    MaxOpenConns = 2
    Faults = {"timeout"}
    None = None
INVARIANT NilMeansListed
