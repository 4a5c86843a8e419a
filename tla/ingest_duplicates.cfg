SPECIFICATION ISpec
CONSTANTS
    Requests = {r1, r2}
    Readers = {}
    Dids = {r1, r2}
    Datasets = {x, y}
    p1 = p1
    p2 = p2
    Paths = {p1, p2}
    Files = {1, 2, 3}
    Under <- MCUnder
    Driver = "sqlite3"
    MaxOpenConns = 2
    Faults = {}
    MongoFaults = {}
    None = None
INVARIANT OneDocPerDataset
