SPECIFICATION IFairSpec
CONSTANTS
    Requests = {r1, r2}
    Readers = {q1}
    Dids = {r1, r2}
    Datasets = {x}
    p1 = p1
    p2 = p2
    Paths = {p1, p2}
    Files = {1, 2, 3}
    Under <- MCUnder
    Driver = "sqlite3"
    MaxOpenConns = 2
    Faults = {"exec"}
    MongoFaults = {"reject"}
    None = None
PROPERTIES Returns Answered
