SPECIFICATION ISpec
CONSTANTS
    Requests = {r1, r2}
    Readers = {q1}
    Dids = {r1, r2}
    Datasets = {x, y}
    p1 = p1
    p2 = p2
    Paths = {p1, p2}
    Files = {1, 2, 3}
    Under <- MCUnder
    Driver = "sqlite3"
    MaxOpenConns = 2
    Faults = {"lookup", "begin", "commit", "crash"}
    MongoFaults = {"reject", "noreply"}
    None = None
SYMMETRY MCSymmetry
INVARIANTS
    ITypeOK
    AckedStored
    AckedBooked
    DocsBooked
    WholeBooking
    ErrorLeavesNoDoc
    WholeAnswers
    DocListsFiles
PROPERTY Deposited
