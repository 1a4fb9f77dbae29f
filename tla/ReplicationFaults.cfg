\* One coordinator, WRITE and malformed commands, everything may go wrong once.
SPECIFICATION Spec
CONSTANTS
    c = c
    p1 = p1
    p2 = p2
    Nobody = Nobody
    Servers = {c, p1, p2}
    Peers <- Mesh
    Coordinators = {c}
    Kinds = {"WRITE", "MALFORMED"}
    UnknownIds = FALSE
    Patient = FALSE
    Faults = {"lose", "crash", "disk"}
    MaxRequests = 2
    MaxFaults = 1
INVARIANTS
    TypeOK
    DecisionIsUnanimous
    ReplicaNumberBehind
    UniqueIds
PROPERTY
    ImplementsAtomicBoard
SYMMETRY PeerSymmetry
CHECK_DEADLOCK FALSE
