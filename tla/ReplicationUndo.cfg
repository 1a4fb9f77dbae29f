\* A failed request after a successful one.
SPECIFICATION Spec
CONSTANTS
    c = c
    p1 = p1
    p2 = p2
    Nobody = Nobody
    Servers = {c, p1, p2}
    Peers <- Mesh
    Coordinators = {c}
    Kinds = {"WRITE", "MALFORMED"}
    UnknownIds = FALSE
    Patient = TRUE
    Faults = {}
    MaxRequests = 2
    MaxFaults = 0
INVARIANT
    WrittenEverywhere
CHECK_DEADLOCK FALSE
