\* A REPLACE is tried again after it timed out.
SPECIFICATION Spec
CONSTANTS
    c = c
    p1 = p1
    p2 = p2
    Nobody = Nobody
    Servers = {c, p1}
    Peers <- Mesh
    Coordinators = {c}
    Kinds = {"WRITE", "REPLACE"}
    UnknownIds = FALSE
    Patient = FALSE
    Faults = {}
    MaxRequests = 3
    MaxFaults = 0
INVARIANT
    DecisionIsUnanimous
CHECK_DEADLOCK FALSE
