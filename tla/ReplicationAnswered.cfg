\* Two servers that replicate to each other, clients at both, everything may
\* go wrong once.
SPECIFICATION FairSpec
CONSTANTS
    c = c
    p1 = p1
    p2 = p2
    Nobody = Nobody
    Servers = {c, p1}
    Peers <- Mesh
    Coordinators = {c, p1}
    Kinds = {"WRITE", "MALFORMED"}
    UnknownIds = FALSE
    Patient = FALSE
    Faults = {"lose", "crash", "disk"}
    MaxRequests = 2
    MaxFaults = 1
PROPERTY
    Answered
CHECK_DEADLOCK FALSE
