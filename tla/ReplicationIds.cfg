\* A WRITE after one that timed out because a peer did not get PRECOMMIT.
SPECIFICATION Spec
CONSTANTS
    c = c
    p1 = p1
    p2 = p2
    Nobody = Nobody
    Servers = {c, p1, p2}
    Peers <- Mesh
    Coordinators = {c}
    Kinds = {"WRITE"}
    UnknownIds = FALSE
    Patient = TRUE
    Faults = {"lose"}
    MaxRequests = 2
    MaxFaults = 1
INVARIANT
    IdsAgree
CHECK_DEADLOCK FALSE
