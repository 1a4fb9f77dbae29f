\* One coordinator, WRITE and REPLACE, waits long enough for the answers; a
\* file of any server may fail to open once.
SPECIFICATION FairSpec
CONSTANTS
    c = c
    p1 = p1
    p2 = p2
    Nobody = Nobody
    Servers = {c, p1, p2}
    Peers <- Star
    Coordinators = {c}
    Kinds = {"WRITE", "REPLACE"}
    UnknownIds = FALSE
    Patient = TRUE
    Faults = {"disk"}
    MaxRequests = 4
    MaxFaults = 2
INVARIANTS
    Convergence
    AbortedVanishes
CHECK_DEADLOCK FALSE
