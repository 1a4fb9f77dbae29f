\* Two agents serve clients, one the peers.
SPECIFICATION BoardSpec
CONSTANTS
    Threads = {a, b, s}
    SportAgents = {s}
    Spurious = FALSE
    Commands = {"WRITE", "REPLACE", "READ", "UNDO"}
    MaxCommands = 3
SYMMETRY ClientSymmetry
INVARIANTS
    BoardTypeOK
    BoardExact
    IdsDistinct
    AccidentsNeedOverlap
PROPERTY
    ReadsExact
\* The lock may forget a writer, and the number of commands is bounded.
CHECK_DEADLOCK FALSE
