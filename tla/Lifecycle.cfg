\* A server with up to two agents on the b-port that is reloaded once.
SPECIFICATION LifeSpec
CONSTANTS
    board = board
    none = none
    hostA = hostA
    hostB = hostB
    noPort = noPort
    default = default
    second = second
    broken = broken
    missing = missing
    CommandLines <- MCCommandLines
    DefaultFile = default
    Files <- MCFiles
    Defaults <- MCDefaults
    Unset = none
    PeerNames = {hostA, hostB}
    Malformed = noPort
    MaxTmax = 2
    MaxGenerations = 2
    MaxOrphans = 1
CONSTRAINT SmallReload
INVARIANTS
    LifeTypeOK
    Precedence
    PeersListed
    ObjectsFound
    FirstStopMissesOne
PROPERTIES
    ConfigurationEnds
    ReinitEnds
\* The process may end.
CHECK_DEADLOCK FALSE
