\* A listener, two agents, two clients that send one command each, and one
\* peer; both commands use the same message id.
SPECIFICATION FairPoolSpec
CONSTANTS
    Threads = {listener, a1, a2}
    Agents = {a1, a2}
    Callers = {a1, a2}
    Clients = {c1, c2}
    MessageIds = {1}
    ReplyCount = 1
    MaxRequests = 2
    MaxAdds = 8
INVARIANTS
    TypeOK
    EnoughWakeups
    TakenInOrder
    AckTypeOK
    PoolTypeOK
    OwnAnswers
    BreaksOnlyIf
    LeftoversOnlyOfFailures
PROPERTIES
    RequestsEnd
    EntriesServed
CHECK_DEADLOCK FALSE
