\* Four threads, each reader or writer at will, with spurious wakeups.
SPECIFICATION FairSpec
CONSTANTS
    Threads = {t1, t2, t3, t4}
    Spurious = TRUE
INVARIANTS
    TypeOK
    CountersExact
    NoReaderLeftBehind
    ExclusionUnlessResumed
PROPERTY
    ReaderServed
