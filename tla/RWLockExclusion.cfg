\* Two threads, no spurious wakeups: a writer and a reader inside at the same
\* time.
SPECIFICATION Spec
CONSTANTS
    Threads = {t1, t2}
    Spurious = FALSE
SYMMETRY ThreadSymmetry
INVARIANT
    MutualExclusion
CHECK_DEADLOCK FALSE
