\* The last reader leaves while a writer waits.
SPECIFICATION Spec
CONSTANTS
    Threads = {t1, t2, t3}
    Spurious = FALSE
SYMMETRY ThreadSymmetry
INVARIANT
    WriterNotForgotten
CHECK_DEADLOCK FALSE
