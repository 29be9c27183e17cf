\* Two threads.
CONSTANTS
    Thread = {t1, t2}
    MaxCopies = 2
    Wrap = 16
    MaxRestarts = 0
SPECIFICATION Spec
INVARIANT HardCap
