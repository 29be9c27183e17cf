\* Four threads race to the cap and past it; one restart.
CONSTANTS
    Thread = {t1, t2, t3, t4}
    MaxCopies = 3
    Wrap = 16
    MaxRestarts = 1
SPECIFICATION Spec
INVARIANTS TypeOK CountsCopies OvershootBounded
