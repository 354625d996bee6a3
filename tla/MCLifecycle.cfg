SPECIFICATION Spec
CONSTANTS
    p1 = p1
    p2 = p2
    None = None
    Procs = {p1, p2}
    CommandLines <- MCLines
    Environments <- MCEnvironments
    CoreCounts = {1, 2}
    Names <- MCNames
    LONG_MAX = 15
    INT_MAX = 3
    SLEEP_INTERVAL = 2
INVARIANTS
    CommandLineHonoured
    PidFileLives
PROPERTIES
    PidFileSteps
    StoppedCleansUp
