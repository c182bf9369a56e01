SPECIFICATION Spec
CONSTANTS
    Threads = {t1, t2}
    Ports = {p1, p2}
    Docs = {healthy, damaged, stuck}
    Damaged = {damaged}
    Stuck = {stuck}
    MaxJobs = 2
    MaxFaults = 0
    NoThread = NoThread
    NoPort = NoPort
    NoDoc = NoDoc
    NoProfile = NoProfile
SYMMETRY Symmetry
INVARIANTS
    ListenersAreOwn
