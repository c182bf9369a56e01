SPECIFICATION FairSpec
CONSTANTS
    Threads = {t1, t2}
    Ports = {p1, p2}
    Docs = {healthy, damaged, stuck}
    Damaged = {damaged}
    Stuck = {stuck}
    MaxJobs = 3
    MaxFaults = 1
    NoThread = NoThread
    NoPort = NoPort
    NoDoc = NoDoc
    NoProfile = NoProfile
INVARIANTS
    TypeOK
    ProfilesAreExclusive
    RejectedForCause
    NoneOutlivesWorker
PROPERTIES
    ConversionsEnd
