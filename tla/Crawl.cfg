SPECIFICATION FairSpec
CONSTANTS
    folder = folder
    f1 = f1
    f2 = f2
    f3 = f3
    f4 = f4
    f5 = f5
    f6 = f6
    NoFile = NoFile
    Files <- LongFiles
    Folders <- MCFolders
    Walk <- LongWalk
    Irregular <- MCIrregular
    ThreadCounts = {1, 2}
    FlushSize = 2
    MaxRuns = 2
    MaxFaults = 1
    MaxCrashes = 1
INVARIANTS
    TypeOK
    LossIsBounded
    EndsComplete
PROPERTIES
    KeepsPromise
    RunsEnd
