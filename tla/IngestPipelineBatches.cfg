SPECIFICATION Spec
CONSTANTS
    zip = zip
    mbox = mbox
    tar = tar
    msg = msg
    link = link
    page = page
    b1 = b1
    b2 = b2
    NoParent = NoParent
    NoJob = NoJob
    Docs <- MCDocs
    Parts <- MCParts
    Contents <- MCContents
    Irregular <- MCIrregular
    Fragile <- MCFragile
    Lenient <- MCLenient
    Analyzable <- MCAnalyzable
    Batches <- MCBatches
    Uploads <- TwoBatches
    Workers = {w1, w2}
    Retries = 1
    MaxFaults = 1
    MaxCrashes = 0
SYMMETRY WorkerSymmetry
INVARIANTS
    DoneIsComplete
    PlacementsKept
    OptOutIsKept
PROPERTIES
    DoneIsStable
    KeepsPromise
