SPECIFICATION FairSpec
CONSTANTS
    zip = zip
    mbox = mbox
    tar = tar
    msg = msg
    link = link
    page = page
    b1 = b1
    b2 = b2
    NoParent = NoParent
    NoJob = NoJob
    Docs <- MCDocs
    Parts <- MCParts
    Contents <- MCContents
    Irregular <- MCIrregular
    Fragile <- MCFragile
    Lenient <- MCLenient
    Analyzable <- MCAnalyzable
    Batches <- MCBatches
    Uploads <- OneFile
    Workers = {w1, w2}
    Retries = 1
    MaxFaults = 2
    MaxCrashes = 0
INVARIANTS
    TypeOK
PROPERTIES
    BatchesEnd
