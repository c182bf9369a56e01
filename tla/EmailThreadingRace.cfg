SPECIFICATION Spec
CONSTANTS
    first = first
    second = second
    third = third
    m1 = m1
    m2 = m2
    NoEmail = NoEmail
    NoId = NoId
    Emails <- MCEmails
    Ids <- MCIds
    MessageId <- PairMessageId
    InReplyTo <- PairInReplyTo
    Copies <- SentCopies
    Workers = {w1, w2}
    MaxFaults = 0
SYMMETRY WorkerSymmetry
INVARIANTS
    RepliesAreLinked
