SPECIFICATION Spec
CONSTANTS
    first = first
    second = second
    third = third
    m1 = m1
    m2 = m2
    NoEmail = NoEmail
    NoId = NoId
    Emails <- MCEmails
    Ids <- MCIds
    MessageId <- ThreadMessageId
    InReplyTo <- ThreadInReplyTo
    Copies <- ThreadCopies
    Workers = {w1, w2}
    MaxFaults = 1
SYMMETRY WorkerSymmetry
INVARIANTS
    TypeOK
    LinksAreReplies
    LaterIsLinked
